----------------------------- MODULE SsiTxProofs -----------------------------
(***************************************************************************)
(* The transmit half of the sample interface, for any counts, any stream   *)
(* and any moment at which software switches it: which words the device    *)
(* receives, and that each is whole.                                       *)
(*                                                                         *)
(* The properties speak of what has left the pipeline; the invariant says  *)
(* what is still in it.  Paired: in every stage the first half of a word   *)
(* is followed by the second.  InStep: how many of the words begun have    *)
(* been received (Through), which word each stage carries, and whether the *)
(* serialiser runs, all as functions of how many have been begun.          *)
(***************************************************************************)
EXTENDS SsiTx, TLAPS

Paired ==
  /\ packedValid => ~ready
  /\ unpacked.strobe => ~packedValid /\ packed = unpacked.of
  /\ serdesIn.strobe => ~unpacked.strobe /\ unpacked.of = serdesIn.of
  /\ first # None => ~serdesIn.strobe /\ serdesIn.of = first

(* A sample is on offer only while the stream has one. *)
Offered == valid => next < MaxWords

Whole == TypeOK /\ Offered /\ Paired /\ WholeWords

(* How far the counter is after m words, and whether the serialiser runs   *)
(* a clock later.                                                          *)
Seen(m) == IF m < CountMax THEN m ELSE CountMax
Runs(m) == ssiEnableCnt < Seen(m) /\ Seen(m) <= disableCnt

(* How many of the first m words the device has. *)
Through(m) ==
  IF m <= ssiEnableCnt \/ disableCnt <= ssiEnableCnt THEN 0
  ELSE IF disableCnt < CountMax /\ m >= disableCnt THEN disableCnt - 1 - ssiEnableCnt
  ELSE m - ssiEnableCnt

Carries(w, i) == due[i] # Junk => w = due[i]

(* Between an enable and the serialiser's reset after it; the serialiser   *)
(* is not in reset before the first clock either.                          *)
Live == cnt > 0 \/ (~rst /\ due # <<>>)

(* Of a word begun, the first half is a clock in packed, a clock in        *)
(* unpacked, a clock in serdesIn and a clock with the device; the next     *)
(* word follows two clocks behind it.                                      *)
Packing ==
  /\ rst <=> ~Runs(Len(due) - 1)
  /\ first = None
  /\ Carries(packed, Len(due))
  /\ Len(due) >= 2 => serdesIn.strobe /\ Carries(serdesIn.of, Len(due) - 1)

Unpacking ==
  /\ unpacked.strobe /\ ~serdesIn.strobe
  /\ rst <=> ~Runs(Len(due))
  /\ Carries(unpacked.of, Len(due))
  /\ first # None <=> Runs(Len(due) - 1)
  /\ first # None => Carries(first, Len(due) - 1)

InStep ==
  Live =>
    /\ Len(due) >= 1 /\ Len(got) = Through(Len(due) - 2)
    /\ IF cnt > 0 THEN cnt = Seen(Len(due)) /\ (packedValid \/ ready) ELSE ~ready
    /\ IF packedValid THEN Packing ELSE Unpacking

Unstarted == ~Live /\ ~rst => ~ready /\ first = None /\ got = <<>>

Latched == early => inPacked = next

Fits == disableCnt < CountMax => Len(got) <= Asked

Sound == Whole /\ Latched /\ InStep /\ Unstarted /\ SentInStep /\ Fits

-----------------------------------------------------------------------------
(* Types.                                                                  *)

LEMMA InitTyped == Init => TypeOK
<1> SUFFICES ASSUME Init PROVE TypeOK
  OBVIOUS
<1>1. Junk \in Words /\ 0 \in Samples /\ 0 \in 0 .. CountMax /\ 0 \in 0 .. SyncStages
  BY TxAssumption DEF Words, Samples
<1>2. unpacked \in Half /\ serdesIn \in Half
  BY <1>1 DEF Init, Half
<1>3. due \in Seq(Words) /\ got \in Seq(Words \X (Words \cup {None}))
  BY DEF Init
<1>4. /\ enable \in BOOLEAN /\ ready \in BOOLEAN /\ rst \in BOOLEAN /\ pin \in BOOLEAN
      /\ valid \in BOOLEAN /\ early \in BOOLEAN /\ packedValid \in BOOLEAN
  BY Zenon DEF Init
<1> QED
  BY <1>1, <1>2, <1>3, <1>4 DEF Init, TypeOK, Sources

LEMMA SettingTyped == TypeOK /\ (Enable \/ Disable \/ SetDataSrc \/ Offer) => TypeOK'
<1>1. TypeOK /\ (Enable \/ Disable) => TypeOK'
  <2> SUFFICES ASSUME TypeOK, Enable \/ Disable PROVE TypeOK'
    OBVIOUS
  <2>1. UNCHANGED <<ssiEnableCnt, disableCnt, dataSrc, logic, stream, device>>
    BY DEF Enable, Disable
  <2>2. enable' \in BOOLEAN
    BY Zenon DEF Enable, Disable
  <2> QED
    BY <2>1, <2>2 DEF TypeOK, logic, stream, device
<1>2. TypeOK /\ SetDataSrc => TypeOK'
  BY DEF TypeOK, SetDataSrc, logic, stream, device
<1>3. TypeOK /\ Offer => TypeOK'
  BY DEF TypeOK, Offer, settings, logic, device
<1> QED
  BY <1>1, <1>2, <1>3

LEMMA PipelineTyped ==
  ASSUME TypeOK, Clock
  PROVE  /\ inPacked' \in Words /\ packed' \in Words /\ packedValid' \in BOOLEAN
         /\ unpacked' \in Half /\ serdesIn' \in Half
<1>1. OnBus \in Words /\ Pattern \in Words
  BY DEF TypeOK, OnBus, Words
<1> QED
  BY <1>1 DEF TypeOK, Clock, Pack, Unpack, Half

LEMMA CounterTyped ==
  ASSUME TypeOK, Clock
  PROVE  /\ hold' \in 0 .. SyncStages /\ cnt' \in 0 .. CountMax
         /\ ready' \in BOOLEAN /\ rst' \in BOOLEAN /\ pin' \in BOOLEAN
<1>1. hold' \in 0 .. SyncStages
  BY TxAssumption DEF TypeOK, Clock
<1>2. cnt' \in 0 .. CountMax
  BY TxAssumption DEF TypeOK, Clock, Count
<1>3. ready' \in BOOLEAN
  BY Zenon DEF Clock, Pace
<1>4. rst' \in BOOLEAN /\ pin' \in BOOLEAN
  BY Zenon DEF Clock, Count
<1> QED
  BY <1>1, <1>2, <1>3, <1>4

LEMMA StreamTyped ==
  ASSUME TypeOK, Offered, Clock
  PROVE  next' \in Samples /\ valid' \in BOOLEAN /\ early' \in BOOLEAN /\ Offered'
<1> DEFINE taken == valid /\ ready
<1>1. /\ next' = IF taken THEN next + 1 ELSE next
      /\ early' = (valid /\ ~taken)
      /\ valid' \in IF taken /\ next + 1 < MaxWords THEN BOOLEAN ELSE {valid /\ ~taken}
  BY DEF Clock, Handshake
<1>2. early' \in BOOLEAN /\ taken \in BOOLEAN
  BY Zenon, <1>1 DEF TypeOK
<1>3. next \in Nat /\ next <= MaxWords /\ MaxWords \in Nat
  BY TxAssumption DEF TypeOK, Samples
<1>4. CASE taken
  <2>1. next' = next + 1 /\ next < MaxWords
    BY <1>1, <1>4 DEF Offered
  <2>2. CASE next + 1 < MaxWords
    <3>1. valid' \in BOOLEAN
      BY Zenon, <1>1, <1>4, <2>2
    <3>2. next' \in Samples /\ next' < MaxWords
      BY <1>3, <2>1, <2>2 DEF Samples
    <3> QED
      BY Zenon, <1>2, <3>1, <3>2 DEF Offered
  <2>3. CASE ~(next + 1 < MaxWords)
    <3>1. valid' = FALSE
      BY Zenon, <1>1, <1>4, <2>3
    <3>2. next' \in Samples
      BY <1>3, <2>1 DEF Samples
    <3> QED
      BY Zenon, <1>2, <3>1, <3>2 DEF Offered
  <2> QED
    BY <2>2, <2>3
<1>5. CASE ~taken
  <2>1. valid' = valid
    BY Zenon, <1>1, <1>5 DEF TypeOK
  <2>2. next' = next
    BY <1>1, <1>5
  <2> QED
    BY <1>2, <2>1, <2>2 DEF TypeOK, Offered
<1> QED
  BY <1>2, <1>4, <1>5

LEMMA DeviceTyped ==
  ASSUME TypeOK, Clock
  PROVE  /\ first' \in Words \cup {None}
         /\ due' \in Seq(Words) /\ got' \in Seq(Words \X (Words \cup {None}))
<1>1. Pattern \in Words /\ Junk \in Words /\ next \in Words
  BY DEF TypeOK, Words
<1>2. serdesIn.of \in Words /\ first \in Words \cup {None}
  BY DEF TypeOK, Half
<1>3. first' \in Words \cup {None}
  BY <1>2 DEF Clock, Receive
<1>4. due' \in Seq(Words)
  <2> DEFINE before == IF AtRest THEN <<>> ELSE due
             word == IF dataSrc = "pattern" THEN Pattern ELSE IF early THEN next ELSE Junk
  <2>1. before \in Seq(Words) /\ word \in Words
    BY <1>1 DEF TypeOK
  <2>2. due' = IF ready THEN Append(before, word) ELSE before
    BY DEF Clock, Due
  <2> HIDE DEF before, word
  <2> QED
    BY <2>1, <2>2
<1>5. got' \in Seq(Words \X (Words \cup {None}))
  <2> DEFINE Pairs == Words \X (Words \cup {None})
             word == <<first, IF serdesIn.strobe THEN None ELSE serdesIn.of>>
  <2>1. \/ got' = <<>> \/ got' = got
        \/ got' = Append(got, word) /\ first # None
    BY DEF Clock, Receive
  <2>2. first # None => word \in Pairs
    BY <1>2
  <2>3. got \in Seq(Pairs)
    BY DEF TypeOK
  <2> HIDE DEF Pairs, word
  <2>4. <<>> \in Seq(Pairs) /\ (first # None => Append(got, word) \in Seq(Pairs))
    BY <2>2, <2>3
  <2>5. got' \in Seq(Pairs)
    BY Zenon, <2>1, <2>3, <2>4
  <2> QED
    BY <2>5 DEF Pairs
<1> QED
  BY <1>3, <1>4, <1>5

LEMMA ClockTyped == TypeOK /\ Offered /\ Clock => TypeOK' /\ Offered'
<1> SUFFICES ASSUME TypeOK, Offered, Clock PROVE TypeOK' /\ Offered'
  OBVIOUS
<1>1. UNCHANGED settings
  BY DEF Clock
<1> QED
  BY <1>1, PipelineTyped, CounterTyped, StreamTyped, DeviceTyped DEF TypeOK, settings

-----------------------------------------------------------------------------
(* The pipeline.                                                           *)

LEMMA ClockPaired == TypeOK /\ Paired /\ Clock => Paired'
<1> SUFFICES ASSUME TypeOK, Paired, Clock PROVE Paired'
  OBVIOUS
<1>1. /\ ready' = (Enabled /\ ~ready) /\ packedValid' = ready
      /\ ~ready => packed' = packed
      /\ unpacked' = [strobe |-> packedValid, of |-> packed] /\ serdesIn' = unpacked
      /\ first' = IF ~rst /\ serdesIn.strobe THEN serdesIn.of ELSE None
  BY DEF Clock, Pace, Pack, Unpack, Receive
<1>2. packedValid' => ~ready'
  BY Zenon, <1>1
<1>3. unpacked'.strobe = packedValid /\ unpacked'.of = packed
  BY <1>1
<1>4. unpacked'.strobe => ~packedValid' /\ packed' = unpacked'.of
  BY <1>1, <1>3 DEF Paired
<1>5. serdesIn'.strobe => ~unpacked'.strobe /\ unpacked'.of = serdesIn'.of
  BY <1>1, <1>3 DEF Paired
<1>6. first' # None => ~serdesIn'.strobe /\ serdesIn'.of = first'
  BY <1>1 DEF Paired
<1> QED
  BY <1>2, <1>4, <1>5, <1>6 DEF Paired

LEMMA ClockWhole == TypeOK /\ Paired /\ WholeWords /\ Clock => WholeWords'
<1> SUFFICES ASSUME TypeOK, Paired, WholeWords, Clock PROVE WholeWords'
  OBVIOUS
<1> DEFINE word == <<first, IF serdesIn.strobe THEN None ELSE serdesIn.of>>
<1>1. \/ got' = <<>> \/ got' = got
      \/ got' = Append(got, word) /\ first # None
  BY DEF Clock, Receive
<1>2. first # None => word[1] = word[2]
  BY DEF Paired
<1>3. got \in Seq(Words \X (Words \cup {None}))
  BY DEF TypeOK
<1> HIDE DEF word
<1> QED
  BY <1>1, <1>2, <1>3 DEF WholeWords

LEMMA StepWhole == Whole /\ [Next]_vars => Whole'
<1> SUFFICES ASSUME Whole, [Next]_vars PROVE Whole'
  OBVIOUS
<1>1. CASE Clock
  BY <1>1, ClockTyped, ClockPaired, ClockWhole DEF Whole
<1>2. CASE Enable \/ Disable \/ SetDataSrc \/ Offer
  <2>1. TypeOK'
    BY <1>2, SettingTyped DEF Whole
  <2>2. UNCHANGED <<logic, next, device>>
    BY <1>2 DEF Enable, Disable, SetDataSrc, Offer, stream
  <2>3. Offered'
    BY <1>2, <2>2 DEF Whole, Offered, Enable, Disable, SetDataSrc, Offer, stream
  <2> QED
    BY <2>1, <2>2, <2>3 DEF Whole, Paired, WholeWords, logic, device
<1>3. CASE UNCHANGED vars
  BY <1>3 DEF Whole, TypeOK, Offered, Paired, WholeWords, vars, settings, logic, stream, device
<1> QED
  BY <1>1, <1>2, <1>3 DEF Next

LEMMA InitWhole == Init => Whole
<1> SUFFICES ASSUME Init PROVE Whole
  OBVIOUS
<1>1. Offered /\ Paired /\ WholeWords
  BY DEF Init, Offered, Paired, WholeWords
<1> QED
  BY <1>1, InitTyped DEF Whole

(* Types, for any counters and any stream (adrv9001_tx.v:155-310).         *)
THEOREM TypeCorrect == Spec => []TypeOK
<1>1. Whole => TypeOK
  BY DEF Whole
<1> QED
  BY <1>1, InitWhole, StepWhole, PTL DEF Spec

(* No word the device receives is made of halves of two samples, whatever  *)
(* is switched meanwhile (adrv9001_tx.v:171-244).                          *)
THEOREM NeverTorn == Spec => []WholeWords
<1>1. Whole => WholeWords
  BY DEF Whole
<1> QED
  BY <1>1, InitWhole, StepWhole, PTL DEF Spec

-----------------------------------------------------------------------------
(* Counting.                                                               *)

LEMMA CountsTyped ==
  ASSUME TypeOK
  PROVE  /\ ssiEnableCnt \in Nat /\ disableCnt \in Nat /\ CountMax \in Nat /\ CountMax > 0
         /\ ssiEnableCnt <= CountMax /\ disableCnt <= CountMax
         /\ cnt \in Nat /\ cnt <= CountMax
  BY TxAssumption DEF TypeOK

(* The next word is through if the serialiser ran for both its halves. *)
LEMMA ThroughGrows ==
  ASSUME TypeOK, NEW m \in Int, m >= -1
  PROVE  Through(m + 1) = IF Runs(m + 1) /\ Runs(m + 2) THEN Through(m) + 1 ELSE Through(m)
<1>1. CASE Runs(m + 1) /\ Runs(m + 2)
  <2>1. /\ ssiEnableCnt < m + 1 /\ disableCnt > ssiEnableCnt
        /\ disableCnt < CountMax => m + 2 <= disableCnt
    BY <1>1, CountsTyped DEF Runs, Seen
  <2> QED
    BY <1>1, <2>1, CountsTyped DEF Through
<1>2. CASE ~(Runs(m + 1) /\ Runs(m + 2))
  <2>1. \/ m + 1 <= ssiEnableCnt \/ disableCnt <= ssiEnableCnt
        \/ disableCnt < CountMax /\ m + 1 >= disableCnt
    BY <1>2, CountsTyped DEF Runs, Seen
  <2> QED
    BY <1>2, <2>1, CountsTyped DEF Through
<1> QED
  BY <1>1, <1>2

LEMMA RunsLate ==
  ASSUME TypeOK, NEW m \in Int, m >= -1, Runs(m + 1), Runs(m + 2)
  PROVE  Through(m) = m - ssiEnableCnt /\ m >= ssiEnableCnt
<1>1. /\ ssiEnableCnt < m + 1 /\ disableCnt > ssiEnableCnt
      /\ disableCnt < CountMax => m + 2 <= disableCnt
  BY CountsTyped DEF Runs, Seen
<1> QED
  BY <1>1, CountsTyped DEF Through

LEMMA ThroughBounds ==
  ASSUME TypeOK, NEW m \in Int, disableCnt < CountMax
  PROVE  /\ Through(m) <= Asked
         /\ m >= disableCnt - 1 => Through(m) >= Asked - 1
  BY CountsTyped DEF Through, Asked

LEMMA NothingBegun ==
  ASSUME TypeOK
  PROVE  ~Runs(0) /\ Through(-1) = 0
  BY CountsTyped DEF Runs, Seen, Through

-----------------------------------------------------------------------------
(* One clock.                                                              *)

Begun == IF dataSrc = "pattern" THEN Pattern ELSE IF early THEN next ELSE Junk

LEMMA ClockEffect ==
  ASSUME TypeOK, Clock
  PROVE  /\ ready' = (Enabled /\ ~ready) /\ packedValid' = ready
         /\ packed' = IF ~ready THEN packed ELSE IF dataSrc = "axis" THEN inPacked ELSE Pattern
         /\ unpacked'.strobe = packedValid /\ unpacked'.of = packed /\ serdesIn' = unpacked
         /\ first' = IF ~rst /\ serdesIn.strobe THEN serdesIn.of ELSE None
         /\ cnt' = IF ~Enabled THEN 0 ELSE IF cnt < CountMax /\ ready THEN cnt + 1 ELSE cnt
         /\ rst' = ~(cnt > ssiEnableCnt /\ cnt <= disableCnt)
         /\ UNCHANGED <<ssiEnableCnt, disableCnt>>
         /\ due' = LET before == IF AtRest THEN <<>> ELSE due
                    IN  IF ready THEN Append(before, Begun) ELSE before
         /\ got' = IF AtRest THEN <<>> ELSE IF first = None \/ rst THEN got
                    ELSE Append(got, <<first, IF serdesIn.strobe THEN None ELSE serdesIn.of>>)
  BY DEF Clock, Pace, Pack, Unpack, Count, Receive, Due, Begun, settings

LEMMA ClockLatched == TypeOK /\ Latched /\ Clock => Latched'
<1> SUFFICES ASSUME TypeOK, Clock, early' PROVE inPacked' = next'
  BY DEF Latched
<1>1. valid /\ ~(valid /\ ready)
  BY Zenon DEF Clock, Handshake
<1>2. next' = next /\ inPacked' = next
  BY <1>1 DEF Clock, Handshake, Pack, OnBus
<1> QED
  BY <1>2

LEMMA BegunTyped == TypeOK => Begun \in Words
  BY DEF TypeOK, Begun, Words

(* A word begun carries the sample due for it into packed. *)
LEMMA BegunPacked ==
  ASSUME TypeOK, Latched, Clock, ready
  PROVE  Begun # Junk => packed' = Begun
<1>1. dataSrc = "axis" \/ dataSrc = "pattern"
  BY DEF TypeOK, Sources
<1> QED
  BY <1>1, ClockEffect DEF Begun, Latched

(* The words that were sent in step stay so while others begin. *)
LEMMA ExtendedInStep ==
  ASSUME TypeOK, SentInStep, got' = got, UNCHANGED <<ssiEnableCnt, disableCnt>>,
         due' = due \/ due' = Append(due, Begun)
  PROVE  SentInStep'
<1>1. due \in Seq(Words) /\ ssiEnableCnt \in Nat /\ got \in Seq(Words \X (Words \cup {None}))
  BY CountsTyped DEF TypeOK
<1>2. \A k \in DOMAIN due : k \in DOMAIN due' /\ due'[k] = due[k]
  BY <1>1
<1> QED
  BY <1>1, <1>2 DEF SentInStep

-----------------------------------------------------------------------------
(* The last word begun is in packed: it goes on to unpacked.               *)

LEMMA AfterPacking ==
  ASSUME Sound, Clock, Live, packedValid
  PROVE  InStep' /\ Unstarted' /\ SentInStep' /\ Fits'
<1> DEFINE n == Len(due)
<1>1. TypeOK /\ Paired /\ InStep /\ SentInStep /\ Fits
  BY DEF Sound, Whole
<1>2. due \in Seq(Words) /\ got \in Seq(Words \X (Words \cup {None})) /\ n \in Nat
  BY <1>1 DEF TypeOK
<1>3. n >= 1 /\ Len(got) = Through(n - 2) /\ Packing /\ (cnt > 0 => cnt = Seen(n))
  BY <1>1 DEF InStep
<1>4. ~ready /\ ~unpacked.strobe /\ ~AtRest
  BY <1>1, <1>3, CountsTyped DEF Paired, AtRest, Live
<1>5. due' = due /\ got' = got
  BY <1>1, <1>3, <1>4, ClockEffect DEF Packing
<1>6. UNCHANGED <<ssiEnableCnt, disableCnt>>
  BY <1>1, ClockEffect
<1>7. SentInStep' /\ Fits'
  BY <1>1, <1>5, <1>6, ExtendedInStep DEF Fits, Asked
<1>8. Unstarted'
  <2>1. due' # <<>>
    BY <1>2, <1>3, <1>5
  <2> QED
    BY <2>1 DEF Unstarted, Live
<1>9. InStep'
  <2>1. CASE cnt = 0
    <3>1. cnt' = 0 /\ ~(cnt > ssiEnableCnt /\ cnt <= disableCnt)
      BY <1>1, <1>4, <2>1, ClockEffect, CountsTyped
    <3>2. rst'
      BY Zenon, <1>1, <3>1, ClockEffect
    <3> QED
      BY <3>1, <3>2 DEF InStep, Live
  <2>2. CASE cnt > 0
    <3>1. rst' <=> ~Runs(n)
      BY <1>1, <1>3, <2>2, ClockEffect, CountsTyped DEF Runs
    <3>2. unpacked'.strobe /\ ~serdesIn'.strobe /\ unpacked'.of = packed
      BY <1>1, <1>4, ClockEffect
    <3>3. first' # None <=> Runs(n - 1)
      <4>1. serdesIn.of # None
        BY <1>1, TxAssumption DEF TypeOK, Half, Words, Samples
      <4>2. first' # None <=> ~rst /\ serdesIn.strobe
        BY <1>1, <4>1, ClockEffect
      <4>3. Runs(n - 1) => n >= 2
        BY <1>1, <1>2, <1>3, NothingBegun
      <4> QED
        BY <1>3, <4>2, <4>3 DEF Packing
    <3>4. first' # None => first' = serdesIn.of /\ n >= 2
      <4>1. Runs(n - 1) => n >= 2
        BY <1>1, <1>2, <1>3, NothingBegun
      <4> QED
        BY <1>1, <3>3, <4>1, ClockEffect
    <3>5. cnt' = IF Enabled THEN Seen(n) ELSE 0
      BY <1>1, <1>3, <1>4, <2>2, ClockEffect
    <3>6. ready' <=> Enabled
      BY Zenon, <1>1, <1>4, ClockEffect
    <3>7. ~packedValid'
      BY Zenon, <1>1, <1>4, ClockEffect
    <3>8. Unpacking'
      BY <1>3, <1>5, <1>6, <3>1, <3>2, <3>3, <3>4
      DEF Unpacking, Packing, Carries, Runs, Seen
    <3>9. Seen(n) > 0
      BY <1>3, <2>2
    <3> QED
      BY <1>3, <1>5, <1>6, <3>5, <3>6, <3>7, <3>8, <3>9 DEF InStep, Seen, Through
  <2> QED
    BY <1>1, <2>1, <2>2, CountsTyped
<1> QED
  BY <1>7, <1>8, <1>9

(* The last word begun is in unpacked: another one begins, if the logic is *)
(* still enabled, and the one before it has gone through or has not.       *)

LEMMA SentWord ==
  ASSUME Sound, Clock, Live, ~packedValid
  PROVE  LET through == Runs(Len(due) - 1) /\ Runs(Len(due))
         IN  /\ through => got' = Append(got, <<first, IF serdesIn.strobe THEN None ELSE serdesIn.of>>)
             /\ ~through => got' = got
             /\ Len(got') = Through(Len(due) - 1)
<1> DEFINE n == Len(due)
           word == <<first, IF serdesIn.strobe THEN None ELSE serdesIn.of>>
<1>1. TypeOK /\ InStep
  BY DEF Sound, Whole
<1>2. due \in Seq(Words) /\ got \in Seq(Words \X (Words \cup {None})) /\ n \in Nat
  BY <1>1 DEF TypeOK
<1>3. n >= 1 /\ Len(got) = Through(n - 2) /\ Unpacking
  BY <1>1 DEF InStep
<1>4. ~AtRest
  <2>1. CASE cnt > 0
    BY <1>1, <2>1, CountsTyped DEF AtRest
  <2>2. CASE ~rst
    BY <2>2 DEF AtRest
  <2> QED
    BY <2>1, <2>2 DEF Live
<1>5. got' = IF first = None \/ rst THEN got ELSE Append(got, word)
  BY <1>1, <1>4, ClockEffect
<1>6. first # None /\ ~rst <=> Runs(n - 1) /\ Runs(n)
  BY <1>3 DEF Unpacking
<1>7. Through(n - 1) = IF Runs(n - 1) /\ Runs(n) THEN Through(n - 2) + 1 ELSE Through(n - 2)
  <2>1. n - 2 \in Int /\ n - 2 >= -1 /\ (n - 2) + 1 = n - 1 /\ (n - 2) + 2 = n
    BY <1>2, <1>3
  <2>2. \A m \in Int : m >= -1 =>
          Through(m + 1) = IF Runs(m + 1) /\ Runs(m + 2) THEN Through(m) + 1 ELSE Through(m)
    BY <1>1, ThroughGrows
  <2>3. Through((n - 2) + 1) =
          IF Runs((n - 2) + 1) /\ Runs((n - 2) + 2) THEN Through(n - 2) + 1 ELSE Through(n - 2)
    BY <2>1, <2>2
  <2> QED
    BY <2>1, <2>3
<1>8. CASE Runs(n - 1) /\ Runs(n)
  <2>1. got' = Append(got, word)
    BY <1>5, <1>6, <1>8
  <2>2. Len(got') = Len(got) + 1
    BY <1>2, <2>1
  <2> QED
    BY <1>3, <1>7, <1>8, <2>1, <2>2
<1>9. CASE ~(Runs(n - 1) /\ Runs(n))
  <2>1. got' = got
    BY <1>5, <1>6, <1>9
  <2> QED
    BY <1>3, <1>7, <1>9, <2>1
<1> QED
  BY <1>8, <1>9

LEMMA SentWordFits ==
  ASSUME Sound, Clock, Live, ~packedValid
  PROVE  Fits' /\ SentInStep'
<1> DEFINE n == Len(due)
           through == Runs(n - 1) /\ Runs(n)
<1>1. TypeOK /\ InStep /\ SentInStep
  BY DEF Sound, Whole
<1>2. due \in Seq(Words) /\ got \in Seq(Words \X (Words \cup {None})) /\ n \in Nat
  BY <1>1 DEF TypeOK
<1>3. n >= 1 /\ Len(got) = Through(n - 2) /\ Unpacking
  BY <1>1 DEF InStep
<1>4. ~AtRest
  BY <1>1, CountsTyped DEF AtRest, Live
<1>5. (due' = due \/ due' = Append(due, Begun)) /\ UNCHANGED <<ssiEnableCnt, disableCnt>>
  BY <1>1, <1>4, ClockEffect
<1>6. Fits'
  <2>1. Len(got') = Through(n - 1)
    BY SentWord
  <2>2. disableCnt < CountMax => Through(n - 1) <= Asked
    BY <1>1, <1>2, ThroughBounds
  <2> QED
    BY <1>5, <2>1, <2>2 DEF Fits, Asked
<1>7. SentInStep'
  <2>1. CASE ~through
    BY <1>1, <1>5, <2>1, SentWord, ExtendedInStep
  <2>2. CASE through
    <3> DEFINE word == <<first, IF serdesIn.strobe THEN None ELSE serdesIn.of>>
    <3>1. got' = Append(got, word) /\ word[1] = first
      BY <2>2, SentWord
    <3>2. Len(got) = n - 2 - ssiEnableCnt /\ n - 2 >= ssiEnableCnt
      <4>1. n - 2 \in Int /\ n - 2 >= -1 /\ (n - 2) + 1 = n - 1 /\ (n - 2) + 2 = n
        BY <1>2, <1>3
      <4>2. \A m \in Int : m >= -1 /\ Runs(m + 1) /\ Runs(m + 2) =>
              Through(m) = m - ssiEnableCnt /\ m >= ssiEnableCnt
        BY <1>1, RunsLate
      <4>3. Runs((n - 2) + 1) /\ Runs((n - 2) + 2)
        BY <2>2, <4>1
      <4> QED
        BY <1>3, <4>1, <4>2, <4>3
    <3>3. Carries(first, n - 1)
      BY <1>3, <2>2 DEF Unpacking
    <3>4. ssiEnableCnt \in Nat
      BY <1>1, CountsTyped
    <3>5. \A k \in DOMAIN due : k \in DOMAIN due' /\ due'[k] = due[k]
      BY <1>2, <1>5
    <3>6. n - 1 \in DOMAIN due
      BY <1>2, <3>2, <3>4
    <3>7. ASSUME NEW i \in DOMAIN got'
          PROVE  /\ i + ssiEnableCnt \in DOMAIN due'
                 /\ due'[i + ssiEnableCnt] # Junk => got'[i][1] = due'[i + ssiEnableCnt]
      <4> HIDE DEF word
      <4>1. CASE i \in DOMAIN got
        <5>1. got'[i] = got[i]
          BY <1>2, <3>1, <4>1
        <5> QED
          BY <1>1, <3>5, <4>1, <5>1 DEF SentInStep
      <4>2. CASE i \notin DOMAIN got
        <5>1. i = Len(got) + 1 /\ got'[i] = word
          BY <1>2, <3>1, <4>2
        <5>2. i + ssiEnableCnt = n - 1
          BY <1>2, <3>2, <3>4, <5>1
        <5> QED
          BY <3>1, <3>3, <3>5, <3>6, <5>1, <5>2 DEF Carries
      <4> QED
        BY <4>1, <4>2
    <3> QED
      BY <1>5, <3>7 DEF SentInStep
  <2> QED
    BY <2>1, <2>2
<1> QED
  BY <1>6, <1>7

LEMMA AfterUnpacking ==
  ASSUME Sound, Clock, Live, ~packedValid
  PROVE  InStep' /\ Unstarted' /\ SentInStep' /\ Fits'
<1> DEFINE n == Len(due)
<1>1. TypeOK /\ Paired /\ InStep /\ Latched
  BY DEF Sound, Whole
<1>2. due \in Seq(Words) /\ n \in Nat
  BY <1>1 DEF TypeOK
<1>3. n >= 1 /\ Unpacking /\ (IF cnt > 0 THEN cnt = Seen(n) /\ ready ELSE ~ready)
  BY <1>1 DEF InStep
<1>4. ~AtRest
  BY <1>1, CountsTyped DEF AtRest, Live
<1>5. due' = IF ready THEN Append(due, Begun) ELSE due
  BY <1>1, <1>4, ClockEffect
<1>6. UNCHANGED <<ssiEnableCnt, disableCnt>>
  BY <1>1, ClockEffect
<1>7. Unstarted'
  <2>1. due' # <<>>
    BY <1>2, <1>3, <1>5
  <2> QED
    BY <2>1 DEF Unstarted, Live
<1>8. InStep'
  <2>1. CASE cnt = 0
    <3>1. cnt' = 0 /\ ~(cnt > ssiEnableCnt /\ cnt <= disableCnt)
      BY <1>1, <1>3, <2>1, ClockEffect, CountsTyped
    <3>2. rst'
      BY Zenon, <1>1, <3>1, ClockEffect
    <3> QED
      BY <3>1, <3>2 DEF InStep, Live
  <2>2. CASE cnt > 0
    <3>1. ready /\ cnt = Seen(n) /\ due' = Append(due, Begun)
      BY <1>3, <1>5, <2>2
    <3>2. /\ Len(due') = n + 1 /\ due'[n + 1] = Begun
          /\ \A k \in 1 .. n : due'[k] = due[k]
      BY <1>1, <1>2, <3>1, BegunTyped
    <3>3. rst' <=> ~Runs(n)
      BY <1>1, <3>1, <2>2, ClockEffect, CountsTyped DEF Runs
    <3>4. first' = None /\ serdesIn'.strobe /\ serdesIn'.of = unpacked.of
      BY <1>1, <1>3, ClockEffect DEF Unpacking
    <3>5. packedValid' /\ ~ready'
      BY Zenon, <1>1, <3>1, ClockEffect
    <3>6. cnt' = IF Enabled THEN Seen(n + 1) ELSE 0
      BY <1>1, <1>2, <3>1, ClockEffect, CountsTyped DEF Seen
    <3>7. Len(got') = Through(n - 1)
      BY SentWord
    <3>8. Begun # Junk => packed' = Begun
      BY <1>1, <3>1, BegunPacked
    <3>9. Packing'
      <4>1. rst' <=> ~(Runs(Len(due) - 1))'
        BY <1>2, <1>6, <3>2, <3>3 DEF Runs, Seen
      <4>2. (Carries(packed, Len(due)))' /\ (Carries(serdesIn.of, Len(due) - 1))'
        BY <1>2, <1>3, <3>2, <3>4, <3>8 DEF Carries, Unpacking
      <4> QED
        BY <3>4, <4>1, <4>2 DEF Packing
    <3> QED
      BY <1>2, <1>3, <1>6, <3>2, <3>5, <3>6, <3>7, <3>9, CountsTyped, <1>1 DEF InStep, Seen, Through
  <2> QED
    BY <1>1, <2>1, <2>2, CountsTyped
<1> QED
  BY <1>7, <1>8, SentWordFits

(* A word may begin at rest, and nothing else is under way. *)
LEMMA AfterRest ==
  ASSUME Sound, Clock, ~Live
  PROVE  InStep' /\ Unstarted' /\ SentInStep' /\ Fits'
<1>1. TypeOK /\ Paired /\ Latched /\ Unstarted
  BY DEF Sound, Whole
<1>2. cnt = 0 /\ (rst \/ due = <<>>)
  BY <1>1, CountsTyped DEF Live
<1>3. AtRest \/ (~AtRest /\ ~ready /\ first = None /\ got = <<>> /\ due = <<>>)
  BY <1>1, <1>2 DEF AtRest, Unstarted
<1>4. got' = <<>> /\ due' = IF ready THEN <<Begun>> ELSE <<>>
  <2>1. Append(<<>>, Begun) = <<Begun>>
    OBVIOUS
  <2>2. got' = <<>> /\ due' = IF ready THEN Append(<<>>, Begun) ELSE <<>>
    BY Zenon, <1>1, <1>3, ClockEffect
  <2> QED
    BY <2>1, <2>2
<1>5. UNCHANGED <<ssiEnableCnt, disableCnt>>
  BY <1>1, ClockEffect
<1>6. rst'
  <2>1. ~(cnt > ssiEnableCnt /\ cnt <= disableCnt)
    BY <1>1, <1>2, CountsTyped
  <2> QED
    BY Zenon, <1>1, <2>1, ClockEffect
<1>7. Unstarted' /\ SentInStep' /\ Fits'
  <2>1. 0 <= Asked
    BY <1>1, CountsTyped DEF Asked
  <2> QED
    BY <1>4, <1>5, <1>6, <2>1 DEF Unstarted, SentInStep, Fits, Asked
<1>8. InStep'
  <2>1. CASE ~(ready /\ Enabled)
    <3>1. cnt' = 0
      BY <1>1, <1>2, <2>1, ClockEffect
    <3> QED
      BY <1>6, <3>1 DEF InStep, Live
  <2>2. CASE ready /\ Enabled
    <3>1. cnt' = 1 /\ CountMax >= 1
      BY <1>1, <1>2, <2>2, ClockEffect, CountsTyped
    <3>2. packedValid'
      BY Zenon, <1>1, <2>2, ClockEffect
    <3>3. due' = <<Begun>> /\ Len(due') = 1
      BY <1>4, <2>2
    <3>4. rst
      BY <1>1, <1>2, <2>2 DEF Unstarted, Live
    <3>5. first' = None
      BY <1>1, <3>4, ClockEffect
    <3>6. ~Runs(0) /\ Through(-1) = 0
      BY <1>1, NothingBegun
    <3>7. Carries(packed, 1)'
      BY <1>1, <2>2, <3>3, BegunPacked DEF Carries
    <3>8. Packing'
      BY <1>5, <1>6, <3>3, <3>5, <3>6, <3>7 DEF Packing, Runs, Seen
    <3> QED
      BY <1>1, <1>4, <1>5, <3>1, <3>2, <3>3, <3>6, <3>8, CountsTyped DEF InStep, Seen, Through
  <2> QED
    BY <2>1, <2>2
<1> QED
  BY <1>7, <1>8

-----------------------------------------------------------------------------
LEMMA StepSound == Sound /\ [Next]_vars => Sound'
<1> SUFFICES ASSUME Sound, [Next]_vars PROVE Sound'
  OBVIOUS
<1>1. Whole'
  BY StepWhole DEF Sound
<1>2. CASE Clock
  <2>1. Latched'
    BY <1>2, ClockLatched DEF Sound, Whole
  <2>2. InStep' /\ Unstarted' /\ SentInStep' /\ Fits'
    BY <1>2, AfterPacking, AfterUnpacking, AfterRest
  <2> QED
    BY <1>1, <2>1, <2>2 DEF Sound
<1>3. CASE Enable \/ Disable \/ SetDataSrc \/ Offer \/ UNCHANGED vars
  <2>1. UNCHANGED <<ssiEnableCnt, disableCnt, logic, next, early, device>>
    BY <1>3 DEF Enable, Disable, SetDataSrc, Offer, stream, vars, settings
  <2> QED
    BY <1>1, <2>1
    DEF Sound, Latched, InStep, Unstarted, SentInStep, Fits, Asked, Live, Packing, Unpacking,
        Carries, Runs, Seen, Through, logic, device
<1> QED
  BY <1>2, <1>3 DEF Next

LEMMA InitSound == Init => Sound
<1> SUFFICES ASSUME Init PROVE Sound
  OBVIOUS
<1>1. TypeOK /\ Whole
  BY InitWhole DEF Whole
<1>2. cnt = 0 /\ due = <<>> /\ got = <<>> /\ ~ready /\ first = None /\ ~early
  BY DEF Init
<1>3. 0 <= Asked
  BY <1>1, CountsTyped DEF Asked
<1> QED
  BY <1>1, <1>2, <1>3 DEF Sound, Latched, InStep, Unstarted, SentInStep, Fits, Live

(* The device's first word is the one begun after ssiEnableCnt others, and *)
(* it misses none after that, whatever the counts, wherever the counter    *)
(* stops and whenever software enables and disables the channel            *)
(* (adrv9001_tx.v:157-244, 285-310).                                       *)
THEOREM NoneSkipped == Spec => []SentInStep
<1>1. Sound => SentInStep
  BY DEF Sound
<1> QED
  BY <1>1, InitSound, StepSound, PTL DEF Spec

(* The device gets as many words as the counts are apart, or one fewer,    *)
(* and never more (adrv9001_tx.v:285-310, adrv9001.c:80-113).              *)
THEOREM WindowKept == Spec => []Window
<1>1. Sound => Window
  <2> SUFFICES ASSUME Sound, disableCnt < CountMax
               PROVE  /\ Len(got) <= Asked
                      /\ cnt > disableCnt /\ rst => Len(got) >= Asked - 1
    BY DEF Window
  <2>1. TypeOK /\ InStep /\ Fits
    BY DEF Sound, Whole
  <2>2. Len(due) \in Nat
    BY <2>1 DEF TypeOK
  <2>3. ASSUME cnt > disableCnt
        PROVE  Len(got) >= Asked - 1
    <3>1. Len(got) = Through(Len(due) - 2) /\ cnt = Seen(Len(due))
      BY <2>1, <2>3, CountsTyped DEF InStep, Live
    <3>2. Len(due) - 2 >= disableCnt - 1
      BY <2>1, <2>2, <2>3, <3>1, CountsTyped DEF Seen
    <3> QED
      BY <2>1, <2>2, <3>1, <3>2, ThroughBounds
  <2> QED
    BY <2>1, <2>3 DEF Fits
<1> QED
  BY <1>1, InitSound, StepSound, PTL DEF Spec
=============================================================================
