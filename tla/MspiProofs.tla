----------------------------- MODULE MspiProofs -----------------------------
(***************************************************************************)
(* What one SPI exchange guarantees for every buffer and FIFO depth.       *)
(*                                                                         *)
(* The inductive invariant follows the bytes: rxBuf, miso, shifted and     *)
(* mosi, in this order, hold consecutive bytes of the caller's buffer      *)
(* (InOrder), their number is fixed by how far the driver is (Conserved),  *)
(* and the handshake signals agree with where driver and engine are        *)
(* (Handshake).                                                            *)
(***************************************************************************)
EXTENDS Mspi, TLAPS, SequenceTheorems

Fits == IF Len(txBuf) < Depth THEN Len(txBuf) ELSE Depth

InOrder ==
  /\ \A k \in 1..Len(rxBuf) : rxBuf[k] = txBuf[k]
  /\ \A k \in 1..Len(miso) : miso[k] = txBuf[Len(rxBuf) + k]
  /\ \A k \in 1..Len(shifted) : shifted[k] = txBuf[Len(rxBuf) + Len(miso) + k]
  /\ \A k \in 1..Len(mosi) : mosi[k] = txBuf[Len(rxBuf) + Len(miso) + Len(shifted) + k]

InFlight == Len(miso) + Len(shifted) + Len(mosi)

Conserved ==
  /\ pc = "idle"   => InFlight = 0 /\ Len(rxBuf) = Fits
  /\ pc = "enable" => InFlight = 0 /\ Len(rxBuf) = 0
  /\ pc = "fill"   => /\ Len(miso) = 0 /\ Len(shifted) = 0 /\ Len(rxBuf) = 0
                      /\ Len(mosi) = IF i - 1 < Depth THEN i - 1 ELSE Depth
  /\ pc = "wait"   => Len(rxBuf) = 0 /\ InFlight = Fits
  /\ pc = "drain"  => /\ Len(mosi) = 0 /\ Len(shifted) = 0
                      /\ Len(rxBuf) = i - 1 /\ Len(miso) = Fits - Len(rxBuf)

Loop ==
  /\ pc # "idle" => Len(txBuf) > 0
  /\ pc = "enable" => i = 1
  /\ pc \in {"fill", "drain"} => i \in 1..Len(txBuf)
  /\ pc = "wait" => i = 1
  /\ pc = "idle" => status = IF Len(txBuf) <= Depth THEN "ok" ELSE "SpiErr"
  /\ pc # "idle" => status = "ok"

Handshake ==
  /\ irqEnabled <=> (pc = "fill" \/ (pc = "wait" /\ ~spiDone))
  /\ pc \in {"enable", "fill"} => ~spiDone
  /\ pc = "drain" => spiDone
  /\ pc = "wait" /\ spiDone => done
  /\ pc \in {"idle", "enable", "fill"} => ~done
  /\ pc = "drain" => (done <=> Len(miso) > 0)
  /\ pc = "fill" /\ i > 1 => ~start
  /\ pc = "wait" => start
  /\ pc = "wait" /\ engine = "off" /\ ~done => Len(mosi) > 0
  /\ engine # "off" => pc = "wait" /\ ~done
  /\ done => Len(mosi) = 0 /\ Len(shifted) = 0
  /\ engine = "shift" => Len(mosi) > 0
  /\ Len(shifted) = IF engine = "sample" THEN 1 ELSE 0

IInv == TypeOK /\ InOrder /\ Conserved /\ Loop /\ Handshake

-----------------------------------------------------------------------------
(* A buffer handed over is a non-empty sequence of bytes. *)
LEMMA BufferIsSeq ==
  ASSUME NEW tx \in Buffers
  PROVE  tx \in Seq(Bytes) /\ Len(tx) > 0
<1>1. PICK n \in 1..MaxLength : tx \in [1..n -> Bytes]
  BY DEF Buffers
<1>2. n \in Nat /\ n > 0
  BY <1>1, MspiAssumption
<1>3. QED
  BY <1>1, <1>2, IsASeq, LenProperties

LEMMA Empty == <<>> \in Seq(Bytes) /\ Len(<<>>) = 0
  BY EmptySeq

LEMMA TailFacts ==
  ASSUME NEW s \in Seq(Bytes), s # <<>>
  PROVE  /\ Len(s) > 0 /\ Head(s) = s[1] /\ Head(s) \in Bytes
         /\ Tail(s) \in Seq(Bytes) /\ Len(Tail(s)) = Len(s) - 1
         /\ \A k \in 1..Len(Tail(s)) : Tail(s)[k] = s[k + 1]
  BY HeadTailProperties

LEMMA AppendFacts ==
  ASSUME NEW s \in Seq(Bytes), NEW b \in Bytes
  PROVE  /\ Append(s, b) \in Seq(Bytes) /\ Len(Append(s, b)) = Len(s) + 1
         /\ \A k \in 1..Len(s) : Append(s, b)[k] = s[k]
         /\ Append(s, b)[Len(s) + 1] = b
  BY AppendProperties

LEMMA InitInv == Init => IInv
<1> SUFFICES ASSUME Init PROVE IInv
  OBVIOUS
<1> USE MspiAssumption, Empty DEF Init
<1>1. TypeOK
  <2>1. 0 <= Depth
    BY DEF MspiAssumption
  <2>2. /\ txBuf \in Seq(Bytes) /\ rxBuf \in Seq(Bytes) /\ mosi \in Seq(Bytes)
        /\ miso \in Seq(Bytes) /\ shifted \in Seq(Bytes)
        /\ Len(mosi) = 0 /\ Len(miso) = 0 /\ Len(shifted) = 0
    OBVIOUS
  <2>3. pc \in Points /\ engine \in Phases /\ status \in {"ok", "SpiErr"}
    BY DEF Points, Phases
  <2>4. /\ spiDone \in BOOLEAN /\ irqEnabled \in BOOLEAN /\ start \in BOOLEAN
        /\ done \in BOOLEAN
    OBVIOUS
  <2>5. QED
    BY <2>1, <2>2, <2>3, <2>4 DEF TypeOK
<1>2. InOrder
  BY DEF InOrder
<1>3. Conserved /\ Loop /\ Handshake
  BY DEF Conserved, Loop, Handshake, InFlight, Fits
<1>4. QED
  BY <1>1, <1>2, <1>3 DEF IInv

LEMMA CallInv ==
  ASSUME IInv, NEW tx \in Buffers, Call(tx)
  PROVE  IInv'
<1> USE DEF IInv, Call, driver, bus
<1>1. tx \in Seq(Bytes) /\ Len(tx) > 0
  BY BufferIsSeq
<1>2. TypeOK'
  <2>1. i' \in 1 .. Len(txBuf') + 1 /\ pc' = "enable"
    BY <1>1
  <2>2. QED
    BY <1>1, <2>1, Empty DEF TypeOK, Points
<1>3. InOrder' /\ Conserved'
  BY <1>1 DEF TypeOK, InOrder, Conserved, InFlight, Fits
<1>4. Loop' /\ Handshake'
  BY <1>1 DEF TypeOK, Loop, Handshake, Conserved, InFlight
<1>5. QED
  BY <1>2, <1>3, <1>4

LEMMA EnableIrqInv ==
  ASSUME IInv, EnableIrq
  PROVE  IInv'
<1> USE MspiAssumption DEF IInv, EnableIrq, driver, bus
<1>1. TypeOK' /\ InOrder'
  <2>1. Len(txBuf) > 0 /\ i = 1
    BY DEF Loop
  <2>2. QED
    BY <2>1 DEF TypeOK, Points, InOrder
<1>2. Conserved'
  BY DEF TypeOK, Conserved, InFlight, Fits, Loop
<1>3. Loop' /\ Handshake'
  BY DEF TypeOK, Loop, Handshake
<1>4. QED
  BY <1>1, <1>2, <1>3

LEMMA WriteByteInv ==
  ASSUME IInv, WriteByte
  PROVE  IInv'
<1> USE MspiAssumption DEF IInv, WriteByte, driver, bus
<1>1. TypeOK'
  BY DEF TypeOK, Points, Push, Loop
<1>2. InOrder'
  BY DEF TypeOK, InOrder, Push, Loop, Conserved
<1>3. Conserved'
  BY DEF TypeOK, Conserved, InFlight, Fits, Push, Loop
<1>4. Loop'
  BY DEF TypeOK, Loop
<1>5. Handshake'
  <2>1. engine = "off" /\ ~done /\ ~spiDone /\ irqEnabled /\ Len(shifted) = 0
    BY DEF TypeOK, Handshake
  <2>2. mosi' \in Seq(Bytes) /\ Len(mosi') > 0
    <3>1. txBuf[i] \in Bytes
      BY ElementOfSeq DEF TypeOK, Loop
    <3>2. QED
      BY <3>1, AppendFacts DEF TypeOK, Push
  <2>3. pc' \in {"fill", "wait"} /\ (pc' = "wait" <=> start') /\ (pc' = "fill" => ~start')
    BY DEF TypeOK
  <2>4. UNCHANGED <<engine, done, spiDone, irqEnabled, shifted, miso>>
    OBVIOUS
  <2> HIDE DEF WriteByte, IInv
  <2>5. QED
    BY <2>1, <2>2, <2>3, <2>4 DEF Handshake
<1>6. QED
  BY <1>1, <1>2, <1>3, <1>4, <1>5

LEMMA WakeInv ==
  ASSUME IInv, Wake
  PROVE  IInv'
<1> USE MspiAssumption DEF IInv, Wake, driver, bus
<1>1. TypeOK' /\ InOrder'
  <2>1. Len(txBuf) > 0 /\ i = 1
    BY DEF Loop
  <2>2. QED
    BY <2>1 DEF TypeOK, Points, InOrder
<1>2. Conserved'
  BY DEF TypeOK, Conserved, InFlight, Fits, Loop, Handshake
<1>3. Loop' /\ Handshake'
  BY DEF TypeOK, Loop, Handshake, Conserved, InFlight, Fits
<1>4. QED
  BY <1>1, <1>2, <1>3

LEMMA ReadByteInv ==
  ASSUME IInv, ReadByte
  PROVE  IInv'
<1> USE MspiAssumption DEF IInv, ReadByte, driver, bus
<1>1. CASE miso = <<>>
  <2>1. TypeOK' /\ InOrder'
    BY <1>1 DEF TypeOK, Points, InOrder
  <2>2. Conserved'
    BY <1>1 DEF TypeOK, Conserved, InFlight, Fits, Loop
  <2>3. Loop' /\ Handshake'
    BY <1>1 DEF TypeOK, Loop, Handshake, Conserved, Fits
  <2>4. QED
    BY <2>1, <2>2, <2>3
<1>2. CASE miso # <<>>
  <2>1. /\ pc = "drain" /\ rxBuf' = Append(rxBuf, miso[1]) /\ miso' = Tail(miso)
        /\ i' = i + 1 /\ pc' = IF i = Len(txBuf) THEN "idle" ELSE "drain"
        /\ done' <=> (done /\ Len(miso) > 1)
        /\ done' \in BOOLEAN
        /\ UNCHANGED <<txBuf, mosi, shifted, start, engine, status, spiDone, irqEnabled>>
    BY <1>2, TailFacts DEF TypeOK
  <2>2. /\ Len(miso) > 0 /\ miso' \in Seq(Bytes) /\ Len(miso') = Len(miso) - 1
        /\ \A k \in 1..Len(miso') : miso'[k] = miso[k + 1]
    BY <1>2, <2>1, TailFacts DEF TypeOK
  <2>3. /\ rxBuf' \in Seq(Bytes) /\ Len(rxBuf') = Len(rxBuf) + 1
        /\ \A k \in 1..Len(rxBuf) : rxBuf'[k] = rxBuf[k]
        /\ rxBuf'[Len(rxBuf) + 1] = miso[1]
    BY <1>2, <2>1, TailFacts, AppendFacts DEF TypeOK
  <2> HIDE DEF ReadByte
  <2>4. TypeOK'
    BY <2>1, <2>2, <2>3 DEF TypeOK, Points
  <2>5. InOrder'
    <3>1. Len(mosi) = 0 /\ Len(shifted) = 0
      BY <2>1 DEF TypeOK, Conserved
    <3>2. \A k \in 1..Len(rxBuf') : rxBuf'[k] = txBuf[k]
      <4> SUFFICES ASSUME NEW k \in 1..Len(rxBuf') PROVE rxBuf'[k] = txBuf[k]
        OBVIOUS
      <4>1. Len(rxBuf) \in Nat
        BY DEF TypeOK
      <4>2. CASE k \in 1..Len(rxBuf)
        BY <4>2, <2>3 DEF InOrder
      <4>3. CASE k = Len(rxBuf) + 1
        <5>1. miso[1] = txBuf[Len(rxBuf) + 1]
          BY <2>2 DEF InOrder, TypeOK
        <5>2. QED
          BY <4>3, <5>1, <2>3
      <4>4. QED
        BY <4>1, <4>2, <4>3, <2>3
    <3>3. \A k \in 1..Len(miso') : miso'[k] = txBuf[Len(rxBuf') + k]
      BY <2>2, <2>3, SMTT(90) DEF TypeOK, InOrder
    <3>4. UNCHANGED <<txBuf, mosi, shifted>>
      BY <2>1
    <3> HIDE DEF IInv
    <3>5. QED
      BY <3>1, <3>2, <3>3, <3>4 DEF InOrder
  <2>6. Conserved'
    BY <2>1, <2>2, <2>3 DEF TypeOK, Conserved, InFlight, Fits, Loop
  <2>7. Loop'
    BY <2>1, <2>2, <2>3 DEF TypeOK, Loop, Conserved, Fits
  <2>8. Handshake'
    BY <2>1, <2>2, <2>3, SMTT(90) DEF TypeOK, Loop, Handshake, Conserved, Fits
  <2>9. QED
    BY <2>4, <2>5, <2>6, <2>7, <2>8
<1>3. QED
  BY <1>1, <1>2

LEMMA SpiIrqInv ==
  ASSUME IInv, SpiIrq
  PROVE  IInv'
<1> USE DEF IInv, SpiIrq, driver, bus
<1>1. TypeOK' /\ InOrder' /\ Conserved'
  BY DEF TypeOK, InOrder, Conserved, InFlight, Fits
<1>2. Loop' /\ Handshake'
  BY DEF TypeOK, Loop, Handshake
<1>3. QED
  BY <1>1, <1>2

LEMMA EngineInv ==
  ASSUME IInv, Engine
  PROVE  IInv'
<1> USE MspiAssumption DEF IInv, driver, bus
<1>1. CASE SelectChip \/ BeginByte
  <2>1. /\ UNCHANGED <<pc, txBuf, rxBuf, i, status, spiDone, irqEnabled, mosi, miso, start, shifted, done>>
        /\ \/ engine = "off" /\ mosi # <<>> /\ start /\ engine' = "edge"
           \/ engine = "edge" /\ mosi # <<>> /\ engine' = "shift"
    BY <1>1 DEF SelectChip, BeginByte
  <2>2. TypeOK' /\ InOrder'
    BY <2>1 DEF TypeOK, Phases, InOrder
  <2>3. Conserved' /\ Loop'
    BY <2>1 DEF Conserved, InFlight, Fits, Loop
  <2>4. Len(mosi) > 0
    BY <2>1, TailFacts DEF TypeOK
  <2>5. pc = "wait" /\ ~done
    BY <2>1, <2>4 DEF TypeOK, Points, Handshake, Conserved, InFlight, Loop
  <2>6. Handshake'
    BY <2>1, <2>4, <2>5 DEF Handshake
  <2>7. QED
    BY <2>2, <2>3, <2>6
<1>2. CASE PopMosi
  <2>1. /\ engine = "shift" /\ engine' = "sample"
        /\ mosi # <<>> /\ Len(shifted) = 0 /\ pc = "wait" /\ ~done
        /\ shifted' = <<mosi[1]>> /\ mosi' = Tail(mosi)
        /\ UNCHANGED <<pc, txBuf, rxBuf, i, status, spiDone, irqEnabled, miso, start, done>>
    <3>1. mosi # <<>>
      BY <1>2 DEF PopMosi, TypeOK, Handshake
    <3>2. QED
      BY <1>2, <3>1, TailFacts DEF PopMosi, TypeOK, Handshake
  <2>2. /\ Len(mosi) > 0 /\ mosi' \in Seq(Bytes) /\ Len(mosi') = Len(mosi) - 1
        /\ \A k \in 1..Len(mosi') : mosi'[k] = mosi[k + 1]
        /\ mosi[1] \in Bytes
    BY <2>1, TailFacts DEF TypeOK
  <2>3. shifted' \in Seq(Bytes) /\ Len(shifted') = 1 /\ shifted'[1] = mosi[1]
    BY <2>1, <2>2
  <2>4. TypeOK'
    BY <2>1, <2>2, <2>3 DEF TypeOK, Phases
  <2>5. InOrder'
    BY <2>1, <2>2, <2>3 DEF TypeOK, InOrder
  <2>6. Conserved' /\ Loop'
    <3>1. InFlight' = InFlight
      BY <2>1, <2>2, <2>3 DEF TypeOK, InFlight
    <3>2. QED
      BY <2>1, <3>1 DEF TypeOK, Conserved, Fits, Loop
  <2>7. Handshake'
    BY <2>1, <2>2, <2>3 DEF TypeOK, Handshake
  <2>8. QED
    BY <2>4, <2>5, <2>6, <2>7
<1>3. CASE PushMiso
  <2>1. Len(shifted) = 1 /\ shifted[1] \in Bytes /\ pc = "wait" /\ ~done /\ Len(miso) < Depth
    <3>1. Len(shifted) = 1 /\ pc = "wait" /\ ~done
      BY <1>3 DEF PushMiso, TypeOK, Handshake
    <3>2. shifted[1] \in Bytes
      <4>1. shifted \in Seq(Bytes)
        BY DEF TypeOK
      <4>2. 1 \in 1..Len(shifted)
        BY <3>1
      <4>3. QED
        BY <4>1, <4>2, ElementOfSeq
    <3>3. QED
      BY <3>1, <3>2 DEF TypeOK, Conserved, InFlight, Fits, MspiAssumption
  <2>2. /\ engine = "sample" /\ engine' = "edge"
        /\ shifted' = <<>> /\ miso' = Append(miso, shifted[1])
        /\ UNCHANGED <<pc, txBuf, rxBuf, i, status, spiDone, irqEnabled, mosi, start, done>>
    BY <1>3, <2>1 DEF PushMiso, Push, TypeOK
  <2>3. /\ miso' \in Seq(Bytes) /\ Len(miso') = Len(miso) + 1
        /\ \A k \in 1..Len(miso) : miso'[k] = miso[k]
        /\ miso'[Len(miso) + 1] = shifted[1]
    BY <2>1, <2>2, AppendFacts DEF TypeOK
  <2>4. shifted' \in Seq(Bytes) /\ Len(shifted') = 0
    BY <2>2, Empty
  <2>5. TypeOK'
    BY <2>1, <2>2, <2>3, <2>4 DEF TypeOK, Phases, MspiAssumption
  <2>6. InOrder'
    <3>1. Len(rxBuf) \in Nat /\ Len(miso) \in Nat
      BY DEF TypeOK
    <3>2. \A k \in 1..Len(miso') : miso'[k] = txBuf[Len(rxBuf) + k]
      <4> SUFFICES ASSUME NEW k \in 1..Len(miso') PROVE miso'[k] = txBuf[Len(rxBuf) + k]
        OBVIOUS
      <4>1. CASE k \in 1..Len(miso)
        BY <4>1, <2>3 DEF InOrder
      <4>2. CASE k = Len(miso) + 1
        <5>1. shifted[1] = txBuf[Len(rxBuf) + Len(miso) + 1]
          BY <2>1 DEF InOrder
        <5>2. QED
          BY <4>2, <5>1, <2>3, <3>1
      <4>3. QED
        BY <4>1, <4>2, <2>3, <3>1
    <3>3. \A k \in 1..Len(mosi) : mosi[k] = txBuf[Len(rxBuf) + Len(miso) + 1 + k]
      BY <2>1 DEF InOrder
    <3>4. UNCHANGED <<txBuf, rxBuf, mosi>> /\ Len(miso') = Len(miso) + 1
      BY <2>2, <2>3
    <3>5. Len(shifted') = 0 /\ \A k \in 1..Len(rxBuf) : rxBuf[k] = txBuf[k]
      BY <2>4 DEF InOrder
    <3> HIDE DEF IInv
    <3>6. QED
      BY <3>1, <3>2, <3>3, <3>4, <3>5 DEF InOrder
  <2>7. Conserved' /\ Loop'
    BY <2>1, <2>2, <2>3, <2>4 DEF TypeOK, Conserved, InFlight, Fits, Loop
  <2>8. Handshake'
    BY <2>1, <2>2, <2>3, <2>4 DEF TypeOK, Handshake
  <2>9. QED
    BY <2>5, <2>6, <2>7, <2>8
<1>4. CASE EndFrame
  <2>1. TypeOK' /\ InOrder' /\ Conserved' /\ Loop'
    BY <1>4 DEF EndFrame, TypeOK, Phases, InOrder, Conserved, InFlight, Fits, Loop
  <2>2. Handshake'
    BY <1>4 DEF EndFrame, TypeOK, Phases, Handshake, Conserved, InFlight
  <2>3. QED
    BY <2>1, <2>2
<1>5. QED
  BY <1>1, <1>2, <1>3, <1>4 DEF Engine

LEMMA StepInv ==
  ASSUME IInv, [Next]_vars
  PROVE  IInv'
<1>1. CASE \E tx \in Buffers : Call(tx)
  BY <1>1, CallInv
<1>2. CASE Cpu
  BY <1>2, EnableIrqInv, WriteByteInv, WakeInv, ReadByteInv DEF Cpu
<1>3. CASE SpiIrq
  BY <1>3, SpiIrqInv
<1>4. CASE Engine
  BY <1>4, EngineInv
<1>5. CASE UNCHANGED vars
  BY <1>5, ZenonT(30) DEF vars, IInv, TypeOK, InOrder, Conserved, InFlight, Fits, Loop, Handshake
<1>6. QED
  BY <1>1, <1>2, <1>3, <1>4, <1>5 DEF Next

(* The invariant of the exchange (axi_adrv9001.c:120-147,                  *)
(* adrv9001_mspi.v:77-123).                                                *)
THEOREM ExchangeInvariant == Spec => []IInv
  BY InitInv, StepInv, PTL DEF Spec
LEMMA EmptyIfLenZero ==
  ASSUME NEW s \in Seq(Bytes), Len(s) = 0
  PROVE  s = <<>>
  BY EmptySeq

(* The FIFOs and the loop index stay in range, whatever the buffer length  *)
(* and FIFO depth (axi_adrv9001.c:126-144).                                *)
THEOREM TypeCorrect == Spec => []TypeOK
<1>1. IInv => TypeOK
  BY DEF IInv
<1>2. QED
  BY <1>1, ExchangeInvariant, PTL

(* No frame is ever split or left running while the driver is outside its  *)
(* wait loop (axi_adrv9001.c:126-134, adrv9001_mspi.v:77-84).              *)
THEOREM FramesInsideWait == Spec => []FrameInsideWait
<1>1. IInv => FrameInsideWait
  BY DEF IInv, Handshake, FrameInsideWait
<1>2. QED
  BY <1>1, ExchangeInvariant, PTL

(* Nothing of a transfer is left for the next one, no interrupt either,    *)
(* even of one that was too long for the FIFOs (axi_adrv9001.c:136-146).   *)
THEOREM LeavesNoResidue == Spec => []NoResidue
<1>1. IInv => NoResidue
  <2> SUFFICES ASSUME IInv, pc \in {"idle", "enable"} PROVE NoResidue
    BY DEF NoResidue
  <2>1. Len(mosi) = 0 /\ Len(miso) = 0 /\ Len(shifted) = 0
    BY DEF IInv, TypeOK, Conserved, InFlight
  <2>2. mosi = <<>> /\ miso = <<>> /\ shifted = <<>>
    BY <2>1, EmptyIfLenZero DEF IInv, TypeOK
  <2>3. ~irqEnabled /\ ~done /\ engine = "off"
    BY DEF IInv, Handshake
  <2>4. QED
    BY <2>2, <2>3 DEF NoResidue
<1>2. QED
  BY <1>1, ExchangeInvariant, PTL

(* Whenever the driver waits in vain, what will wake it is under way, for  *)
(* any buffer and FIFO depth (axi_adrv9001.c:108-134,                      *)
(* adrv9001_mspi.v:77-123).                                                *)
THEOREM NoWakeUpLost == Spec => []WakeUpComes
<1>1. IInv => WakeUpComes
  <2> SUFFICES ASSUME IInv, pc = "wait", ~spiDone PROVE WakeUpComes
    BY DEF WakeUpComes
  <2>1. irqEnabled /\ start
    BY DEF IInv, Handshake
  <2>2. engine = "off" /\ ~done => mosi # <<>>
    BY Empty DEF IInv, Handshake
  <2>3. QED
    BY <2>1, <2>2 DEF WakeUpComes
<1>2. QED
  BY <1>1, ExchangeInvariant, PTL

-----------------------------------------------------------------------------
(* How far a transfer has come.                                            *)

LEMMA Sizes ==
  ASSUME IInv
  PROVE  /\ Depth \in Nat /\ Depth > 0 /\ i \in Nat
         /\ Len(txBuf) \in Nat /\ Len(mosi) \in Nat /\ Len(mosi) <= Depth
         /\ (pc = "fill" => i <= Len(txBuf)) /\ (pc = "drain" => i <= Len(txBuf))
  BY MspiAssumption DEF IInv, TypeOK, Loop

LEMMA CpuCloser ==
  ASSUME IInv, Cpu
  PROVE  StepsLeft' < StepsLeft
<1> USE Sizes
<1>1. CASE EnableIrq
  <2>1. i = 1
    BY <1>1 DEF EnableIrq, IInv, Loop
  <2>2. QED
    BY <1>1, <2>1 DEF EnableIrq, StepsLeft
<1>2. CASE WriteByte
  <2>1. pc = "fill" /\ StepsLeft = 2 * Len(txBuf) + 3 * Depth + 5 - i
    BY <1>2 DEF WriteByte, StepsLeft
  <2>2. CASE i = Len(txBuf)
    <3>1. pc' = "wait" /\ txBuf' = txBuf /\ engine' = engine /\ done' = done /\ spiDone' = spiDone
      BY <1>2, <2>2 DEF WriteByte, bus
    <3>2. engine = "off" /\ ~done /\ ~spiDone
      BY <2>1 DEF IInv, Handshake, TypeOK, Phases
    <3>3. Len(mosi') \in Nat /\ Len(mosi') <= Depth
      BY <1>2, WriteByteInv, Sizes DEF IInv, TypeOK
    <3>4. FrameLeft' = 3 * Len(mosi') + 2
      BY <3>1, <3>2 DEF FrameLeft
    <3>5. StepsLeft' = Len(txBuf) + 2 + 3 * Len(mosi') + 2
      BY <3>1, <3>2, <3>3, <3>4 DEF StepsLeft
    <3>6. QED
      BY <2>1, <2>2, <3>3, <3>5
  <2>3. CASE i # Len(txBuf)
    <3>1. pc' = "fill" /\ txBuf' = txBuf /\ i' = i + 1
      BY <1>2, <2>3 DEF WriteByte
    <3>2. StepsLeft' = 2 * Len(txBuf) + 3 * Depth + 5 - (i + 1)
      BY <3>1 DEF StepsLeft
    <3>3. QED
      BY <2>1, <3>2, SMTT(90)
  <2>4. QED
    BY <2>2, <2>3
<1>3. CASE Wake
  <2>1. i = 1 /\ done
    BY <1>3 DEF Wake, IInv, Loop, Handshake
  <2>2. QED
    BY <1>3, <2>1 DEF Wake, StepsLeft, FrameLeft
<1>4. CASE ReadByte
  <2>1. pc = "drain" /\ StepsLeft = Len(txBuf) + 1 - i /\ i <= Len(txBuf)
    BY <1>4 DEF ReadByte, StepsLeft
  <2>2. CASE pc' = "idle"
    BY <2>1, <2>2 DEF StepsLeft
  <2>3. CASE pc' = "drain"
    <3>1. txBuf' = txBuf /\ i' = i + 1
      BY <1>4, <2>3 DEF ReadByte
    <3>2. QED
      BY <2>1, <2>3, <3>1 DEF StepsLeft
  <2>4. QED
    BY <1>4, <2>2, <2>3 DEF ReadByte
<1>5. QED
  BY <1>1, <1>2, <1>3, <1>4 DEF Cpu

LEMMA HardwareCloser ==
  ASSUME IInv, pc # "idle", SpiIrq \/ Engine
  PROVE  StepsLeft' < StepsLeft
<1> USE Sizes
<1>1. CASE SpiIrq
  <2>1. pc = "wait" /\ ~spiDone /\ done
    BY <1>1 DEF SpiIrq, IInv, Handshake
  <2>2. pc' = "wait" /\ txBuf' = txBuf /\ spiDone' = TRUE /\ done' = done
    BY <1>1, <2>1 DEF SpiIrq, driver
  <2>3. QED
    BY <2>1, <2>2 DEF StepsLeft, FrameLeft
<1>2. CASE Engine
  <2>1. pc' = pc /\ txBuf' = txBuf /\ spiDone' = spiDone
    BY <1>2 DEF Engine, SelectChip, BeginByte, PopMosi, PushMiso, EndFrame, driver
  <2>2. pc = "wait" /\ ~done
    <3>1. CASE engine # "off"
      BY <3>1 DEF IInv, Handshake
    <3>2. CASE engine = "off"
      <4>1. SelectChip
        BY <1>2, <3>2 DEF Engine, SelectChip, BeginByte, PopMosi, PushMiso, EndFrame
      <4>2. mosi # <<>> /\ start
        BY <4>1 DEF SelectChip
      <4>3. Len(mosi) > 0
        BY <4>2, TailFacts DEF IInv, TypeOK
      <4>4. QED
        BY <4>2, <4>3 DEF IInv, TypeOK, Points, Handshake, Conserved, InFlight, Loop
    <3>3. QED
      BY <3>1, <3>2
  <2>3. FrameLeft \in Nat /\ FrameLeft' \in Nat /\ FrameLeft' < FrameLeft
    <3>1. CASE SelectChip \/ BeginByte
      BY <2>2, <3>1 DEF SelectChip, BeginByte, FrameLeft
    <3>2. CASE PopMosi
      <4>1. Len(mosi) > 0 /\ engine = "shift"
        BY <3>2 DEF PopMosi, IInv, Handshake
      <4>2. mosi # <<>>
        BY <4>1, Empty
      <4>3. Len(mosi') = Len(mosi) - 1
        BY <3>2, <4>2, TailFacts DEF PopMosi, IInv, TypeOK
      <4>4. engine' = "sample" /\ done' = done
        BY <3>2 DEF PopMosi
      <4>5. QED
        BY <2>2, <4>1, <4>3, <4>4 DEF FrameLeft
    <3>3. CASE PushMiso
      BY <2>2, <3>3 DEF PushMiso, FrameLeft
    <3>4. CASE EndFrame
      BY <2>2, <3>4 DEF EndFrame, FrameLeft
    <3>5. QED
      BY <1>2, <3>1, <3>2, <3>3, <3>4 DEF Engine
  <2>4. QED
    BY <2>1, <2>2, <2>3 DEF StepsLeft
<1>3. QED
  BY <1>1, <1>2

(* Every step of a transfer brings its return closer, whatever the order   *)
(* in which driver, interrupt and engine take theirs                       *)
(* (axi_adrv9001.c:120-147, adrv9001_mspi.v:77-123).                       *)
THEOREM ReturnCloser == Spec => ReturnComesCloser
<1>1. IInv /\ [Next]_vars => [pc # "idle" => StepsLeft' < StepsLeft]_vars
  <2> SUFFICES ASSUME IInv, Next, pc # "idle" PROVE StepsLeft' < StepsLeft
    OBVIOUS
  <2>1. Cpu \/ SpiIrq \/ Engine
    BY DEF Next, Call
  <2>2. QED
    BY <2>1, CpuCloser, HardwareCloser
<1>2. QED
  BY <1>1, ExchangeInvariant, PTL DEF Spec, ReturnComesCloser

(* A transfer takes no more steps than its length and the depth of the     *)
(* FIFOs allow (axi_adrv9001.c:120-147).                                   *)
THEOREM StepsBounded == Spec => [](StepsLeft \in 0 .. 2 * Len(txBuf) + 3 * Depth + 5)
<1>1. IInv => StepsLeft \in 0 .. 2 * Len(txBuf) + 3 * Depth + 5
  <2> SUFFICES ASSUME IInv PROVE StepsLeft \in 0 .. 2 * Len(txBuf) + 3 * Depth + 5
    OBVIOUS
  <2> USE Sizes
  <2>1. FrameLeft \in 0 .. 3 * Depth + 2
    BY DEF FrameLeft, IInv, TypeOK, Phases
  <2>2. pc # "idle" => Len(txBuf) > 0
    BY DEF IInv, Loop
  <2> DEFINE most == 2 * Len(txBuf) + 3 * Depth + 5
  <2>3. most \in Nat
    OBVIOUS
  <2>4. StepsLeft \in Nat /\ StepsLeft <= most
    <3>1. CASE pc = "idle"
      BY <3>1 DEF StepsLeft
    <3>2. CASE pc = "enable"
      BY <3>2 DEF StepsLeft
    <3>3. CASE pc \in {"fill", "drain"}
      BY <3>3, SMTT(90) DEF StepsLeft
    <3>4. CASE pc = "wait"
      <4> HIDE DEF FrameLeft
      <4>1. FrameLeft \in Nat /\ FrameLeft <= 3 * Depth + 2
        BY <2>1
      <4>2. StepsLeft = Len(txBuf) + 1 + (IF spiDone THEN 0 ELSE 1) + FrameLeft
        BY <3>4 DEF StepsLeft
      <4>3. QED
        BY <4>1, <4>2, <2>2, <3>4
    <3>5. QED
      BY <3>1, <3>2, <3>3, <3>4 DEF IInv, TypeOK, Points
  <2> HIDE DEF most
  <2>5. StepsLeft \in 0 .. most
    BY <2>3, <2>4
  <2>6. QED
    BY <2>5 DEF most
<1>2. QED
  BY <1>1, ExchangeInvariant, PTL

-----------------------------------------------------------------------------
(* The driver and the engine implement SpiExchange.                        *)

LEMMA AnsweredInFull ==
  ASSUME IInv, pc = "drain", i = Len(txBuf), miso # <<>>
  PROVE  Len(txBuf) <= Depth /\ Append(rxBuf, Head(miso)) = txBuf
<1>1. /\ Len(miso) > 0 /\ Head(miso) = miso[1] /\ Head(miso) \in Bytes
      /\ txBuf \in Seq(Bytes) /\ rxBuf \in Seq(Bytes)
  BY TailFacts DEF IInv, TypeOK
<1>2. Len(txBuf) <= Depth /\ Len(rxBuf) = Len(txBuf) - 1
  BY <1>1, MspiAssumption DEF IInv, TypeOK, Conserved, Fits
<1>3. /\ \A k \in 1..Len(rxBuf) : rxBuf[k] = txBuf[k]
      /\ miso[1] = txBuf[Len(rxBuf) + 1]
  BY <1>1 DEF IInv, TypeOK, InOrder
<1> DEFINE s == Append(rxBuf, Head(miso))
<1>4. /\ s \in Seq(Bytes) /\ Len(s) = Len(rxBuf) + 1
      /\ \A k \in 1..Len(rxBuf) : s[k] = rxBuf[k]
      /\ s[Len(rxBuf) + 1] = miso[1]
  BY <1>1, AppendFacts
<1>5. Len(rxBuf) \in Nat /\ Len(txBuf) \in Nat
  BY <1>1
<1> HIDE DEF s
<1>6. ASSUME NEW k \in 1..Len(s) PROVE s[k] = txBuf[k]
  <2>1. CASE k \in 1..Len(rxBuf)
    BY <2>1, <1>3, <1>4
  <2>2. CASE k = Len(rxBuf) + 1
    BY <2>2, <1>3, <1>4
  <2>3. QED
    BY <2>1, <2>2, <1>4, <1>5
<1>7. Len(s) = Len(txBuf)
  BY <1>2, <1>4, <1>5
<1>8. s = txBuf
  BY <1>1, <1>4, <1>6, <1>7, SeqEqual
<1>9. QED
  BY <1>2, <1>8 DEF s

LEMMA AnsweredInPart ==
  ASSUME IInv, pc = "drain", miso = <<>>
  PROVE  Len(txBuf) > Depth /\ rxBuf = SubSeq(txBuf, 1, Depth)
<1>1. txBuf \in Seq(Bytes) /\ rxBuf \in Seq(Bytes) /\ Depth \in Nat /\ Depth > 0
  BY MspiAssumption DEF IInv, TypeOK
<1>2. Len(txBuf) > Depth /\ Len(rxBuf) = Depth
  BY <1>1, Empty DEF IInv, TypeOK, Conserved, Fits, Loop
<1>3. \A k \in 1..Depth : txBuf[k] \in Bytes
  BY <1>1, <1>2, ElementOfSeq
<1> DEFINE s == SubSeq(txBuf, 1, Depth)
<1>4. s \in Seq(Bytes) /\ Len(s) = Depth /\ \A k \in 1..Depth : s[k] = txBuf[k]
  BY <1>1, <1>3, SubSeqProperties
<1>5. \A k \in 1..Len(rxBuf) : rxBuf[k] = txBuf[k]
  BY DEF IInv, InOrder
<1> HIDE DEF s
<1>6. rxBuf = s
  BY <1>1, <1>2, <1>4, <1>5, SeqEqual
<1>7. QED
  BY <1>2, <1>6 DEF s

LEMMA StepRefines ==
  ASSUME IInv, [Next]_vars
  PROVE  [Exchange!XNext]_(Exchange!xvars)
<1> USE DEF Exchange!xvars
<1>1. CASE \E tx \in Buffers : Call(tx)
  <2>1. PICK tx \in Buffers : Call(tx)
    BY <1>1
  <2>2. Exchange!Request(tx)
    BY <2>1 DEF Call, Exchange!Request
  <2>3. QED
    BY <2>2 DEF Exchange!XNext, Exchange!Buffers, Buffers
<1>2. CASE ReadByte
  <2>1. CASE miso = <<>>
    <3>1. Len(txBuf) > Depth /\ rxBuf = SubSeq(txBuf, 1, Depth)
      BY <1>2, <2>1, AnsweredInPart DEF ReadByte
    <3>2. Exchange!Reply
      BY <1>2, <2>1, <3>1 DEF ReadByte, Exchange!Reply
    <3>3. QED
      BY <3>2 DEF Exchange!XNext
  <2>2. CASE miso # <<>> /\ i = Len(txBuf)
    <3>1. Len(txBuf) <= Depth /\ Append(rxBuf, Head(miso)) = txBuf
      BY <1>2, <2>2, AnsweredInFull DEF ReadByte
    <3>2. status = "ok"
      BY <1>2 DEF ReadByte, IInv, Loop
    <3>3. Exchange!Reply
      BY <1>2, <2>2, <3>1, <3>2 DEF ReadByte, Exchange!Reply
    <3>4. QED
      BY <3>3 DEF Exchange!XNext
  <2>3. CASE miso # <<>> /\ i # Len(txBuf)
    BY <1>2, <2>3 DEF ReadByte
  <2>4. QED
    BY <2>1, <2>2, <2>3
<1>3. CASE EnableIrq \/ WriteByte \/ Wake
  BY <1>3 DEF EnableIrq, WriteByte, Wake
<1>4. CASE SpiIrq \/ Engine
  BY <1>4 DEF SpiIrq, Engine, SelectChip, BeginByte, PopMosi, PushMiso, EndFrame, driver
<1>5. CASE UNCHANGED vars
  BY <1>5 DEF vars
<1>6. QED
  BY <1>1, <1>2, <1>3, <1>4, <1>5 DEF Next, Cpu

(* Every buffer handed over is answered once, in order and with the reply  *)
(* to that buffer alone, or refused as too long: what the library assumes  *)
(* of adi_hal_SpiRead (adrv9001.c:2584-2596, axi_adrv9001.c:120-147).      *)
THEOREM ExchangeImplemented == Spec => Exchange!XSpec
<1>1. Init => Exchange!XInit
  BY DEF Init, Exchange!XInit
<1>2. IInv /\ [Next]_vars => [Exchange!XNext]_(Exchange!xvars)
  BY StepRefines
<1>3. QED
  BY <1>1, <1>2, ExchangeInvariant, PTL DEF Spec, Exchange!XSpec
=============================================================================
