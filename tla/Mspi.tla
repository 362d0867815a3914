-------------------------------- MODULE Mspi --------------------------------
(***************************************************************************)
(* One SPI exchange with the ADRV9001: the driver loop                     *)
(* AxiAdrv9001_MspiTransfer on the CPU, its completion interrupt, and the  *)
(* bus engine adrv9001_mspi.v in the programmable logic, which run         *)
(* concurrently and meet in two FIFOs, a start bit and a done flag.        *)
(*                                                                         *)
(* The engine is modelled per byte, at the clock edges where it looks at   *)
(* or changes shared state: chip select, the first falling edge of a byte  *)
(* (where it may end the frame), the read of the MOSI FIFO at the last     *)
(* falling edge and the write of the MISO FIFO at the last rising edge.    *)
(* The device's reply to a byte carries that byte's name.                  *)
(***************************************************************************)
EXTENDS Naturals, Sequences

CONSTANTS
  Bytes,      (* what one byte on the bus can be                           *)
  Depth,      (* entries of each FIFO: Input_Depth in make.tcl (4096)      *)
  MaxLength   (* longest transfer asked for (bounds the model)             *)

ASSUME MspiAssumption ==
  /\ Depth \in Nat \ {0}
  /\ MaxLength \in Nat \ {0}

VARIABLES
  pc,          (* where MspiTransfer is: see Points                        *)
  txBuf,       (* its argument                                             *)
  rxBuf,       (* RxBuf[0..] as far as it has been stored                  *)
  i,           (* index of the loop being run, from 1                      *)
  status,      (* return value of the last transfer                        *)
  spiDone,     (* Instance->SpiDone                                        *)
  irqEnabled,  (* the interrupt's enable bit in the GIC                    *)
  mosi, miso,  (* contents of the two FIFOs, oldest first                  *)
  start,       (* mspi_axis_enable, bit 8 of the last byte written         *)
  engine,      (* what the bus engine is about to do: see Phases           *)
  shifted,     (* the byte popped from mosi and not yet answered           *)
  done         (* spi_done, the interrupt line                             *)

driver == <<pc, txBuf, rxBuf, i, status>>
bus    == <<engine, shifted>>
vars   == <<pc, txBuf, rxBuf, i, status, spiDone, irqEnabled,
            mosi, miso, start, engine, shifted, done>>

Points == {"idle", "enable", "fill", "wait", "drain"}
Phases == {"off", "edge", "shift", "sample"}

Buffers == UNION { [1..n -> Bytes] : n \in 1..MaxLength }

Init ==
  /\ pc = "idle" /\ txBuf = <<>> /\ rxBuf = <<>> /\ i = 1 /\ status = "ok"
  /\ spiDone = FALSE /\ irqEnabled = FALSE
  /\ mosi = <<>> /\ miso = <<>> /\ start = FALSE
  /\ engine = "off" /\ shifted = <<>> /\ done = FALSE

-----------------------------------------------------------------------------
(* Mutated definitions, each placed before the one it replaces, are named  *)
(* <definition>_<what is wrong>; no behaviour of this module uses them.    *)

Push_Unbounded(fifo, b) == Append(fifo, b)

(* The FIFOs: a write to a full FIFO is lost (tready is not looked at).    *)
Push(fifo, b) == IF Len(fifo) < Depth THEN Append(fifo, b) ELSE fifo

-----------------------------------------------------------------------------
(* The driver.                                                             *)

Call_KeepsSpiDone(tx) ==
  /\ pc = "idle"
  /\ pc' = "enable"
  /\ txBuf' = tx
  /\ rxBuf' = <<>>
  /\ i' = 1
  /\ status' = "ok"
  /\ UNCHANGED <<spiDone, irqEnabled, mosi, miso, start, bus, done>>

Call(tx) ==
  /\ pc = "idle"
  /\ pc' = "enable"
  /\ txBuf' = tx
  /\ rxBuf' = <<>>
  /\ i' = 1
  /\ status' = "ok"
  /\ spiDone' = FALSE
  /\ UNCHANGED <<irqEnabled, mosi, miso, start, bus, done>>

EnableIrq_Omitted ==
  /\ pc = "enable"
  /\ pc' = "fill"
  /\ UNCHANGED <<txBuf, rxBuf, i, status, spiDone, irqEnabled, mosi, miso, start, bus, done>>

EnableIrq ==
  /\ pc = "enable"
  /\ pc' = "fill"
  /\ irqEnabled' = TRUE
  /\ UNCHANGED <<txBuf, rxBuf, i, status, spiDone, mosi, miso, start, bus, done>>

WriteByte_StartsEarly ==
  /\ pc = "fill"
  /\ mosi' = Push(mosi, txBuf[i])
  /\ start' = TRUE
  /\ i' = IF i = Len(txBuf) THEN 1 ELSE i + 1
  /\ pc' = IF i = Len(txBuf) THEN "wait" ELSE "fill"
  /\ UNCHANGED <<txBuf, rxBuf, status, spiDone, irqEnabled, miso, bus, done>>

(* MspiWrite: the start bit goes with the last byte only. *)
WriteByte ==
  /\ pc = "fill"
  /\ mosi' = Push(mosi, txBuf[i])
  /\ start' = (i = Len(txBuf))
  /\ i' = IF i = Len(txBuf) THEN 1 ELSE i + 1
  /\ pc' = IF i = Len(txBuf) THEN "wait" ELSE "fill"
  /\ UNCHANGED <<txBuf, rxBuf, status, spiDone, irqEnabled, miso, bus, done>>

Wake ==
  /\ pc = "wait"
  /\ spiDone
  /\ pc' = "drain"
  /\ UNCHANGED <<txBuf, rxBuf, i, status, spiDone, irqEnabled, mosi, miso, start, bus, done>>

ReadByte_OneShort ==
  /\ pc = "drain"
  /\ miso # <<>>
  /\ rxBuf' = Append(rxBuf, Head(miso))
  /\ miso' = Tail(miso)
  /\ done' = (done /\ Len(miso) > 1)
  /\ i' = i + 1
  /\ pc' = IF i + 1 >= Len(txBuf) THEN "idle" ELSE "drain"
  /\ UNCHANGED <<txBuf, status, spiDone, irqEnabled, mosi, start, bus>>

(* MspiRead.  Reading pops the MISO FIFO, and the engine lowers done one   *)
(* clock after the FIFO has run empty: before the CPU has the value.       *)
ReadByte ==
  /\ pc = "drain"
  /\ \/ /\ miso = <<>>
        /\ status' = "SpiErr"
        /\ pc' = "idle"
        /\ UNCHANGED <<rxBuf, i, miso, done>>
     \/ /\ miso # <<>>
        /\ rxBuf' = Append(rxBuf, Head(miso))
        /\ miso' = Tail(miso)
        /\ done' = (done /\ Len(miso) > 1)
        /\ i' = i + 1
        /\ pc' = IF i = Len(txBuf) THEN "idle" ELSE "drain"
        /\ UNCHANGED status
  /\ UNCHANGED <<txBuf, spiDone, irqEnabled, mosi, start, bus>>

(* AxiAdrv9001_SpiIrq, raised by the level of done while it is enabled. *)
SpiIrq ==
  /\ irqEnabled /\ done
  /\ spiDone' = TRUE
  /\ irqEnabled' = FALSE
  /\ UNCHANGED <<driver, mosi, miso, start, bus, done>>

-----------------------------------------------------------------------------
(* The bus engine.                                                         *)

SelectChip ==
  /\ engine = "off"
  /\ mosi # <<>> /\ start
  /\ engine' = "edge"
  /\ UNCHANGED <<driver, spiDone, irqEnabled, mosi, miso, start, shifted, done>>

BeginByte ==
  /\ engine = "edge"
  /\ mosi # <<>>
  /\ engine' = "shift"
  /\ UNCHANGED <<driver, spiDone, irqEnabled, mosi, miso, start, shifted, done>>

PopMosi ==
  /\ engine = "shift"
  /\ engine' = "sample"
  /\ shifted' = <<Head(mosi)>>
  /\ mosi' = Tail(mosi)
  /\ UNCHANGED <<driver, spiDone, irqEnabled, miso, start, done>>

PushMiso ==
  /\ engine = "sample"
  /\ engine' = "edge"
  /\ miso' = Push(miso, Head(shifted))
  /\ shifted' = <<>>
  /\ UNCHANGED <<driver, spiDone, irqEnabled, mosi, start, done>>

(* The falling edge after the last byte finds the MOSI FIFO empty. *)
EndFrame ==
  /\ engine = "edge"
  /\ mosi = <<>>
  /\ engine' = "off"
  /\ done' = TRUE
  /\ UNCHANGED <<driver, spiDone, irqEnabled, mosi, miso, start, shifted>>

-----------------------------------------------------------------------------
Cpu    == EnableIrq \/ WriteByte \/ Wake \/ ReadByte
Engine == SelectChip \/ BeginByte \/ PopMosi \/ PushMiso \/ EndFrame

Next == (\E tx \in Buffers : Call(tx)) \/ Cpu \/ SpiIrq \/ Engine

Spec == Init /\ [][Next]_vars

(* The CPU runs, an enabled interrupt line that stays up is served, and    *)
(* the engine is clocked.  Nobody has to call.                             *)
FairSpec == Spec /\ WF_vars(Cpu) /\ WF_vars(SpiIrq) /\ WF_vars(Engine)

-----------------------------------------------------------------------------
(* Types: the FIFOs stay within their depth, and the loop index within the *)
(* buffer wherever the loop uses it, and never more than one behind its    *)
(* end (axi_adrv9001.c:126-144).                                           *)
TypeOK ==
  /\ pc \in Points
  /\ txBuf \in Seq(Bytes) /\ rxBuf \in Seq(Bytes)
  /\ mosi \in Seq(Bytes) /\ Len(mosi) <= Depth
  /\ miso \in Seq(Bytes) /\ Len(miso) <= Depth
  /\ shifted \in Seq(Bytes) /\ Len(shifted) <= 1
  /\ i \in 1 .. Len(txBuf) + 1
  /\ pc \in {"fill", "drain"} => i <= Len(txBuf)
  /\ status \in {"ok", "SpiErr"}
  /\ spiDone \in BOOLEAN /\ irqEnabled \in BOOLEAN
  /\ start \in BOOLEAN /\ done \in BOOLEAN
  /\ engine \in Phases

(* While a frame is on the wire the driver is in its wait loop: the bytes  *)
(* of a transfer are never split over two frames because the CPU was late  *)
(* filling the FIFO (axi_adrv9001.c:126-134, adrv9001_mspi.v:84-89).       *)
FrameInsideWait ==
  engine # "off" => pc = "wait" /\ ~spiDone /\ ~done

(* A transfer leaves nothing behind for the next one: no byte in either    *)
(* FIFO, no interrupt armed or pending, whether it succeeded or failed     *)
(* (axi_adrv9001.c:136-146, adrv9001_mspi.v:117-122).                      *)
NoResidue ==
  pc \in {"idle", "enable"} =>
    /\ mosi = <<>> /\ miso = <<>> /\ shifted = <<>>
    /\ ~irqEnabled /\ ~done /\ engine = "off"

(* No wake-up is lost: as long as the driver waits in vain, its interrupt  *)
(* is enabled, and the engine has raised it, is at work, or has bytes and  *)
(* a start bit to begin with (axi_adrv9001.c:108-134,                      *)
(* adrv9001_mspi.v:77-123).                                                *)
WakeUpComes ==
  pc = "wait" /\ ~spiDone =>
    irqEnabled /\ (done \/ engine # "off" \/ (start /\ mosi # <<>>))

(* What is left to do, at most: three engine steps for every byte, and two *)
(* for the frame, which end with done; the interrupt; a step of the driver *)
(* for every byte each way.                                                *)
FrameLeft ==
  IF done THEN 0
  ELSE 3 * Len(mosi) + CASE engine = "off" -> 2 [] engine = "edge" -> 1
                         [] engine = "shift" -> 0 [] engine = "sample" -> 2

StepsLeft ==
  CASE pc = "idle"   -> 0
    [] pc = "enable" -> 2 * Len(txBuf) + 3 * Depth + 5
    [] pc = "fill"   -> 2 * Len(txBuf) + 3 * Depth + 5 - i
    [] pc = "wait"   -> Len(txBuf) + 1 + (IF spiDone THEN 0 ELSE 1) + FrameLeft
    [] pc = "drain"  -> Len(txBuf) + 1 - i

(* Nothing that happens during a transfer is in vain: every step of the    *)
(* driver, the interrupt and the engine brings its return closer, and so a *)
(* transfer of n bytes takes at most 2n + 3 Depth + 5 of them              *)
(* (axi_adrv9001.c:120-147, adrv9001_mspi.v:77-123).                       *)
ReturnComesCloser == [][pc # "idle" => StepsLeft' < StepsLeft]_vars

(* Every transfer returns: the wait loop of axi_adrv9001.c:134, which has  *)
(* no timeout, is always woken.                                            *)
Returns == (pc # "idle") ~> (pc = "idle")

(* The driver and the engine together implement the exchange the library   *)
(* relies on: one reply per request, to this request, in order.            *)
Exchange == INSTANCE SpiExchange WITH
  busy <- pc # "idle",
  request <- txBuf,
  reply <- IF pc = "idle" THEN rxBuf ELSE <<>>,
  status <- IF pc = "idle" THEN status ELSE "ok"

ImplementsExchange == Exchange!FairXSpec
=============================================================================
