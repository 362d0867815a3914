------------------------------- MODULE AxiRegs -------------------------------
(***************************************************************************)
(* The register block of the transceiver's logic, clock by clock: an       *)
(* AXI4-Lite slave whose handshakes decide in which cycle a write or a     *)
(* read takes effect, strobes that must last one cycle, and the SPI FIFOs, *)
(* which a write pushes and a read pops.                                   *)
(*                                                                         *)
(* Between two clocks the bus master may raise any of its signals; what it *)
(* has raised it holds until the handshake.  It may call a write before    *)
(* the last one has been answered, but reads one register at a time.       *)
(***************************************************************************)
EXTENDS Naturals, Sequences

CONSTANTS Plain, Pulses, Spi, ReadOnly,   (* the registers: see RegisterFile *)
          Values, Zero, None,
          MaxWrites, MaxReads, MaxBytes   (* bounds: accesses, bytes arrived *)

ASSUME RegistersAssumption ==
  /\ Plain \cap Pulses = {} /\ Spi \notin Plain \cup Pulses
  /\ ReadOnly \cap (Plain \cup Pulses \cup {Spi}) = {}
  /\ Zero \in Values /\ None \notin Plain \cup Pulses \cup ReadOnly \cup {Spi}

Registers == Plain \cup Pulses \cup {Spi} \cup ReadOnly
Requests  == [reg : Registers, val : Values]
Readable  == Plain \cup {Spi} \cup ReadOnly

ASSUME NoneAssumption == None \notin Requests \cup [value : Values \cup {None}]

VARIABLES
  req, awvalid, wvalid, bready,       (* the master's write: what it writes *)
                                      (* (None: nothing) and its signals    *)
  awready, wready, awEn, awaddr, bvalid,
  regs, tdata, high,                  (* plain registers, the byte to push, *)
                                      (* and the strobes that are high      *)
  rreq, arvalid, rready,              (* the master's read                  *)
  arready, araddr, rvalid, rdata, tready,
  fifo,                               (* bytes received, to be popped       *)
  pushed, pulsed,                     (* what the strobes did (history)     *)
  writes, reads, bytes                (* accesses and arrivals so far       *)

wmaster == <<req, awvalid, wvalid, bready>>
wslave  == <<awready, wready, awEn, awaddr, bvalid, regs, tdata, high, pushed, pulsed>>
rmaster == <<rreq, arvalid, rready>>
rslave  == <<arready, araddr, rvalid, rdata, tready>>
counts  == <<writes, reads, bytes>>
vars    == <<wmaster, wslave, rmaster, rslave, fifo, counts>>

Init ==
  /\ req = None /\ awvalid = FALSE /\ wvalid = FALSE /\ bready = FALSE
  /\ awready = FALSE /\ wready = FALSE /\ awEn = TRUE /\ awaddr = Spi /\ bvalid = FALSE
  /\ regs = [r \in Plain |-> Zero] /\ tdata = Zero /\ high = {}
  /\ rreq = None /\ arvalid = FALSE /\ rready = FALSE
  /\ arready = FALSE /\ araddr = Spi /\ rvalid = FALSE /\ rdata = Zero /\ tready = FALSE
  /\ fifo = <<>>
  /\ pushed = <<>> /\ pulsed = [r \in Pulses |-> 0]
  /\ writes = 0 /\ reads = 0 /\ bytes = 0

-----------------------------------------------------------------------------
(* The master, and the SPI engine that fills the FIFO.                     *)

StartWrite ==
  /\ req = None /\ writes < MaxWrites
  /\ req' \in Requests
  /\ writes' = writes + 1
  /\ UNCHANGED <<awvalid, wvalid, bready, wslave, rmaster, rslave, fifo, reads, bytes>>

(* Address and data are handed over at the same clock (see Clock), so each *)
(* is raised once per write.                                               *)
RaiseAw == /\ req # None /\ ~awvalid /\ awvalid' = TRUE
           /\ UNCHANGED <<req, wvalid, bready, wslave, rmaster, rslave, fifo, counts>>
RaiseW  == /\ req # None /\ ~wvalid /\ wvalid' = TRUE
           /\ UNCHANGED <<req, awvalid, bready, wslave, rmaster, rslave, fifo, counts>>
RaiseB  == /\ ~bready /\ bready' = TRUE
           /\ UNCHANGED <<req, awvalid, wvalid, wslave, rmaster, rslave, fifo, counts>>

StartRead ==
  /\ rreq = None /\ ~rvalid /\ reads < MaxReads
  /\ rreq' \in Readable /\ arvalid' = TRUE
  /\ reads' = reads + 1
  /\ UNCHANGED <<wmaster, wslave, rready, rslave, fifo, writes, bytes>>

RaiseR == /\ ~rready /\ rready' = TRUE
          /\ UNCHANGED <<wmaster, wslave, rreq, arvalid, rslave, fifo, counts>>

Arrive ==
  /\ bytes < MaxBytes /\ bytes' = bytes + 1
  /\ \E v \in Values : fifo' = Append(fifo, v)
  /\ UNCHANGED <<wmaster, wslave, rmaster, rslave, writes, reads>>

-----------------------------------------------------------------------------
(* The slave.                                                              *)

(* Mutated definitions, each placed before the one it replaces, are named  *)
(* <definition>_<what is wrong>; no behaviour of this module uses them.    *)
Accept_IgnoresAnswer == ~awready /\ awvalid /\ wvalid

Accept == ~awready /\ awvalid /\ wvalid /\ awEn      (* axi_awready, awaddr *)
Wren   == wready /\ wvalid /\ awready /\ awvalid     (* slv_reg_wren        *)
Rden   == arready /\ arvalid /\ ~rvalid              (* slv_reg_rden        *)

Handshake_NeverAgain ==
  /\ awready' = Accept
  /\ wready' = (~wready /\ wvalid /\ awvalid /\ awEn)
  /\ awaddr' = IF Accept THEN req.reg ELSE awaddr
  /\ awEn' = (awEn /\ ~Accept)
  /\ bvalid' = ((Wren /\ ~bvalid) \/ (bvalid /\ ~bready))

(* awEn keeps the next write out until the last one has been answered. *)
Handshake ==
  /\ awready' = Accept
  /\ wready' = (~wready /\ wvalid /\ awvalid /\ awEn)
  /\ awaddr' = IF Accept THEN req.reg ELSE awaddr
  /\ awEn' = (~Accept /\ (awEn \/ (bready /\ bvalid)))
  /\ bvalid' = ((Wren /\ ~bvalid) \/ (bvalid /\ ~bready))

Raises_AnyOther(r, v) == r \notin Plain /\ (r = Spi \/ v # Zero)

Raises(r, v) == r = Spi \/ (r \in Pulses /\ v # Zero)

Strobes_HeldWhenIdle ==
  high' = IF ~Wren THEN high
          ELSE IF awaddr \in Plain THEN high
          ELSE IF Raises(awaddr, req.val) THEN high \cup {awaddr}
          ELSE IF awaddr \in Pulses THEN high \ {awaddr}
          ELSE {}

(* A strobe falls in a cycle without a write, or with one to a register    *)
(* that nothing is kept in; a write to another register leaves it high.    *)
Strobes ==
  high' = IF ~Wren THEN {}
          ELSE IF awaddr \in Plain THEN high
          ELSE IF Raises(awaddr, req.val) THEN high \cup {awaddr}
          ELSE IF awaddr \in Pulses THEN high \ {awaddr}
          ELSE {}

WriteRegisters ==
  /\ regs' = IF Wren /\ awaddr \in Plain THEN [regs EXCEPT ![awaddr] = req.val] ELSE regs
  /\ tdata' = IF Wren /\ awaddr = Spi THEN req.val ELSE tdata
  /\ Strobes

(* What a strobe that is high does at this clock: a FIFO takes a byte, the *)
(* hop logic a trigger (adrv9001_mspi.v:134-147).                          *)
PushedSoon == IF Spi \in high THEN Append(pushed, tdata) ELSE pushed
PulsedSoon == [r \in Pulses |-> IF r \in high THEN pulsed[r] + 1 ELSE pulsed[r]]

Act ==
  /\ pushed' = PushedSoon
  /\ pulsed' = PulsedSoon

(* reg_data_out; what other logic drives is left out: it reads Zero.       *)
Content(r) ==
  IF r \in Plain THEN regs[r]
  ELSE IF r = Spi THEN IF fifo = <<>> THEN None ELSE Head(fifo)
  ELSE Zero

ReadRegisters ==
  /\ arready' = (~arready /\ arvalid)
  /\ araddr' = IF ~arready /\ arvalid THEN rreq ELSE araddr
  /\ tready' = (~arready /\ arvalid /\ rreq = Spi)
  /\ rvalid' = (Rden \/ (rvalid /\ ~rready))
  /\ rdata' = IF Rden THEN Content(araddr) ELSE rdata
  /\ fifo' = IF tready /\ fifo # <<>> THEN Tail(fifo) ELSE fifo

(* The master ends its side of a handshake at the clock that completes it. *)
MasterSees ==
  /\ req' = IF Wren THEN None ELSE req
  /\ awvalid' = (awvalid /\ ~awready) /\ wvalid' = (wvalid /\ ~wready)
  /\ bready' = (bready /\ ~bvalid)
  /\ rreq' = IF arready /\ arvalid THEN None ELSE rreq
  /\ arvalid' = (arvalid /\ ~arready)
  /\ rready' = (rready /\ ~rvalid)

Clock == Handshake /\ WriteRegisters /\ Act /\ ReadRegisters /\ MasterSees /\ UNCHANGED counts

-----------------------------------------------------------------------------
Next == \/ Clock
        \/ StartWrite \/ RaiseAw \/ RaiseW \/ RaiseB
        \/ StartRead \/ RaiseR \/ Arrive

(* The clock runs, and the master completes what it has started. *)
Fairness == WF_vars(Clock) /\ WF_vars(RaiseAw) /\ WF_vars(RaiseW) /\ WF_vars(RaiseB)
              /\ WF_vars(RaiseR)

Spec == Init /\ [][Next]_vars /\ Fairness

-----------------------------------------------------------------------------
(* Types. *)
TypeOK ==
  /\ req \in Requests \cup {None} /\ rreq \in Readable \cup {None}
  /\ awvalid \in BOOLEAN /\ wvalid \in BOOLEAN /\ bready \in BOOLEAN
  /\ awready \in BOOLEAN /\ wready \in BOOLEAN /\ awEn \in BOOLEAN /\ bvalid \in BOOLEAN
  /\ awaddr \in Registers /\ araddr \in Readable
  /\ regs \in [Plain -> Values] /\ tdata \in Values /\ high \in SUBSET (Pulses \cup {Spi})
  /\ arvalid \in BOOLEAN /\ rready \in BOOLEAN /\ arready \in BOOLEAN /\ rvalid \in BOOLEAN
  /\ rdata \in Values \cup {None} /\ tready \in BOOLEAN
  /\ fifo \in Seq(Values) /\ pushed \in Seq(Values) /\ pulsed \in [Pulses -> Nat]
  /\ writes \in Nat /\ reads \in Nat /\ bytes \in Nat

(* Two writes may be on their way at once, one answered late: the signals  *)
(* of the two never mix, and no strobe is high while a write is accepted,  *)
(* so that none is held over by it.                                        *)
WritesApart ==
  /\ awready = wready
  /\ awready => awvalid /\ wvalid /\ ~bvalid /\ ~awEn /\ high = {}
  /\ bvalid => ~awEn

(* A read is never accepted while the answer to another is waiting: it     *)
(* would pop a byte that nobody gets.                                      *)
ReadsApart == arready => arvalid /\ ~rvalid

(* Accesses are kept apart, however late they are answered                 *)
(* (adrv9001_regs.v:172-228, 359-447, 472-526).                            *)
OneAtATime == WritesApart /\ ReadsApart

(* What has been read and not been taken. *)
WasRead == IF rvalid THEN [value |-> rdata] ELSE None

File == INSTANCE RegisterFile WITH
  call <- req, answered <- bvalid, pushed <- PushedSoon, pulsed <- PulsedSoon,
  rcall <- rreq, result <- WasRead

(* The block is a register file: every write and read takes effect once,   *)
(* a push or a pop included, between its call and its answer.              *)
(* The SPI driver's accesses to the FIFOs rely on it (adrv9001_regs.v:     *)
(* 172-597, axi_adrv9001.c:88-147).                                        *)
ImplementsRegisterFile == File!Spec

(* How many clocks an access needs at most, once the master has handed the *)
(* write over and taken the answer to the last one.                        *)
Offered   == awvalid /\ wvalid /\ (bvalid => bready)
WriteLeft == IF awready THEN 1 ELSE IF awEn THEN 2 ELSE 3
ReadLeft  == IF arready THEN 1 ELSE 2

(* A write is answered within three clocks of being handed over and a read *)
(* within two of its call, whatever the other channel does and however     *)
(* late the last answer was taken: no step puts an access back, and each   *)
(* clock brings it closer (adrv9001_regs.v:172-226, 449-523).              *)
AnsweredInTime ==
  [][/\ req # None =>
          \/ req' = None /\ bvalid'
          \/ /\ Offered => Offered'
             /\ WriteLeft' <= WriteLeft
             /\ Clock /\ Offered => WriteLeft' < WriteLeft
     /\ rreq # None =>
          \/ rreq' = None /\ rvalid'
          \/ /\ ReadLeft' <= ReadLeft
             /\ Clock => ReadLeft' < ReadLeft]_vars

(* Every write is answered and every read returns, with pipelined writes   *)
(* too (adrv9001_regs.v:172-226, 449-470, 505-523).                        *)
EveryAccessEnds == (req # None ~> bvalid) /\ (bvalid ~> ~bvalid) /\ (rreq # None ~> rvalid)
=============================================================================
