---------------------------- MODULE AxiRegsProofs ----------------------------
(***************************************************************************)
(* The handshakes of AxiRegs keep accesses apart, for any set of registers *)
(* and values, and the block implements RegisterFile: every access takes   *)
(* effect in exactly one clock.                                            *)
(***************************************************************************)
EXTENDS AxiRegs, TLAPS

(* What the slave has accepted is what the master still holds; the write   *)
(* enable is withdrawn only between the acceptance and the answer.         *)
Write ==
  /\ (awvalid \/ wvalid => req # None)
  /\ (awready => req # None /\ awaddr = req.reg)

Read ==
  /\ (arvalid <=> rreq # None)
  /\ (arready => araddr = rreq)
  /\ (tready <=> arready /\ araddr = Spi)
  /\ (rvalid => rreq = None)

IInv == TypeOK /\ WritesApart /\ ReadsApart /\ Write /\ Read

-----------------------------------------------------------------------------
(* The invariant holds in every reachable state.                           *)

LEMMA InitIInv == Init => IInv
<1> SUFFICES ASSUME Init PROVE IInv
  OBVIOUS
<1>1. TypeOK
  <2>1. fifo \in Seq(Values) /\ pushed \in Seq(Values)
    BY DEF Init
  <2> QED BY <2>1, RegistersAssumption DEF Init, TypeOK, Readable, Registers
<1>2. WritesApart /\ ReadsApart /\ Write /\ Read
  BY DEF Init, WritesApart, ReadsApart, Write, Read
<1> QED BY <1>1, <1>2 DEF IInv

(* What a clock reads is of the right type.                                *)
LEMMA ContentType ==
  ASSUME TypeOK, NEW r \in Readable PROVE Content(r) \in Values \cup {None}
<1>1. CASE r \in Plain
  BY <1>1 DEF Content, TypeOK
<1>2. CASE r \notin Plain /\ r = Spi
  <2>1. CASE fifo = <<>>
    BY <1>2, <2>1 DEF Content
  <2>2. CASE fifo # <<>>
    <3>1. Head(fifo) \in Values
      BY <2>2 DEF TypeOK
    <3> QED BY <1>2, <2>2, <3>1 DEF Content
  <2> QED BY <2>1, <2>2
<1>3. CASE r \notin Plain /\ r # Spi
  BY <1>3, RegistersAssumption DEF Content
<1> QED BY <1>1, <1>2, <1>3

LEMMA ClockType == IInv /\ Clock => TypeOK'
<1> SUFFICES ASSUME IInv, Clock PROVE TypeOK'
  OBVIOUS
<1> USE DEF IInv, Clock
<1>0. TypeOK /\ WritesApart /\ ReadsApart /\ Write /\ Read
  OBVIOUS
<1>1. Wren => req \in Requests /\ awaddr = req.reg /\ req.val \in Values
  BY DEF TypeOK, Write, Wren, Requests
<1>2. /\ req' \in Requests \cup {None} /\ rreq' \in Readable \cup {None}
      /\ awvalid' \in BOOLEAN /\ wvalid' \in BOOLEAN /\ bready' \in BOOLEAN
      /\ arvalid' \in BOOLEAN /\ rready' \in BOOLEAN
  BY DEF MasterSees, TypeOK
<1>3. /\ awready' \in BOOLEAN /\ wready' \in BOOLEAN /\ awEn' \in BOOLEAN /\ bvalid' \in BOOLEAN
  BY DEF Handshake, Accept, Wren, TypeOK
<1>4. awaddr' \in Registers
  BY DEF Handshake, Accept, Write, TypeOK, Requests
<1>5. /\ arready' \in BOOLEAN /\ rvalid' \in BOOLEAN /\ tready' \in BOOLEAN
  BY DEF ReadRegisters, Rden, TypeOK
<1>6. araddr' \in Readable
  BY DEF ReadRegisters, Read, TypeOK
<1>7. regs' \in [Plain -> Values] /\ tdata' \in Values
  BY <1>1 DEF WriteRegisters, TypeOK
<1>8. high' \in SUBSET (Pulses \cup {Spi})
  BY DEF WriteRegisters, Strobes, Raises, TypeOK
<1>9. rdata' \in Values \cup {None}
  <2>1. Content(araddr) \in Values \cup {None}
    BY ContentType DEF TypeOK
  <2> QED BY <2>1 DEF ReadRegisters, TypeOK
<1>10. fifo' \in Seq(Values)
  BY DEF ReadRegisters, TypeOK
<1>11. pushed' \in Seq(Values)
  BY DEF Act, PushedSoon, PulsedSoon, TypeOK
<1>12. pulsed' \in [Pulses -> Nat]
  BY DEF Act, PushedSoon, PulsedSoon, TypeOK
<1>13. writes' \in Nat /\ reads' \in Nat /\ bytes' \in Nat
  BY DEF counts, TypeOK
<1> QED BY <1>2, <1>3, <1>4, <1>5, <1>6, <1>7, <1>8, <1>9, <1>10, <1>11, <1>12, <1>13
        DEF TypeOK

LEMMA ClockInvariant == IInv /\ Clock => IInv'
<1> SUFFICES ASSUME IInv, Clock PROVE IInv'
  OBVIOUS
<1>1. TypeOK'
  BY ClockType
<1>2. WritesApart'
  <2>1. awready' = wready'
    BY DEF IInv, WritesApart, Clock, Handshake, Accept
  <2>2. awready' => awvalid' /\ wvalid' /\ ~bvalid' /\ ~awEn' /\ high' = {}
    BY DEF IInv, WritesApart, Clock, Handshake, Accept, MasterSees, WriteRegisters, Strobes, Wren
  <2>3. bvalid' => ~awEn'
    BY DEF IInv, WritesApart, Clock, Handshake, Accept, Wren
  <2> QED BY <2>1, <2>2, <2>3 DEF WritesApart
<1>3. ReadsApart'
  BY DEF IInv, ReadsApart, Read, Clock, ReadRegisters, MasterSees, Rden
<1>4. Write'
  BY DEF IInv, WritesApart, Write, Clock, Handshake, Accept, MasterSees, Wren
<1>5. Read'
  BY DEF IInv, ReadsApart, Read, Clock, ReadRegisters, MasterSees, Rden
<1> QED BY <1>1, <1>2, <1>3, <1>4, <1>5 DEF IInv

LEMMA StepInvariant == IInv /\ [Next]_vars => IInv'
<1> SUFFICES ASSUME IInv, [Next]_vars PROVE IInv'
  OBVIOUS
<1> USE DEF IInv, TypeOK, WritesApart, ReadsApart, Write, Read
<1>1. CASE Clock
  BY <1>1, ClockInvariant
<1>2. CASE StartWrite
  BY <1>2, NoneAssumption DEF StartWrite, wslave, rmaster, rslave
<1>3. CASE RaiseAw
  BY <1>3 DEF RaiseAw, wslave, rmaster, rslave, counts
<1>4. CASE RaiseW
  BY <1>4 DEF RaiseW, wslave, rmaster, rslave, counts
<1>5. CASE RaiseB
  BY <1>5 DEF RaiseB, wslave, rmaster, rslave, counts
<1>6. CASE StartRead
  <2>1. None \notin Readable
    BY RegistersAssumption DEF Readable
  <2> QED BY <1>6, <2>1 DEF StartRead, wmaster, wslave, rslave
<1>7. CASE RaiseR
  BY <1>7 DEF RaiseR, wmaster, wslave, rslave, counts
<1>8. CASE Arrive
  <2>1. fifo' \in Seq(Values)
    BY <1>8 DEF Arrive
  <2> QED BY <1>8, <2>1 DEF Arrive, wmaster, wslave, rmaster, rslave
<1>9. CASE UNCHANGED vars
  BY <1>9 DEF vars, wmaster, wslave, rmaster, rslave, counts
<1> QED BY <1>1, <1>2, <1>3, <1>4, <1>5, <1>6, <1>7, <1>8, <1>9 DEF Next

LEMMA Invariant == Spec => []IInv
<1> QED BY InitIInv, StepInvariant, PTL DEF Spec

(* Every variable of the register block has its type.                      *)
THEOREM TypeCorrect == Spec => []TypeOK
<1>1. IInv => TypeOK
  BY DEF IInv
<1> QED BY <1>1, Invariant, PTL

(* However late an access is answered, the signals of two writes never     *)
(* mix, no strobe is held over by a later write, and no read is accepted   *)
(* while the answer to another waits to be taken.                          *)
THEOREM AccessesKeptApart == Spec => []OneAtATime
<1>1. IInv => OneAtATime
  BY DEF IInv, OneAtATime
<1> QED BY <1>1, Invariant, PTL

-----------------------------------------------------------------------------
(* Each action is a step of the register file or a stutter.                *)

LEMMA InitFile == Init => File!Init
BY DEF Init, File!Init, PushedSoon, PulsedSoon, WasRead

(* The clock in which a write is enabled is its effect, strobes included:  *)
(* they were low, and what they do at the next clock counts already.       *)
LEMMA ClockWrite ==
  ASSUME IInv, Clock PROVE File!Write \/ UNCHANGED File!writeVars
<1> USE DEF IInv, Clock
<1>1. pushed' = PushedSoon /\ pulsed' = PulsedSoon
  BY DEF Act
<1>2. CASE Wren
  <2>1. /\ req \in Requests /\ req # None /\ awaddr = req.reg
        /\ ~bvalid /\ high = {}
    BY <1>2 DEF Write, WritesApart, TypeOK, Wren
  <2>2. req' = None /\ bvalid'
    BY <1>2, <2>1 DEF MasterSees, Handshake
  <2>3. regs' = IF req.reg \in Plain THEN [regs EXCEPT ![req.reg] = req.val] ELSE regs
    BY <1>2, <2>1 DEF WriteRegisters
  <2>4. pushed' = pushed /\ \A r \in Pulses : pulsed'[r] = pulsed[r]
    BY <1>1, <2>1 DEF PushedSoon, PulsedSoon
  <2>5. high' = IF req.reg = Spi \/ (req.reg \in Pulses /\ req.val # Zero)
                THEN {req.reg} ELSE {}
    BY <1>2, <2>1, RegistersAssumption DEF WriteRegisters, Strobes, Raises
  <2>6. PushedSoon' = IF req.reg = Spi THEN Append(PushedSoon, req.val) ELSE PushedSoon
    <3>1. PushedSoon = pushed
      BY <2>1 DEF PushedSoon
    <3>2. PushedSoon' = IF Spi \in high' THEN Append(pushed, tdata') ELSE pushed
      BY <2>4 DEF PushedSoon
    <3>3. req.reg = Spi => tdata' = req.val
      BY <1>2, <2>1 DEF WriteRegisters
    <3>4. Spi \in high' <=> req.reg = Spi
      BY <2>5
    <3> QED BY <3>1, <3>2, <3>3, <3>4
  <2>7. PulsedSoon' = IF req.reg \in Pulses /\ req.val # Zero
                      THEN [PulsedSoon EXCEPT ![req.reg] = @ + 1] ELSE PulsedSoon
    <3>1. PulsedSoon = [r \in Pulses |-> pulsed[r]]
      BY <2>1 DEF PulsedSoon
    <3>2. PulsedSoon' = [r \in Pulses |-> IF r \in high' THEN pulsed[r] + 1 ELSE pulsed[r]]
      BY <2>4 DEF PulsedSoon
    <3>3. CASE req.reg \in Pulses /\ req.val # Zero
      <4>1. high' = {req.reg}
        BY <2>5, <3>3
      <4> QED BY <3>1, <3>2, <3>3, <4>1
    <3>4. CASE ~(req.reg \in Pulses /\ req.val # Zero)
      <4>1. \A r \in Pulses : r \notin high'
        BY <2>5, <3>4, RegistersAssumption
      <4> QED BY <3>1, <3>2, <3>4, <4>1
    <3> QED BY <3>3, <3>4
  <2> QED BY <2>1, <2>2, <2>3, <2>6, <2>7 DEF File!Write, File!Effect
<1>3. CASE ~Wren
  <2>1. /\ req' = req /\ regs' = regs /\ high' = {}
        /\ bvalid' = (bvalid /\ ~bready)
    BY <1>3 DEF MasterSees, WriteRegisters, Strobes, Handshake
  <2>2. PushedSoon' = PushedSoon
    BY <1>1, <2>1 DEF PushedSoon
  <2>3. PulsedSoon' = PulsedSoon
    <3>1. PulsedSoon' = [r \in Pulses |-> pulsed'[r]]
      BY <2>1 DEF PulsedSoon
    <3> QED BY <1>1, <3>1 DEF PulsedSoon
  <2>4. bvalid \in BOOLEAN
    BY DEF TypeOK
  <2>5. CASE bvalid /\ bready
    BY <2>1, <2>2, <2>3, <2>5 DEF File!Write, File!Return
  <2>6. CASE ~(bvalid /\ bready)
    <3>1. bvalid' = bvalid
      BY <2>1, <2>4, <2>6
    <3> QED BY <2>1, <2>2, <2>3, <3>1 DEF File!writeVars
  <2> QED BY <2>5, <2>6
<1> QED BY <1>2, <1>3

LEMMA ClockRead ==
  ASSUME IInv, Clock PROVE File!Read \/ UNCHANGED File!readVars
<1> USE DEF IInv, Clock, ReadsApart, Read
<1>1. CASE arready
  <2>1. arvalid /\ ~rvalid /\ rreq # None /\ araddr = rreq /\ (tready <=> rreq = Spi)
    BY <1>1
  <2>2. rreq' = None /\ rvalid' /\ rdata' = Content(rreq)
    BY <1>1, <2>1 DEF MasterSees, ReadRegisters, Rden
  <2>3. WasRead' = [value |-> Content(rreq)]
    BY <2>2 DEF WasRead
  <2>4. Content(rreq) = File!Content(rreq)
    BY DEF Content, File!Content
  <2>5. fifo' = IF rreq = Spi /\ fifo # <<>> THEN Tail(fifo) ELSE fifo
    BY <2>1 DEF ReadRegisters
  <2> QED BY <2>1, <2>2, <2>3, <2>4, <2>5 DEF File!Read, File!ReadEffect
<1>2. CASE ~arready
  <2>1. rreq' = rreq /\ fifo' = fifo /\ rdata' = rdata /\ rvalid' = (rvalid /\ ~rready)
    BY <1>2 DEF MasterSees, ReadRegisters, Rden
  <2>2. CASE rvalid /\ rready
    <3>1. WasRead # None
      <4>1. [value |-> rdata] \in [value : Values \cup {None}]
        BY DEF TypeOK
      <4> QED BY <2>2, <4>1, NoneAssumption DEF WasRead
    <3>2. WasRead' = None
      BY <2>1, <2>2 DEF WasRead
    <3> QED BY <2>1, <3>1, <3>2 DEF File!Read, File!ReadReturn
  <2>3. CASE ~(rvalid /\ rready)
    <3>1. WasRead' = WasRead
      BY <2>1, <2>3 DEF WasRead
    <3> QED BY <2>1, <3>1 DEF File!readVars
  <2> QED BY <2>2, <2>3
<1> QED BY <1>1, <1>2

LEMMA StepFile == IInv /\ [Next]_vars => [File!Next]_<<File!writeVars, File!readVars>>
<1> SUFFICES ASSUME IInv, [Next]_vars
             PROVE  /\ File!Write \/ UNCHANGED File!writeVars
                    /\ File!Read \/ UNCHANGED File!readVars
  BY DEF File!Next
<1> USE DEF PushedSoon, PulsedSoon, WasRead
<1>1. CASE Clock
  BY <1>1, ClockWrite, ClockRead
<1>2. CASE StartWrite
  <2>1. UNCHANGED File!readVars
    BY <1>2 DEF StartWrite, rmaster, rslave, File!readVars
  <2>2. UNCHANGED <<regs, PushedSoon, PulsedSoon, bvalid>>
    BY <1>2 DEF StartWrite, wslave
  <2>3. \E r \in Requests : req = None /\ req' = r
    BY <1>2 DEF StartWrite
  <2>4. Requests = File!Requests
    BY DEF Requests, Registers, File!Requests, File!Registers
  <2> QED BY <2>1, <2>2, <2>3, <2>4 DEF File!Write, File!Call
<1>3. CASE RaiseAw \/ RaiseW \/ RaiseB \/ RaiseR \/ UNCHANGED vars
  BY <1>3 DEF RaiseAw, RaiseW, RaiseB, RaiseR, vars, wmaster, wslave, rmaster, rslave, counts,
              File!writeVars, File!readVars
<1>4. CASE StartRead
  <2>1. UNCHANGED File!writeVars
    BY <1>4 DEF StartRead, wmaster, wslave, File!writeVars
  <2>2. UNCHANGED <<fifo, WasRead>> /\ WasRead = None
    BY <1>4 DEF StartRead, rslave
  <2>3. \E r \in Readable : rreq = None /\ rreq' = r
    BY <1>4 DEF StartRead
  <2>4. Readable = File!Readable
    BY DEF Readable, File!Readable
  <2> QED BY <2>1, <2>2, <2>3, <2>4 DEF File!Read, File!ReadCall
<1>5. CASE Arrive
  <2>1. UNCHANGED File!writeVars
    BY <1>5 DEF Arrive, wmaster, wslave, File!writeVars
  <2>2. UNCHANGED <<rreq, WasRead>> /\ \E v \in Values : fifo' = Append(fifo, v)
    BY <1>5 DEF Arrive, rmaster, rslave
  <2> QED BY <2>1, <2>2 DEF File!Read, File!Arrive
<1> QED BY <1>1, <1>2, <1>3, <1>4, <1>5 DEF Next

(* The register block is a register file: every write and every read takes *)
(* effect in one clock between its call and its return, pushes, pops and   *)
(* pulses included, for any registers, values and delays of the master.    *)
THEOREM RegisterFileImplemented == Spec => ImplementsRegisterFile
<1>1. Init => File!Init
  BY InitFile
<1>2. IInv /\ [Next]_vars => [File!Next]_<<File!writeVars, File!readVars>>
  BY StepFile
<1> QED BY <1>1, <1>2, Invariant, PTL DEF Spec, ImplementsRegisterFile, File!Spec

-----------------------------------------------------------------------------
(* How soon an access is answered.                                         *)

(* The slave refuses a write only while it has one in hand or the answer   *)
(* to it has not been taken.                                               *)
NeverShut == awEn \/ awready \/ bvalid

LEMMA NeverShutStep == IInv /\ NeverShut /\ [Next]_vars => NeverShut'
<1> SUFFICES ASSUME IInv, NeverShut, [Next]_vars PROVE NeverShut'
  OBVIOUS
<1>1. CASE Clock
  <2>1. CASE awready
    <3>1. Wren /\ ~bvalid
      BY <2>1 DEF IInv, WritesApart, Wren
    <3> QED BY <1>1, <3>1 DEF Clock, Handshake, NeverShut
  <2>2. CASE ~awready /\ awEn
    BY <1>1, <2>2 DEF Clock, Handshake, Accept, NeverShut
  <2>3. CASE ~awready /\ ~awEn
    <3>1. bvalid /\ ~Accept
      BY <2>3 DEF NeverShut, Accept
    <3> QED BY <1>1, <3>1 DEF Clock, Handshake, NeverShut
  <2> QED BY <2>1, <2>2, <2>3
<1>2. CASE UNCHANGED wslave
  BY <1>2 DEF wslave, NeverShut
<1> QED
  BY <1>1, <1>2 DEF Next, StartWrite, RaiseAw, RaiseW, RaiseB, StartRead, RaiseR, Arrive, vars

LEMMA ClockNearer ==
  ASSUME IInv, NeverShut, Clock
  PROVE  /\ req # None =>
              \/ req' = None /\ bvalid'
              \/ /\ Offered => Offered'
                 /\ WriteLeft' <= WriteLeft
                 /\ Offered => WriteLeft' < WriteLeft
         /\ rreq # None => (rreq' = None /\ rvalid') \/ ReadLeft' < ReadLeft
<1>1. CASE awready
  <2>1. Wren /\ ~bvalid
    BY <1>1 DEF IInv, WritesApart, Wren
  <2> QED
    <3>1. req' = None /\ bvalid'
      BY <2>1 DEF Clock, MasterSees, Handshake
    <3>2. rreq # None => (rreq' = None /\ rvalid') \/ ReadLeft' < ReadLeft
      BY DEF IInv, TypeOK, ReadsApart, Read, Clock, ReadRegisters, MasterSees, Rden, ReadLeft
    <3> QED BY <3>1, <3>2
<1>2. CASE ~awready
  <2>1. ~wready /\ ~Wren
    BY <1>2 DEF IInv, WritesApart, Wren
  <2>2. /\ awready' = Accept /\ awEn' = (~Accept /\ (awEn \/ (bready /\ bvalid)))
        /\ bvalid' = (bvalid /\ ~bready)
        /\ awvalid' = awvalid /\ wvalid' = wvalid /\ bready' = (bready /\ ~bvalid)
    BY <1>2, <2>1 DEF Clock, Handshake, MasterSees, IInv, TypeOK
  <2>3. bvalid => ~awEn
    BY DEF IInv, WritesApart
  <2>4. /\ awEn \in BOOLEAN /\ bvalid \in BOOLEAN /\ bready \in BOOLEAN
        /\ awvalid \in BOOLEAN /\ wvalid \in BOOLEAN
    BY DEF IInv, TypeOK
  <2>5. Offered => Offered'
    BY <2>2, <2>4 DEF Offered
  <2>6. CASE awEn
    <3>1. WriteLeft = 2
      BY <1>2, <2>6 DEF WriteLeft
    <3>2. WriteLeft' \in {1, 2}
      BY <2>2, <2>6 DEF WriteLeft
    <3>3. Offered => WriteLeft' = 1
      BY <1>2, <2>2, <2>6 DEF WriteLeft, Offered, Accept
    <3> QED
      <4>1. rreq # None => (rreq' = None /\ rvalid') \/ ReadLeft' < ReadLeft
        BY DEF IInv, TypeOK, ReadsApart, Read, Clock, ReadRegisters, MasterSees, Rden, ReadLeft
      <4> QED BY <2>5, <3>1, <3>2, <3>3, <4>1
  <2>7. CASE ~awEn
    <3>1. bvalid /\ WriteLeft = 3 /\ ~Accept
      BY <1>2, <2>7 DEF NeverShut, WriteLeft, Accept
    <3>2. WriteLeft' \in {2, 3}
      BY <2>2, <3>1 DEF WriteLeft
    <3>3. Offered => WriteLeft' = 2
      BY <2>2, <3>1 DEF WriteLeft, Offered
    <3> QED
      <4>1. rreq # None => (rreq' = None /\ rvalid') \/ ReadLeft' < ReadLeft
        BY DEF IInv, TypeOK, ReadsApart, Read, Clock, ReadRegisters, MasterSees, Rden, ReadLeft
      <4> QED BY <2>5, <3>1, <3>2, <3>3, <4>1
  <2> QED BY <2>6, <2>7
<1> QED BY <1>1, <1>2

(* No step of anybody puts an access back, and every clock brings it       *)
(* nearer, once it has been handed over: a write takes three clocks and a  *)
(* read two, for any registers, values and delays of the master            *)
(* (adrv9001_regs.v:172-226, 449-523).                                     *)
THEOREM AccessesInTime == Spec => AnsweredInTime
<1>1. Init => NeverShut
  BY DEF Init, NeverShut
<1> DEFINE Nearer ==
      /\ req # None =>
           \/ req' = None /\ bvalid'
           \/ /\ Offered => Offered'
              /\ WriteLeft' <= WriteLeft
              /\ Clock /\ Offered => WriteLeft' < WriteLeft
      /\ rreq # None =>
           \/ rreq' = None /\ rvalid'
           \/ /\ ReadLeft' <= ReadLeft
              /\ Clock => ReadLeft' < ReadLeft
<1>2. IInv /\ NeverShut /\ [Next]_vars => [Nearer]_vars
  <2> SUFFICES ASSUME IInv, NeverShut, Next PROVE Nearer
    OBVIOUS
  <2>0. WriteLeft \in {1, 2, 3} /\ ReadLeft \in {1, 2} /\ ReadLeft' \in {1, 2}
    BY DEF WriteLeft, ReadLeft
  <2>1. CASE Clock
    BY <2>0, <2>1, ClockNearer
  <2>2. CASE ~Clock /\ Next
    <3>1. UNCHANGED <<awready, awEn, bvalid, arready>>
      BY <2>2 DEF Next, StartWrite, RaiseAw, RaiseW, RaiseB, StartRead, RaiseR, Arrive, wslave, rslave
    <3>2. WriteLeft' = WriteLeft /\ ReadLeft' = ReadLeft
      BY <3>1 DEF WriteLeft, ReadLeft
    <3>3. req # None /\ Offered => Offered'
      BY <2>2, <3>1 DEF Next, StartWrite, RaiseAw, RaiseW, RaiseB, StartRead, RaiseR, Arrive,
                        wmaster, Offered
    <3> QED BY <2>0, <2>2, <3>2, <3>3
  <2> QED BY <2>1, <2>2
<1>3. AnsweredInTime <=> [][Nearer]_vars
  BY DEF AnsweredInTime
<1> HIDE DEF Nearer
<1> QED BY <1>1, <1>2, <1>3, Invariant, NeverShutStep, PTL DEF Spec

=============================================================================
