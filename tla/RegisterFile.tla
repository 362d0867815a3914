----------------------------- MODULE RegisterFile -----------------------------
(***************************************************************************)
(* What software assumes of memory-mapped registers: a write and a read    *)
(* take effect once, in one step between their call and their return.      *)
(* Besides plain registers there are strobes, whose every write is one     *)
(* pulse, and the SPI register, whose write pushes a byte into one FIFO    *)
(* and whose read pops one from the other.                                 *)
(***************************************************************************)
EXTENDS Naturals, Sequences

CONSTANTS
  Plain,       (* registers that hold what is written                      *)
  Pulses,      (* registers whose write of other than Zero is a pulse      *)
  Spi,         (* the SPI register                                         *)
  ReadOnly,    (* registers that no write changes                          *)
  Values, Zero, None

VARIABLES
  regs,        (* what the plain registers hold                            *)
  pushed,      (* bytes pushed, in order                                   *)
  pulsed,      (* pulses given, per register                               *)
  call,        (* the write called and not in effect, or None              *)
  answered,    (* a write in effect has not returned                       *)
  fifo,        (* bytes to pop                                             *)
  rcall,       (* the register whose read is called, or None               *)
  result       (* what was read and has not been returned, or None         *)

Registers == Plain \cup Pulses \cup {Spi} \cup ReadOnly
Requests  == [reg : Registers, val : Values]

writeVars == <<regs, pushed, pulsed, call, answered>>
readVars  == <<fifo, rcall, result>>

(* Nothing reads a pulse back.                                             *)
Readable  == Plain \cup {Spi} \cup ReadOnly

Init ==
  /\ regs = [r \in Plain |-> Zero]
  /\ pushed = <<>> /\ pulsed = [r \in Pulses |-> 0]
  /\ call = None /\ answered = FALSE
  /\ fifo = <<>> /\ rcall = None /\ result = None

Call(req) == call = None /\ call' = req /\ UNCHANGED <<regs, pushed, pulsed, answered>>

Effect ==
  /\ call # None /\ ~answered
  /\ call' = None /\ answered' = TRUE
  /\ regs' = IF call.reg \in Plain THEN [regs EXCEPT ![call.reg] = call.val] ELSE regs
  /\ pushed' = IF call.reg = Spi THEN Append(pushed, call.val) ELSE pushed
  /\ pulsed' = IF call.reg \in Pulses /\ call.val # Zero
               THEN [pulsed EXCEPT ![call.reg] = @ + 1] ELSE pulsed

Return == answered /\ answered' = FALSE /\ UNCHANGED <<regs, pushed, pulsed, call>>

Content(r) ==
  IF r \in Plain THEN regs[r]
  ELSE IF r = Spi THEN IF fifo = <<>> THEN None ELSE Head(fifo)
  ELSE Zero

ReadCall(r) == rcall = None /\ result = None /\ rcall' = r /\ UNCHANGED <<fifo, result>>

(* What was read is [value |-> v]. *)
ReadEffect ==
  /\ rcall # None
  /\ rcall' = None /\ result' = [value |-> Content(rcall)]
  /\ fifo' = IF rcall = Spi /\ fifo # <<>> THEN Tail(fifo) ELSE fifo

ReadReturn == result # None /\ result' = None /\ UNCHANGED <<fifo, rcall>>

Arrive(v) == fifo' = Append(fifo, v) /\ UNCHANGED <<rcall, result>>

(* The two directions are independent: one step may be one of each. *)
Write == (\E req \in Requests : Call(req)) \/ Effect \/ Return
Read  == (\E r \in Readable : ReadCall(r)) \/ ReadEffect \/ ReadReturn
           \/ \E v \in Values : Arrive(v)

Next ==
  /\ Write \/ UNCHANGED writeVars
  /\ Read \/ UNCHANGED readVars

Spec == Init /\ [][Next]_<<writeVars, readVars>>
=============================================================================
