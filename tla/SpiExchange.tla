---------------------------- MODULE SpiExchange ----------------------------
(***************************************************************************)
(* What adi_hal_SpiWrite / adi_hal_SpiRead promise the transceiver library *)
(* (adrv9001.c:2584-2596): a call hands over a buffer, and returns once,   *)
(* either with the device's reply to every byte of that very buffer, in    *)
(* order, or with an error.  Nothing of one exchange shows up in a later   *)
(* one.  The device's reply to a byte carries the byte's own name, so "the *)
(* reply to tx" is tx.                                                     *)
(***************************************************************************)
EXTENDS Naturals, Sequences

CONSTANTS
  Bytes,      (* what one byte on the bus can be                           *)
  Depth,      (* bytes the programmable logic buffers in each direction    *)
  MaxLength   (* longest buffer a caller hands over (bounds the model)     *)

VARIABLES
  busy,     (* an exchange is in progress                                  *)
  request,  (* the buffer of the last call                                 *)
  reply,    (* what the last call stored in the caller's receive buffer    *)
  status    (* its return value: "ok" or "SpiErr"                          *)

xvars == <<busy, request, reply, status>>

Buffers == UNION { [1..n -> Bytes] : n \in 1..MaxLength }

XInit ==
  /\ busy = FALSE
  /\ request = <<>>
  /\ reply = <<>>
  /\ status = "ok"

Request(tx) ==
  /\ ~busy
  /\ busy' = TRUE
  /\ request' = tx
  /\ reply' = <<>>
  /\ status' = "ok"

(* A buffer that fits is answered in full; a longer one is answered only   *)
(* up to what the logic can hold, and the caller is told so.               *)
Reply ==
  /\ busy
  /\ busy' = FALSE
  /\ \/ Len(request) <= Depth /\ status' = "ok"     /\ reply' = request
     \/ Len(request) >  Depth /\ status' = "SpiErr" /\ reply' = SubSeq(request, 1, Depth)
  /\ UNCHANGED request

XNext == Reply \/ \E tx \in Buffers : Request(tx)

XSpec == XInit /\ [][XNext]_xvars

FairXSpec == XSpec /\ WF_xvars(Reply)
=============================================================================
