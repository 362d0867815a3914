-------------------------------- MODULE Boot --------------------------------
(***************************************************************************)
(* Power-up, start-up and the command Reboot, around the parameters.       *)
(*                                                                         *)
(* The boot ROM starts what it finds as boot.bin on the card.  The         *)
(* application's start-up brings the command line up first and the radio   *)
(* later; of the commands modelled here only Reboot is known in between.   *)
(* Reboot with the name of a file puts that file in the place of boot.bin: *)
(* it deletes the old image, opens the file, creates boot.bin, copies, and *)
(* resets the processor whatever has become of all that.  Power may fail   *)
(* between any two of these steps.                                         *)
(***************************************************************************)
EXTENDS Params

CONSTANT Chunks   \* the number of buffers a new image fills

ASSUME ChunksAssumption == Chunks \in Nat \ {0}

(* "old" and "new" are whole images; "torn" is a boot.bin that has been    *)
(* created and not been closed, or has lost a part.                        *)
Images == {"old", "new", "torn", "none"}

(* What the parameter of Reboot names: a whole image under another name,   *)
(* no file, or boot.bin itself.                                            *)
Files == {"image", "missing", "boot.bin"}

VARIABLES
  pc,        \* where the processor is
  bootBin,   \* what is on the card as boot.bin
  file,      \* the parameter of Reboot
  copied,    \* chunks read and written
  lost,      \* a write was cut short and nobody looked
  opened,    \* boot.bin is open for writing
  spared     \* history: since Reboot no call has failed and power has held

bootVars == <<pc, bootBin, file, copied, lost, opened, spared>>
allVars == <<vars, bootVars>>

Points == {"rom", "dead", "start", "ready",
           "unlink", "open", "create", "copy", "close", "reset", "fault"}

Rebooting == {"unlink", "open", "create", "copy", "close", "reset"}

Goto(p) == pc' = p

-----------------------------------------------------------------------------
(* Start-up.                                                               *)

Rom ==
  /\ pc = "rom"
  /\ Goto(IF bootBin \in {"old", "new"} THEN "start" ELSE "dead")
  /\ UNCHANGED <<vars, bootBin, file, copied, lost, opened, spared>>

StartRadio ==
  /\ pc = "start"
  /\ Initialize
  /\ Goto("ready")
  /\ UNCHANGED <<bootBin, file, copied, lost, opened, spared>>

Command ==
  /\ pc = "ready"
  /\ \E n \in plan : \E text \in Typed[n[1]] \cup {Junk} : SetParam(n, text)
  /\ UNCHANGED bootVars

(* Nothing the processor and the transceiver held outlives a reset.        *)
SwitchedOff ==
  /\ radio' = "off"
  /\ held' = Fresh
  /\ cache' = FreshCopies
  /\ manual' = FALSE
  /\ reply' = NoReply
  /\ believed' = [n \in Names |-> Unset]
  /\ UNCHANGED plan

PowerCut ==
  /\ pc # "rom"
  /\ Goto("rom")
  /\ SwitchedOff
  /\ opened' = FALSE
  /\ spared' = FALSE
  /\ UNCHANGED <<bootBin, file, copied, lost>>

-----------------------------------------------------------------------------
(* The command Reboot.                                                     *)

(* Without a parameter: the reset alone.                                   *)
RebootPlain ==
  /\ pc \in {"start", "ready"}
  /\ \E c \in Channels : <<"Reboot", c>> \in plan
  /\ Goto("reset")
  /\ UNCHANGED <<vars, bootBin, file, copied, lost, opened, spared>>

RebootWith(f) ==
  /\ pc \in {"start", "ready"}
  /\ \E c \in Channels : <<"Reboot", c>> \in plan
  /\ Goto("unlink")
  /\ file' = f
  /\ copied' = 0
  /\ lost' = FALSE
  /\ spared' = TRUE
  /\ UNCHANGED <<vars, bootBin, opened>>

(* A call that fails ends the block of the do-while.                       *)
GiveUp ==
  /\ Goto("close")
  /\ spared' = FALSE
  /\ UNCHANGED <<vars, bootBin, file, copied, lost, opened>>

Unlink ==
  /\ pc = "unlink"
  /\ \/ /\ bootBin # "none"
        /\ bootBin' = "none"
        /\ Goto("open")
        /\ UNCHANGED <<vars, file, copied, lost, opened, spared>>
     \/ GiveUp

(* The old image is gone when the new one is looked for.                   *)
OpenImage ==
  /\ pc = "open"
  /\ \/ /\ file = "image"
        /\ Goto("create")
        /\ UNCHANGED <<vars, bootBin, file, copied, lost, opened, spared>>
     \/ GiveUp

CreateBoot ==
  /\ pc = "create"
  /\ \/ /\ bootBin' = "torn"
        /\ opened' = TRUE
        /\ Goto("copy")
        /\ UNCHANGED <<vars, file, copied, lost, spared>>
     \/ GiveUp

CopyChunk_OneShort ==
  /\ pc = "copy"
  /\ \/ /\ copied < Chunks - 1
        /\ copied' = copied + 1
        /\ UNCHANGED <<vars, pc, bootBin, file, lost, opened, spared>>
     \/ copied < Chunks /\ GiveUp
     \/ /\ copied = Chunks - 1
        /\ Goto("close")
        /\ UNCHANGED <<vars, bootBin, file, copied, lost, opened, spared>>

CopyChunk_StartsOver ==
  /\ pc = "copy"
  /\ \/ /\ copied < Chunks
        /\ copied' \in {0, copied + 1}
        /\ spared' = FALSE
        /\ UNCHANGED <<vars, pc, bootBin, file, lost, opened>>
     \/ /\ copied = Chunks
        /\ Goto("close")
        /\ UNCHANGED <<vars, bootBin, file, copied, lost, opened, spared>>

(* One turn of the loop.  A read or a write that fails leaves only the     *)
(* loop; on a full card a write succeeds with less than it was given, and  *)
(* the count is not looked at.                                             *)
CopyChunk ==
  /\ pc = "copy"
  /\ \/ /\ copied < Chunks
        /\ copied' = copied + 1
        /\ \/ UNCHANGED <<lost, spared>>
           \/ lost' = TRUE /\ spared' = FALSE
        /\ UNCHANGED <<vars, pc, bootBin, file, opened>>
     \/ copied < Chunks /\ GiveUp
     \/ /\ copied = Chunks
        /\ Goto("close")
        /\ UNCHANGED <<vars, bootBin, file, copied, lost, opened, spared>>

(* f_sync and f_close.  When boot.bin was never opened they are given a    *)
(* file object nobody has initialised, and may bring the processor down.   *)
CloseBoot ==
  /\ pc = "close"
  /\ \/ /\ opened
        /\ bootBin' = IF copied = Chunks /\ ~ lost THEN "new" ELSE "torn"
        /\ Goto("reset")
        /\ UNCHANGED spared
     \/ /\ opened
        /\ Goto("reset")
        /\ spared' = FALSE
        /\ UNCHANGED bootBin
     \/ /\ ~ opened
        /\ Goto("reset") \/ Goto("fault")
        /\ UNCHANGED <<bootBin, spared>>
  /\ opened' = FALSE
  /\ UNCHANGED <<vars, file, copied, lost>>

Reset ==
  /\ pc = "reset"
  /\ Goto("rom")
  /\ SwitchedOff
  /\ UNCHANGED <<bootBin, file, copied, lost, opened, spared>>

RebootStep ==
  Unlink \/ OpenImage \/ CreateBoot \/ CopyChunk \/ CloseBoot \/ Reset

-----------------------------------------------------------------------------

BootInit ==
  /\ Init
  /\ pc = "rom"
  /\ bootBin = "old"
  /\ file = "image"
  /\ copied = 0
  /\ lost = FALSE
  /\ opened = FALSE
  /\ spared = FALSE

BootNext ==
  \/ Rom \/ StartRadio \/ Command \/ PowerCut
  \/ RebootPlain \/ (\E f \in Files : RebootWith(f)) \/ RebootStep

(* The command task runs, and the calls it makes return.                   *)
BootSpec ==
  /\ BootInit
  /\ [][BootNext]_allVars
  /\ WF_allVars(RebootStep)

-----------------------------------------------------------------------------
(* Properties.                                                             *)

BootTypeOK ==
  /\ TypeOK
  /\ pc \in Points
  /\ bootBin \in Images
  /\ file \in Files
  /\ copied \in 0 .. Chunks
  /\ lost \in BOOLEAN
  /\ opened \in BOOLEAN
  /\ spared \in BOOLEAN
  /\ pc \in {"rom", "dead", "start"} => radio = "off"

(* A Reboot with a whole image under another name, in which no call fails  *)
(* and no power is lost, starts that image, and all of it.  Only a name    *)
(* that is not there or boot.bin itself, a failure or a power cut can cost *)
(* the board its image (rflan_cli.c:226-310).                              *)
SafeReboot ==
  pc = "rom" /\ spared /\ file = "image" => bootBin = "new"

(* How many steps Reboot has left at most: one per call, one per chunk and *)
(* one for the end of the file.                                            *)
RebootLeft ==
  CASE pc = "unlink" -> Chunks + 6
    [] pc = "open"   -> Chunks + 5
    [] pc = "create" -> Chunks + 4
    [] pc = "copy"   -> Chunks - copied + 3
    [] pc = "close"  -> 2
    [] pc = "reset"  -> 1
    [] OTHER         -> 0

(* Whatever fails, a Reboot that has begun does nothing twice and nothing  *)
(* comes in between: after at most one step per call and per chunk it has  *)
(* reset the processor or brought it down (rflan_cli.c:226-310).           *)
RebootComesCloser == [][(pc \in Rebooting) => RebootLeft' < RebootLeft]_allVars

(* Reboot ends in a reset, unless the processor falls over an object that  *)
(* was never initialised (rflan_cli.c:299-309).                            *)
RebootEnds == pc \in Rebooting ~> pc \in {"rom", "fault"}
=============================================================================
