-------------------------------- MODULE Stream --------------------------------
(***************************************************************************)
(* Streaming samples between memory and the radio: RflanStreamStart and    *)
(* RflanStreamStop on the command task, the four DMA engines, their        *)
(* interrupt handler, the event queue and the task that reports "Stream    *)
(* Done"; and the sample buffers, which the processor reads and writes     *)
(* through its cache while the engines do not.                             *)
(*                                                                         *)
(* The command task has priority over the event task, an interrupt over    *)
(* both: a task takes a step only when no interrupt is pending, the event  *)
(* task only when the command task waits for a command.  An engine runs on *)
(* its own.                                                                *)
(***************************************************************************)
EXTENDS Naturals, Sequences, FiniteSets

CONSTANTS
  Channels,      (* rflan_stream_channel_t                                 *)
  TxChannels,    (* those whose engine reads memory                        *)
  Counts,        (* sample counts a transfer may be asked for              *)
  InitialCount,  (* 4096                                                   *)
  QueueSize,     (* RFLAN_EVT_QUEUE_SIZE: 4                                *)
  MaxCalls       (* bound: the stream commands of a session                *)

ASSUME StreamAssumption ==
  /\ TxChannels \subseteq Channels
  /\ InitialCount \in Counts
  /\ QueueSize \in Nat \ {0}
  /\ MaxCalls \in Nat

VARIABLES
  engine,   (* per channel, the DMA engine: see Engine                     *)
  irq,      (* per channel, its IRQ_PENDING register                       *)
  dma,      (* per channel, the driver's copy of the request: see Request  *)
  buffer,   (* per channel, its sample buffer: see Buffer                  *)
  touched,  (* per channel, whether the processor used the buffer since    *)
            (* its last transfer was started (history)                     *)
  events,   (* RflanEvtQueue                                               *)
  op, ch, asked, pc, status,  (* the command: which, its channel and       *)
            (* request, where it is, what it returned                      *)
  calls,    (* commands so far                                             *)
  done,     (* per channel, transfers completed (history)                  *)
  told,     (* per channel, "Stream Done" printed (history)                *)
  wasFull   (* the event queue was full once (history)                     *)

command  == <<op, ch, asked, status, calls>>
counters == <<done, told, wasFull>>
vars == <<engine, irq, dma, buffer, touched, events, command, pc, counters>>

Request == [cyclic : BOOLEAN, cnt : Counts]
Engine  == [busy : BOOLEAN, request : Request]
Sources == {"sot", "eot"}

(* A buffer holds the newest samples in memory, in the cache, in both or,  *)
(* once overwritten by older ones, nowhere.                                *)
Buffer == [fresh : BOOLEAN,                   (* memory has the newest     *)
           cache : {"none", "new", "old"},    (* what the cache holds      *)
           dirty : BOOLEAN]                   (* and has to write back     *)

Idle == [busy |-> FALSE, request |-> [cyclic |-> FALSE, cnt |-> InitialCount]]

Init ==
  /\ engine = [c \in Channels |-> Idle]
  /\ irq = [c \in Channels |-> {}]
  /\ dma = [c \in Channels |-> Idle.request]
  /\ buffer = [c \in Channels |-> [fresh |-> TRUE, cache |-> "none", dirty |-> FALSE]]
  /\ touched = [c \in Channels |-> TRUE]
  /\ events = <<>>
  /\ op = "none" /\ ch \in Channels /\ asked = Idle.request /\ pc = "idle" /\ status = "ok"
  /\ calls = 0
  /\ done = [c \in Channels |-> 0] /\ told = [c \in Channels |-> 0] /\ wasFull = FALSE

NoIrq == \A c \in Channels : irq[c] = {}

-----------------------------------------------------------------------------
(* The engines, outside the processor.                                     *)

(* A one-shot transfer ends with an interrupt, a cyclic one never does.    *)
Capture(b) == [b EXCEPT !.fresh = TRUE, !.cache = IF @ = "new" THEN "old" ELSE @]

Complete(c) ==
  /\ engine[c].busy /\ ~engine[c].request.cyclic
  /\ engine' = [engine EXCEPT ![c].busy = FALSE]
  /\ irq' = [irq EXCEPT ![c] = @ \cup {"eot"}]
  /\ buffer' = IF c \in TxChannels THEN buffer ELSE [buffer EXCEPT ![c] = Capture(@)]
  /\ done' = [done EXCEPT ![c] = @ + 1]
  /\ UNCHANGED <<dma, touched, events, command, pc, told, wasFull>>

(* The cache gives a line up when it likes. *)
WrittenBack(b) == [fresh |-> IF b.dirty THEN b.cache = "new" ELSE b.fresh,
                   cache |-> "none", dirty |-> FALSE]

Evict(c) ==
  /\ buffer[c].cache # "none"
  /\ buffer' = [buffer EXCEPT ![c] = WrittenBack(@)]
  /\ UNCHANGED <<engine, irq, dma, touched, events, command, pc, counters>>

-----------------------------------------------------------------------------
(* The interrupt handler and the event task.                               *)

(* The source says start of transfer only if it does not say end of it;    *)
(* the callback drops the former.  An event that finds no room is lost.    *)
Handler_StartFirst(c) ==
  /\ irq[c] # {}
  /\ irq' = [irq EXCEPT ![c] = {}]
  /\ IF "sot" \notin irq[c] /\ Len(events) < QueueSize
     THEN events' = Append(events, c) ELSE UNCHANGED events
  /\ wasFull' = (wasFull \/ Len(events') = QueueSize)
  /\ UNCHANGED <<engine, dma, buffer, touched, command, pc, done, told>>

Handler_KeepsPending(c) ==
  /\ irq[c] # {}
  /\ irq' = [irq EXCEPT ![c] = @ \ {"sot"}]
  /\ IF "eot" \in irq[c] /\ Len(events) < QueueSize
     THEN events' = Append(events, c) ELSE UNCHANGED events
  /\ wasFull' = (wasFull \/ Len(events') = QueueSize)
  /\ UNCHANGED <<engine, dma, buffer, touched, command, pc, done, told>>

Handler_NoLimit(c) ==
  /\ irq[c] # {}
  /\ irq' = [irq EXCEPT ![c] = {}]
  /\ events' = IF "eot" \in irq[c] THEN Append(events, c) ELSE events
  /\ wasFull' = (wasFull \/ Len(events') = QueueSize)
  /\ UNCHANGED <<engine, dma, buffer, touched, command, pc, done, told>>

Handler(c) ==
  /\ irq[c] # {}
  /\ irq' = [irq EXCEPT ![c] = {}]
  /\ IF "eot" \in irq[c] /\ Len(events) < QueueSize
     THEN events' = Append(events, c) ELSE UNCHANGED events
  /\ wasFull' = (wasFull \/ Len(events') = QueueSize)
  /\ UNCHANGED <<engine, dma, buffer, touched, command, pc, done, told>>

Report_TxOnly ==
  /\ NoIrq /\ pc = "idle" /\ events # <<>>
  /\ told' = IF Head(events) \in TxChannels THEN [told EXCEPT ![Head(events)] = @ + 1] ELSE told
  /\ events' = Tail(events)
  /\ UNCHANGED <<engine, irq, dma, buffer, touched, command, pc, done, wasFull>>

Report ==
  /\ NoIrq /\ pc = "idle" /\ events # <<>>
  /\ told' = [told EXCEPT ![Head(events)] = @ + 1]
  /\ events' = Tail(events)
  /\ UNCHANGED <<engine, irq, dma, buffer, touched, command, pc, done, wasFull>>

-----------------------------------------------------------------------------
(* The commands.                                                           *)

Begin(o, c, at) ==
  /\ NoIrq /\ pc = "idle" /\ calls < MaxCalls
  /\ op' = o /\ ch' = c /\ pc' = at /\ status' = "ok" /\ calls' = calls + 1
  /\ UNCHANGED <<engine, irq, dma, buffer, touched, events, counters>>

StreamStart(c) ==
  /\ Begin("start", c, "cyclic")
  /\ asked' \in Request

StreamStop(c) ==
  /\ Begin("stop", c, "unkey")
  /\ UNCHANGED asked

Stopped == [engine EXCEPT ![ch].busy = FALSE]

SetCyclic ==
  /\ NoIrq /\ pc = "cyclic" /\ pc' = "count"
  /\ engine' = Stopped
  /\ dma' = [dma EXCEPT ![ch].cyclic = asked.cyclic]
  /\ UNCHANGED <<irq, buffer, touched, events, command, counters>>

SetSampleCnt ==
  /\ NoIrq /\ pc = "count" /\ pc' = "start"
  /\ engine' = Stopped
  /\ dma' = [dma EXCEPT ![ch].cnt = asked.cnt]
  /\ UNCHANGED <<irq, buffer, touched, events, command, counters>>

StartTransfer_NoFlush ==
  /\ NoIrq /\ pc = "start"
  /\ engine' = [engine EXCEPT ![ch] = [busy |-> TRUE, request |-> dma[ch]]]
  /\ irq' = [irq EXCEPT ![ch] = @ \cup {"sot"}]
  /\ touched' = [touched EXCEPT ![ch] = FALSE]
  /\ pc' = "key"
  /\ UNCHANGED <<dma, buffer, events, command, counters>>

(* The cache is flushed, all of it, and the engine given its request; one  *)
(* that still has a request refuses it.                                    *)
StartTransfer ==
  /\ NoIrq /\ pc = "start"
  /\ buffer' = [c \in Channels |-> WrittenBack(buffer[c])]
  /\ \/ /\ engine' = [engine EXCEPT ![ch] = [busy |-> TRUE, request |-> dma[ch]]]
        /\ irq' = [irq EXCEPT ![ch] = @ \cup {"sot"}]
        /\ touched' = [touched EXCEPT ![ch] = FALSE]
        /\ pc' = "key" /\ UNCHANGED status
     \/ /\ engine' = Stopped
        /\ pc' = "idle" /\ status' = "err"
        /\ UNCHANGED <<irq, touched>>
  /\ UNCHANGED <<dma, events, op, ch, asked, calls, counters>>

(* Adrv9001_ToRfEnabled and Adrv9001_ToPrimed, which may fail (see Radio); *)
(* the engine is what it was.                                              *)
Drive(next) ==
  /\ \/ pc' = next /\ UNCHANGED status
     \/ pc' = "idle" /\ status' = "err"
  /\ UNCHANGED <<engine, irq, dma, buffer, touched, events, op, ch, asked, calls, counters>>

Key == NoIrq /\ pc = "key" /\ Drive("idle")

Unkey_SkipsHalt == NoIrq /\ pc = "unkey" /\ Drive("idle")

Unkey == NoIrq /\ pc = "unkey" /\ Drive("halt")

Halt ==
  /\ NoIrq /\ pc = "halt" /\ pc' = "idle"
  /\ engine' = Stopped
  /\ UNCHANGED <<irq, dma, buffer, touched, events, command, counters>>

(* RflanStreamBufGet; RflanStreamBufPut and RflanStreamBufLoad. *)
Use(c) ==
  /\ NoIrq /\ pc = "idle"
  /\ touched' = [touched EXCEPT ![c] = TRUE]
  /\ UNCHANGED <<engine, irq, dma, events, command, pc, counters>>

BufGet(c) ==
  /\ Use(c)
  /\ buffer' = [buffer EXCEPT ![c].cache =
                  IF @ # "none" THEN @ ELSE IF buffer[c].fresh THEN "new" ELSE "old"]

BufPut(c) ==
  /\ Use(c)
  /\ buffer' = [buffer EXCEPT ![c] = [fresh |-> FALSE, cache |-> "new", dirty |-> TRUE]]

-----------------------------------------------------------------------------
Call == SetCyclic \/ SetSampleCnt \/ StartTransfer \/ Key \/ Unkey \/ Halt

Next == Call \/ Report
          \/ \E c \in Channels : \/ StreamStart(c) \/ StreamStop(c) \/ BufGet(c) \/ BufPut(c)
                                 \/ Complete(c) \/ Handler(c) \/ Evict(c)

(* Interrupts are taken, a command runs to its end, and the event task     *)
(* runs when nothing of higher priority does.  Nothing makes an engine     *)
(* finish: it stalls as long as the radio takes or gives no samples.       *)
Fairness ==
  /\ WF_vars(Call)
  /\ WF_vars(Report)
  /\ \A c \in Channels : WF_vars(Handler(c))

Spec == Init /\ [][Next]_vars /\ Fairness

-----------------------------------------------------------------------------
(* Types; the event queue stays within RFLAN_EVT_QUEUE_SIZE (rflan.c:590). *)
TypeOK ==
  /\ engine \in [Channels -> Engine]
  /\ irq \in [Channels -> SUBSET Sources]
  /\ dma \in [Channels -> Request]
  /\ buffer \in [Channels -> Buffer]
  /\ touched \in [Channels -> BOOLEAN]
  /\ events \in Seq(Channels) /\ Len(events) <= QueueSize
  /\ op \in {"none", "start", "stop"} /\ ch \in Channels /\ asked \in Request
  /\ pc \in {"idle", "cyclic", "count", "start", "key", "unkey", "halt"}
  /\ status \in {"ok", "err"} /\ calls \in 0..MaxCalls
  /\ done \in [Channels -> Nat] /\ told \in [Channels -> Nat] /\ wasFull \in BOOLEAN

Places(s, c) == {i \in 1 .. Len(s) : s[i] = c}

Queued(c) == Cardinality(Places(events, c))
OnItsWay(c) == Queued(c) + IF "eot" \in irq[c] THEN 1 ELSE 0

(* "Stream Done" is printed at most once per completed transfer, whatever  *)
(* is stopped, restarted or interrupted in between (axi_dma.c:61-84,       *)
(* rflan.c:136-154).                                                       *)
NoPhantomDone == \A c \in Channels : told[c] + OnItsWay(c) <= done[c]

(* A completion goes unreported only if the event queue was full: an       *)
(* interrupt that says start and end of transfer at once, or one that      *)
(* finds a command in progress, loses nothing (axi_dma.c:69-78).           *)
LostOnlyWhenFull == \A c \in Channels : told[c] + OnItsWay(c) = done[c] \/ wasFull

(* What a stream command reports is so: after a Start that succeeded the   *)
(* engine runs the request it was given, or has run it to the end, and     *)
(* after a Stop that succeeded no transfer of the channel is left, however *)
(* completions and interrupts fell in between (rflan_stream.c:170-217).    *)
StatusIsTrue ==
  pc = "idle" /\ status = "ok" =>
    /\ op = "stop"  => ~engine[ch].busy
    /\ op = "start" => /\ engine[ch].request = asked
                       /\ engine[ch].busy \/ ~asked.cyclic

(* An engine and the processor see the same samples.  What was put before  *)
(* a Start is what the engine sends, and what a receive transfer left is   *)
(* what the processor reads once it is done, provided the processor kept   *)
(* off the buffer in between: the cache is flushed at the start of a       *)
(* transfer and at no other time (axi_dma.c:275).                          *)
SamplesCoherent ==
  \A c \in Channels :
    /\ c \in TxChannels /\ engine[c].busy /\ ~touched[c] => buffer[c].fresh
    /\ c \notin TxChannels /\ ~engine[c].busy /\ ~touched[c] =>
         ~buffer[c].dirty /\ buffer[c].cache # "old"

(* Every completion is reported in the end, unless the queue was full: the *)
(* event task has the lowest priority, and needs the command task to pause *)
(* (rflan.h:61, cli.h:59, rflan.c:545-585).                                *)
DoneIsReported ==
  \A c \in Channels : done[c] > told[c] /\ ~wasFull ~> told[c] = done[c] \/ wasFull
=============================================================================
