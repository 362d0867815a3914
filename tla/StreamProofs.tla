---------------------------- MODULE StreamProofs ----------------------------
(***************************************************************************)
(* What streaming guarantees for any channels, any length of the event     *)
(* queue and any number of commands.                                       *)
(*                                                                         *)
(* That completions are neither lost nor invented rests on two facts about *)
(* the engines and the queue (Counted): a channel whose engine runs has no *)
(* completion pending, and a full queue has been seen.  That a status is   *)
(* true rests on what each step of a Start has told the driver (Asking),   *)
(* that samples are the same on what the flush of a Start leaves of a      *)
(* cache line that nobody has used since (Clean).                          *)
(***************************************************************************)
EXTENDS Stream, FiniteSetTheorems, SequenceTheorems, TLAPS

-----------------------------------------------------------------------------
(* Counting events in the queue.                                           *)

LEMMA PlacesFinite ==
  ASSUME NEW s \in Seq(Channels), NEW c
  PROVE  IsFiniteSet(Places(s, c)) /\ Cardinality(Places(s, c)) \in Nat
<1>1. Len(s) \in Nat
  BY LenProperties
<1>2. IsFiniteSet(1 .. Len(s))
  BY <1>1, FS_Interval
<1>3. Places(s, c) \in SUBSET (1 .. Len(s))
  BY DEF Places
<1> QED
  BY <1>2, <1>3, FS_Subset, FS_CardinalityType

LEMMA PlacesAppend ==
  ASSUME NEW s \in Seq(Channels), NEW c, NEW d \in Channels
  PROVE  Cardinality(Places(Append(s, d), c)) =
           Cardinality(Places(s, c)) + IF c = d THEN 1 ELSE 0
<1>1. /\ Len(Append(s, d)) = Len(s) + 1 /\ Len(s) \in Nat
      /\ Append(s, d)[Len(s) + 1] = d
      /\ \A i \in 1 .. Len(s) : Append(s, d)[i] = s[i]
  BY AppendProperties, LenProperties
<1>2. Places(Append(s, d), c) = Places(s, c) \cup IF c = d THEN {Len(s) + 1} ELSE {}
  BY <1>1 DEF Places
<1>3. Len(s) + 1 \notin Places(s, c)
  BY <1>1 DEF Places
<1>4. IsFiniteSet(Places(s, c)) /\ Cardinality(Places(s, c)) \in Nat
  BY PlacesFinite
<1>5. CASE c = d
  BY <1>2, <1>3, <1>4, <1>5, FS_AddElement
<1>6. CASE c # d
  <2>1. Places(Append(s, d), c) = Places(s, c)
    BY <1>2, <1>6
  <2> QED
    BY <1>4, <1>6, <2>1
<1> QED
  BY <1>5, <1>6

LEMMA PlacesTail ==
  ASSUME NEW s \in Seq(Channels), s # <<>>, NEW c
  PROVE  Cardinality(Places(s, c)) =
           Cardinality(Places(Tail(s), c)) + IF c = Head(s) THEN 1 ELSE 0
<1> DEFINE P == Places(s, c) \ {1}
           Q == Places(Tail(s), c)
           f == [i \in P |-> i - 1]
<1>1. /\ Len(s) \in Nat \ {0} /\ Len(Tail(s)) = Len(s) - 1 /\ Tail(s) \in Seq(Channels)
      /\ Head(s) = s[1] /\ \A i \in 1 .. Len(s) - 1 : Tail(s)[i] = s[i + 1]
  BY HeadTailProperties, LenProperties, EmptySeq
<1>2. /\ IsFiniteSet(Places(s, c)) /\ IsFiniteSet(Q)
      /\ Cardinality(Places(s, c)) \in Nat /\ Cardinality(Q) \in Nat
  BY <1>1, PlacesFinite
<1>3. P \subseteq 2 .. Len(s)
  BY <1>1 DEF Places
<1>4. f \in Bijection(P, Q)
  <2>1. f \in [P -> Q]
    BY <1>1 DEF Places
  <2>2. \A i, j \in P : f[i] = f[j] => i = j
    BY <1>3
  <2>3. ASSUME NEW q \in Q PROVE \E i \in P : f[i] = q
    <3>1. q \in 1 .. Len(s) - 1 /\ s[q + 1] = c
      BY <1>1 DEF Places
    <3>2. q + 1 \in P
      BY <1>1, <3>1 DEF Places
    <3> QED
      BY <3>1, <3>2
  <2> QED
    BY <2>1, <2>2, <2>3 DEF Bijection, Injection, Surjection, IsInjective
<1>5. /\ IsFiniteSet(P)
      /\ 1 \in Places(s, c) => Cardinality(P) = Cardinality(Places(s, c)) - 1
      /\ 1 \notin Places(s, c) => Cardinality(P) = Cardinality(Places(s, c))
  <2> DEFINE S == Places(s, c)
  <2>1. IsFiniteSet(S)
    BY <1>2
  <2> HIDE DEF S
  <2>2. /\ IsFiniteSet(S \ {1})
        /\ Cardinality(S \ {1}) = IF 1 \in S THEN Cardinality(S) - 1 ELSE Cardinality(S)
    BY <2>1, FS_RemoveElement
  <2> QED
    BY <2>2 DEF S
<1>6. Cardinality(Q) = Cardinality(P)
  BY <1>4, <1>5, FS_Bijection DEF ExistsBijection
<1>7. 1 \in Places(s, c) <=> c = Head(s)
  BY <1>1 DEF Places
<1> HIDE DEF P, Q
<1>8. Cardinality(Places(Tail(s), c)) = Cardinality(P)
  BY <1>6 DEF Q
<1>9. CASE c = Head(s)
  BY <1>2, <1>5, <1>7, <1>8, <1>9 DEF Q
<1>10. CASE c # Head(s)
  BY <1>2, <1>5, <1>7, <1>8, <1>10 DEF Q
<1> QED
  BY <1>9, <1>10

-----------------------------------------------------------------------------
(* The inductive invariant.                                                *)

Reported(c) ==
  /\ told[c] + OnItsWay(c) <= done[c]
  /\ told[c] + OnItsWay(c) = done[c] \/ wasFull

Counted ==
  \A c \in Channels : /\ engine[c].busy => "eot" \notin irq[c]
                      /\ Reported(c)

Asking ==
  /\ pc \in {"cyclic", "count", "start", "key"} => op = "start" /\ status = "ok"
  /\ pc \in {"unkey", "halt"} => op = "stop"
  /\ pc = "count" => dma[ch].cyclic = asked.cyclic
  /\ pc = "start" => dma[ch] = asked
  /\ pc \in {"key", "idle"} /\ op = "start" /\ status = "ok" =>
       engine[ch].request = asked /\ (engine[ch].busy \/ ~asked.cyclic)
  /\ pc = "idle" /\ op = "stop" /\ status = "ok" => ~engine[ch].busy

Clean ==
  \A c \in Channels :
    /\ ~touched[c] => buffer[c].cache = "none" /\ ~buffer[c].dirty
    /\ c \in TxChannels => /\ buffer[c].dirty => buffer[c].cache = "new"
                           /\ buffer[c].fresh \/ buffer[c].dirty

StreamInv == TypeOK /\ Counted /\ Asking /\ Clean

-----------------------------------------------------------------------------
(* What the updates of the records leave.                                  *)

LEMMA BusyUpdate ==
  ASSUME NEW r \in Engine, NEW v \in BOOLEAN
  PROVE  LET q == [r EXCEPT !.busy = v]
         IN  q \in Engine /\ q.busy = v /\ q.request = r.request
  BY Zenon DEF Engine

LEMMA CyclicUpdate ==
  ASSUME NEW r \in Request, NEW v \in BOOLEAN
  PROVE  LET q == [r EXCEPT !.cyclic = v]
         IN  q \in Request /\ q.cyclic = v /\ q.cnt = r.cnt
  BY Zenon DEF Request

LEMMA CntUpdate ==
  ASSUME NEW r \in Request, NEW v \in Counts
  PROVE  LET q == [r EXCEPT !.cnt = v]
         IN  q \in Request /\ q.cnt = v /\ q.cyclic = r.cyclic
  BY Zenon DEF Request

LEMMA CacheUpdate ==
  ASSUME NEW b \in Buffer, NEW v \in {"none", "new", "old"}
  PROVE  LET q == [b EXCEPT !.cache = v]
         IN  q \in Buffer /\ q.cache = v /\ q.fresh = b.fresh /\ q.dirty = b.dirty
  BY Zenon DEF Buffer

LEMMA FreshUpdate ==
  ASSUME NEW b \in Buffer, NEW v \in BOOLEAN
  PROVE  LET q == [b EXCEPT !.fresh = v]
         IN  q \in Buffer /\ q.fresh = v /\ q.cache = b.cache /\ q.dirty = b.dirty
  BY Zenon DEF Buffer

LEMMA SameRequest ==
  ASSUME NEW r \in Request, NEW s \in Request, r.cyclic = s.cyclic, r.cnt = s.cnt
  PROVE  r = s
  BY DEF Request

LEMMA Captured ==
  ASSUME NEW b \in Buffer
  PROVE  /\ Capture(b) \in Buffer /\ Capture(b).dirty = b.dirty
         /\ b.cache = "none" => Capture(b).cache = "none"
<1> DEFINE up == [b EXCEPT !.fresh = TRUE]
           v == IF up.cache = "new" THEN "old" ELSE up.cache
           w == [up EXCEPT !.cache = v]
<1>1. up \in Buffer /\ up.cache = b.cache /\ up.dirty = b.dirty
  BY FreshUpdate
<1>2. Capture(b) = w
  BY Zenon DEF Capture
<1>3. v \in {"none", "new", "old"} /\ (b.cache = "none" => v = "none")
  BY <1>1 DEF Buffer
<1> HIDE DEF up, v
<1>4. w \in Buffer /\ w.cache = v /\ w.dirty = up.dirty
  BY <1>1, <1>3, CacheUpdate
<1> HIDE DEF w
<1> QED
  BY <1>1, <1>2, <1>3, <1>4

LEMMA Flushed ==
  ASSUME NEW b \in Buffer
  PROVE  /\ WrittenBack(b) \in Buffer
         /\ WrittenBack(b).cache = "none" /\ ~WrittenBack(b).dirty
         /\ (b.dirty => b.cache = "new") /\ (b.fresh \/ b.dirty) => WrittenBack(b).fresh
  BY DEF WrittenBack, Buffer

(* A step that only stops the engine of a channel. *)
Halted(c) ==
  /\ engine' \in [Channels -> Engine]
  /\ ~engine'[c].busy
  /\ \A d \in Channels : /\ engine'[d].request = engine[d].request
                         /\ d # c => engine'[d] = engine[d]

LEMMA StopHalts ==
  ASSUME TypeOK, NEW c \in Channels, engine' = [engine EXCEPT ![c].busy = FALSE]
  PROVE  Halted(c)
<1> DEFINE e == [engine[c] EXCEPT !.busy = FALSE]
<1>1. engine \in [Channels -> Engine]
  BY DEF TypeOK
<1>2. e \in Engine /\ e.busy = FALSE /\ e.request = engine[c].request
  BY <1>1, BusyUpdate
<1>3. engine' = [engine EXCEPT ![c] = e]
  BY Zenon
<1> HIDE DEF e
<1> QED
  BY <1>1, <1>2, <1>3 DEF Halted

-----------------------------------------------------------------------------
(* Types.                                                                  *)

LEMMA InitTypes == Init => TypeOK
<1> SUFFICES ASSUME Init PROVE TypeOK
  OBVIOUS
<1>1. Idle \in Engine /\ Idle.request \in Request
  BY StreamAssumption DEF Idle, Engine, Request
<1>2. [fresh |-> TRUE, cache |-> "none", dirty |-> FALSE] \in Buffer
  BY DEF Buffer
<1>3. /\ engine \in [Channels -> Engine] /\ irq \in [Channels -> SUBSET Sources]
      /\ dma \in [Channels -> Request] /\ buffer \in [Channels -> Buffer]
      /\ touched \in [Channels -> BOOLEAN]
  BY <1>1, <1>2 DEF Init
<1>4. events \in Seq(Channels) /\ Len(events) <= QueueSize
  BY StreamAssumption, EmptySeq DEF Init
<1>5. wasFull \in BOOLEAN
  BY Zenon DEF Init
<1>6. /\ done \in [Channels -> Nat] /\ told \in [Channels -> Nat]
      /\ op \in {"none", "start", "stop"} /\ ch \in Channels /\ asked \in Request
      /\ pc \in {"idle", "cyclic", "count", "start", "key", "unkey", "halt"}
      /\ status \in {"ok", "err"} /\ calls \in 0..MaxCalls
  BY <1>1, StreamAssumption DEF Init
<1> QED
  BY <1>3, <1>4, <1>5, <1>6 DEF TypeOK

LEMMA TypesKept == TypeOK /\ [Next]_vars => TypeOK'
<1> SUFFICES ASSUME TypeOK, [Next]_vars PROVE TypeOK'
  OBVIOUS
<1> USE DEF TypeOK, command, counters
<1>1. ASSUME NEW c \in Channels, Complete(c) PROVE TypeOK'
  <2>1. engine' \in [Channels -> Engine]
    BY <1>1, StopHalts DEF Complete, Halted
  <2>2. buffer' \in [Channels -> Buffer]
    BY <1>1, Captured DEF Complete
  <2>3. irq' \in [Channels -> SUBSET Sources]
    BY <1>1 DEF Complete, Sources
  <2> QED
    BY <1>1, <2>1, <2>2, <2>3 DEF Complete
<1>2. ASSUME NEW c \in Channels, Evict(c) PROVE TypeOK'
  BY <1>2, Flushed DEF Evict
<1>3. ASSUME NEW c \in Channels, Handler(c) PROVE TypeOK'
  <2>1. events' \in Seq(Channels) /\ Len(events') <= QueueSize
    <3>1. CASE events' = events
      BY <3>1
    <3>2. CASE Len(events) < QueueSize /\ events' = Append(events, c)
      BY <3>2, AppendProperties, LenProperties, StreamAssumption
    <3> QED
      BY <1>3, <3>1, <3>2 DEF Handler
  <2>2. wasFull' \in BOOLEAN
    BY <1>3, Zenon DEF Handler
  <2> QED
    BY <1>3, <2>1, <2>2 DEF Handler
<1>4. CASE Report
  <2>1. events' \in Seq(Channels) /\ Len(events') <= QueueSize /\ Head(events) \in Channels
    BY <1>4, HeadTailProperties, LenProperties, StreamAssumption DEF Report
  <2> QED
    BY <1>4, <2>1, SMTT(90) DEF Report
<1>5. ASSUME NEW c \in Channels, StreamStart(c) \/ StreamStop(c) PROVE TypeOK'
  BY <1>5, StreamAssumption DEF StreamStart, StreamStop, Begin
<1>6. CASE SetCyclic
  <2>1. engine' \in [Channels -> Engine]
    BY <1>6, StopHalts DEF SetCyclic, Stopped, Halted
  <2> DEFINE q == [dma[ch] EXCEPT !.cyclic = asked.cyclic]
  <2>2. q \in Request
    BY CyclicUpdate DEF Request
  <2>3. dma' = [dma EXCEPT ![ch] = q]
    BY <1>6, Zenon DEF SetCyclic
  <2> HIDE DEF q
  <2>4. dma' \in [Channels -> Request]
    BY <2>2, <2>3
  <2> QED
    BY <1>6, <2>1, <2>4 DEF SetCyclic
<1>7. CASE SetSampleCnt
  <2>1. engine' \in [Channels -> Engine]
    BY <1>7, StopHalts DEF SetSampleCnt, Stopped, Halted
  <2> DEFINE q == [dma[ch] EXCEPT !.cnt = asked.cnt]
  <2>2. q \in Request
    BY CntUpdate DEF Request
  <2>3. dma' = [dma EXCEPT ![ch] = q]
    BY <1>7, Zenon DEF SetSampleCnt
  <2> HIDE DEF q
  <2>4. dma' \in [Channels -> Request]
    BY <2>2, <2>3
  <2> QED
    BY <1>7, <2>1, <2>4 DEF SetSampleCnt
<1>8. CASE StartTransfer
  <2>1. buffer' \in [Channels -> Buffer]
    BY <1>8, Flushed DEF StartTransfer
  <2>2. CASE engine' = Stopped /\ pc' = "idle" /\ status' = "err" /\ UNCHANGED <<irq, touched>>
    <3>1. engine' \in [Channels -> Engine]
      BY <2>2, StopHalts DEF Stopped, Halted
    <3> QED
      BY <1>8, <2>1, <2>2, <3>1 DEF StartTransfer
  <2>3. CASE /\ engine' = [engine EXCEPT ![ch] = [busy |-> TRUE, request |-> dma[ch]]]
             /\ irq' = [irq EXCEPT ![ch] = @ \cup {"sot"}]
             /\ touched' = [touched EXCEPT ![ch] = FALSE]
             /\ pc' = "key" /\ UNCHANGED status
    <3>1. [busy |-> TRUE, request |-> dma[ch]] \in Engine
      BY DEF Engine
    <3>2. engine' \in [Channels -> Engine]
      BY <2>3, <3>1
    <3>3. irq' \in [Channels -> SUBSET Sources] /\ touched' \in [Channels -> BOOLEAN]
      BY <2>3 DEF Sources
    <3> QED
      BY <1>8, <2>1, <2>3, <3>2, <3>3 DEF StartTransfer
  <2> QED
    BY <1>8, <2>2, <2>3 DEF StartTransfer
<1>9. CASE Key \/ Unkey
  BY <1>9 DEF Key, Unkey, Drive
<1>10. CASE Halt
  <2>1. engine' \in [Channels -> Engine]
    BY <1>10, StopHalts DEF Halt, Stopped, Halted
  <2> QED
    BY <1>10, <2>1 DEF Halt
<1>11. ASSUME NEW c \in Channels, BufGet(c) PROVE TypeOK'
  <2> DEFINE v == IF buffer[c].cache # "none" THEN buffer[c].cache
                  ELSE IF buffer[c].fresh THEN "new" ELSE "old"
             q == [buffer[c] EXCEPT !.cache = v]
  <2>1. v \in {"none", "new", "old"}
    BY DEF Buffer
  <2>2. buffer' = [buffer EXCEPT ![c] = q]
    BY <1>11, Zenon DEF BufGet
  <2> HIDE DEF v
  <2>3. q \in Buffer
    BY <2>1, CacheUpdate
  <2> HIDE DEF q
  <2>4. buffer' \in [Channels -> Buffer] /\ touched' \in [Channels -> BOOLEAN]
    BY <1>11, <2>2, <2>3 DEF BufGet, Use
  <2> QED
    BY <1>11, <2>4 DEF BufGet, Use
<1>12. ASSUME NEW c \in Channels, BufPut(c) PROVE TypeOK'
  <2>1. [fresh |-> FALSE, cache |-> "new", dirty |-> TRUE] \in Buffer
    BY DEF Buffer
  <2> QED
    BY <1>12, <2>1 DEF BufPut, Use
<1>13. CASE UNCHANGED vars
  BY <1>13 DEF vars
<1> QED
  BY <1>1, <1>2, <1>3, <1>4, <1>5, <1>6, <1>7, <1>8, <1>9, <1>10, <1>11, <1>12, <1>13
  DEF Next, Call

-----------------------------------------------------------------------------
(* Completions.                                                            *)

Numbers ==
  \A c \in Channels :
    /\ Queued(c) \in Nat /\ OnItsWay(c) \in Nat /\ told[c] \in Nat /\ done[c] \in Nat
    /\ "eot" \in irq[c] => OnItsWay(c) = Queued(c) + 1
    /\ "eot" \notin irq[c] => OnItsWay(c) = Queued(c)

LEMMA CountsAreNumbers == TypeOK => Numbers
<1> SUFFICES ASSUME TypeOK, NEW c \in Channels PROVE Queued(c) \in Nat
  BY DEF Numbers, OnItsWay, TypeOK
<1> QED
  BY PlacesFinite DEF TypeOK, Queued

LEMMA CountsAreNumbersNext == TypeOK' => Numbers'
  BY CountsAreNumbers, PTL

(* A step that neither completes a transfer nor handles its completion. *)
Quiet ==
  /\ UNCHANGED <<events, counters>>
  /\ \A c \in Channels : /\ "eot" \in irq'[c] <=> "eot" \in irq[c]
                         /\ engine'[c].busy => engine[c].busy \/ "eot" \notin irq[c]

LEMMA QuietKeepsCount == TypeOK /\ TypeOK' /\ Counted /\ Quiet => Counted'
<1> SUFFICES ASSUME TypeOK, TypeOK', Counted, Quiet, NEW c \in Channels
             PROVE  /\ engine'[c].busy => "eot" \notin irq'[c]
                    /\ Reported(c)'
  BY DEF Counted
<1>1. Queued(c)' = Queued(c)
  BY DEF Quiet, Queued
<1>2. OnItsWay(c)' = OnItsWay(c)
  BY <1>1, CountsAreNumbers, CountsAreNumbersNext DEF Quiet, Numbers
<1>3. told'[c] = told[c] /\ done'[c] = done[c] /\ wasFull' = wasFull
  BY DEF Quiet, counters
<1>4. Reported(c)'
  BY <1>2, <1>3 DEF Reported, Counted
<1> QED
  BY <1>4 DEF Quiet, Counted

LEMMA CompleteCounts ==
  ASSUME TypeOK, TypeOK', Counted, NEW c \in Channels, Complete(c)
  PROVE  Counted'
<1> SUFFICES ASSUME NEW d \in Channels
             PROVE  /\ engine'[d].busy => "eot" \notin irq'[d]
                    /\ Reported(d)'
  BY DEF Counted
<1>1. Halted(c)
  BY StopHalts DEF Complete
<1>2. Queued(d)' = Queued(d) /\ told'[d] = told[d] /\ wasFull' = wasFull
  BY DEF Complete, Queued
<1>3. CASE d = c
  <2>1. "eot" \notin irq[c] /\ "eot" \in irq'[c] /\ done'[c] = done[c] + 1
    BY DEF Complete, Counted, TypeOK
  <2>2. OnItsWay(c)' = OnItsWay(c) + 1
    BY <1>2, <1>3, <2>1, CountsAreNumbers, CountsAreNumbersNext DEF Numbers
  <2>3. Reported(c)'
    BY <1>2, <1>3, <2>1, <2>2, CountsAreNumbers DEF Reported, Counted, Numbers
  <2> QED
    BY <1>1, <1>3, <2>3 DEF Halted
<1>4. CASE d # c
  <2>1. irq'[d] = irq[d] /\ done'[d] = done[d] /\ engine'[d] = engine[d]
    BY <1>1, <1>4 DEF Complete, Halted, TypeOK
  <2>2. OnItsWay(d)' = OnItsWay(d)
    BY <1>2, <2>1, CountsAreNumbers, CountsAreNumbersNext DEF Numbers
  <2> QED
    BY <1>2, <2>1, <2>2 DEF Reported, Counted
<1> QED
  BY <1>3, <1>4

(* A completion is queued, or lost because the queue is full. *)
LEMMA HandlerCounts ==
  ASSUME TypeOK, TypeOK', Counted, NEW c \in Channels, Handler(c)
  PROVE  Counted'
<1> SUFFICES ASSUME NEW d \in Channels
             PROVE  /\ engine'[d].busy => "eot" \notin irq'[d]
                    /\ Reported(d)'
  BY DEF Counted
<1>1. engine' = engine /\ told' = told /\ done' = done
  BY DEF Handler
<1>2. irq' = [irq EXCEPT ![c] = {}]
  BY DEF Handler
<1>3. "eot" \notin irq'[d] \/ d # c
  BY <1>2 DEF TypeOK
<1>4. d # c => irq'[d] = irq[d]
  BY <1>2 DEF TypeOK
<1>5. wasFull => wasFull'
  BY Zenon DEF Handler
<1>6. CASE "eot" \in irq[c] /\ Len(events) < QueueSize
  <2>1. events' = Append(events, c)
    BY <1>6 DEF Handler
  <2>2. Queued(d)' = Queued(d) + IF d = c THEN 1 ELSE 0
    BY <2>1, PlacesAppend DEF Queued, TypeOK
  <2>3. OnItsWay(d)' = OnItsWay(d)
    BY <1>3, <1>4, <1>6, <2>2, CountsAreNumbers, CountsAreNumbersNext DEF Numbers
  <2> QED
    BY <1>1, <1>3, <1>4, <1>5, <2>3 DEF Reported, Counted
<1>7. CASE "eot" \notin irq[c]
  <2>1. Queued(d)' = Queued(d)
    BY <1>7 DEF Handler, Queued
  <2>2. OnItsWay(d)' = OnItsWay(d)
    BY <1>3, <1>4, <1>7, <2>1, CountsAreNumbers, CountsAreNumbersNext DEF Numbers
  <2> QED
    BY <1>1, <1>3, <1>4, <1>5, <2>2 DEF Reported, Counted
<1>8. CASE Len(events) = QueueSize
  <2>1. events' = events
    BY <1>8, StreamAssumption DEF Handler
  <2>5. wasFull'
    BY <1>8, <2>1, Zenon DEF Handler
  <2>2. Queued(d)' = Queued(d)
    BY <2>1 DEF Queued
  <2>3. OnItsWay(d)' <= OnItsWay(d)
    BY <1>3, <1>4, <2>2, CountsAreNumbers, CountsAreNumbersNext DEF Numbers
  <2>4. told[d] + OnItsWay(d)' <= done[d]
    BY <2>3, CountsAreNumbers, CountsAreNumbersNext DEF Reported, Counted, Numbers
  <2> QED
    BY <1>1, <1>3, <1>4, <2>5, <2>4 DEF Reported, Counted
<1>9. Len(events) \in Nat /\ Len(events) <= QueueSize /\ QueueSize \in Nat
  BY LenProperties, StreamAssumption DEF TypeOK
<1> QED
  BY <1>6, <1>7, <1>8, <1>9

LEMMA ReportCounts == TypeOK /\ TypeOK' /\ Counted /\ Report => Counted'
<1> SUFFICES ASSUME TypeOK, TypeOK', Counted, Report, NEW d \in Channels
             PROVE  /\ engine'[d].busy => "eot" \notin irq'[d]
                    /\ Reported(d)'
  BY DEF Counted
<1>1. engine' = engine /\ irq' = irq /\ done' = done /\ wasFull' = wasFull
  BY DEF Report
<1>2. Queued(d) = Queued(d)' + IF d = Head(events) THEN 1 ELSE 0
  BY PlacesTail DEF Report, Queued, TypeOK
<1>3. told'[d] = told[d] + IF d = Head(events) THEN 1 ELSE 0
  BY SMTT(90) DEF Report, TypeOK
<1>4. told'[d] + OnItsWay(d)' = told[d] + OnItsWay(d)
  BY <1>1, <1>2, <1>3, CountsAreNumbers, CountsAreNumbersNext DEF Numbers
<1> QED
  BY <1>1, <1>4 DEF Reported, Counted

LEMMA CountedKept == TypeOK /\ TypeOK' /\ Counted /\ [Next]_vars => Counted'
<1> SUFFICES ASSUME TypeOK, TypeOK', Counted, [Next]_vars PROVE Counted'
  OBVIOUS
<1>1. ASSUME NEW c \in Channels, Evict(c) \/ StreamStart(c) \/ StreamStop(c) PROVE Quiet
  BY <1>1 DEF Evict, StreamStart, StreamStop, Begin, Quiet
<1>2. ASSUME NEW c \in Channels, BufGet(c) \/ BufPut(c) PROVE Quiet
  BY <1>2 DEF BufGet, BufPut, Use, Quiet
<1>3. ASSUME SetCyclic \/ SetSampleCnt \/ Halt PROVE Quiet
  <2>1. Halted(ch)
    BY <1>3, StopHalts DEF SetCyclic, SetSampleCnt, Halt, Stopped, TypeOK
  <2>2. irq' = irq /\ UNCHANGED <<events, counters>>
    BY <1>3 DEF SetCyclic, SetSampleCnt, Halt
  <2> QED
    BY <2>1, <2>2 DEF Quiet, Halted
<1>4. ASSUME StartTransfer PROVE Quiet
  <2>1. NoIrq /\ UNCHANGED <<events, counters>>
    BY <1>4 DEF StartTransfer
  <2>2. CASE irq' = [irq EXCEPT ![ch] = @ \cup {"sot"}]
    BY <2>1, <2>2 DEF Quiet, NoIrq, TypeOK
  <2>3. CASE irq' = irq
    BY <2>1, <2>3 DEF Quiet, NoIrq
  <2> QED
    BY <1>4, <2>2, <2>3 DEF StartTransfer
<1>5. ASSUME Key \/ Unkey PROVE Quiet
  BY <1>5 DEF Key, Unkey, Drive, Quiet
<1>6. ASSUME UNCHANGED vars PROVE Quiet
  BY <1>6 DEF vars, Quiet
<1> QED
  BY <1>1, <1>2, <1>3, <1>4, <1>5, <1>6, CompleteCounts, HandlerCounts, ReportCounts,
     QuietKeepsCount DEF Next, Call

-----------------------------------------------------------------------------
(* What a command has done so far.                                         *)

LEMMA AskingKept == TypeOK /\ Asking /\ [Next]_vars => Asking'
<1> SUFFICES ASSUME TypeOK, Asking, [Next]_vars PROVE Asking'
  OBVIOUS
<1> USE DEF command
<1>1. ASSUME NEW c \in Channels, Complete(c) PROVE Asking'
  <2>1. Halted(c) /\ ~engine[c].request.cyclic
    BY <1>1, StopHalts DEF Complete
  <2>2. ch \in Channels /\ UNCHANGED <<dma, command, pc>>
    BY <1>1 DEF Complete, TypeOK
  <2>3. CASE c = ch
    BY <2>1, <2>2, <2>3 DEF Asking, Halted
  <2>4. CASE c # ch
    <3>1. engine'[ch] = engine[ch]
      BY <2>1, <2>2, <2>4 DEF Halted
    <3> QED
      BY <2>2, <3>1 DEF Asking
  <2> QED
    BY <2>3, <2>4
<1>2. ASSUME NEW c \in Channels, Evict(c) \/ Handler(c) PROVE Asking'
  BY <1>2 DEF Evict, Handler, Asking
<1>3. ASSUME NEW c \in Channels, StreamStart(c) \/ StreamStop(c) PROVE Asking'
  BY <1>3 DEF StreamStart, StreamStop, Begin, Asking
<1>4. ASSUME NEW c \in Channels, BufGet(c) \/ BufPut(c) PROVE Asking'
  BY <1>4 DEF BufGet, BufPut, Use, Asking
<1>5. CASE SetCyclic
  <2> DEFINE q == [dma[ch] EXCEPT !.cyclic = asked.cyclic]
  <2>1. q.cyclic = asked.cyclic
    BY CyclicUpdate DEF TypeOK, Request
  <2>2. dma' = [dma EXCEPT ![ch] = q]
    BY <1>5, Zenon DEF SetCyclic
  <2> HIDE DEF q
  <2>3. dma'[ch].cyclic = asked.cyclic
    BY <2>1, <2>2 DEF TypeOK
  <2> QED
    BY <1>5, <2>3 DEF SetCyclic, Asking
<1>6. CASE SetSampleCnt
  <2> DEFINE q == [dma[ch] EXCEPT !.cnt = asked.cnt]
  <2>1. q \in Request /\ q.cnt = asked.cnt /\ q.cyclic = dma[ch].cyclic
    BY CntUpdate DEF TypeOK, Request
  <2>2. dma' = [dma EXCEPT ![ch] = q]
    BY <1>6, Zenon DEF SetSampleCnt
  <2> HIDE DEF q
  <2>3. q.cyclic = asked.cyclic
    BY <1>6, <2>1 DEF SetSampleCnt, Asking
  <2>4. dma'[ch] = asked
    BY <2>1, <2>2, <2>3, SameRequest DEF TypeOK
  <2> QED
    BY <1>6, <2>4 DEF SetSampleCnt, Asking
<1>7. CASE StartTransfer
  <2>1. CASE status' = "err" /\ pc' = "idle"
    BY <2>1 DEF Asking
  <2>2. CASE /\ engine' = [engine EXCEPT ![ch] = [busy |-> TRUE, request |-> dma[ch]]]
             /\ pc' = "key" /\ UNCHANGED status
    <3>1. engine'[ch].busy /\ engine'[ch].request = asked
      BY <1>7, <2>2 DEF StartTransfer, Asking, TypeOK
    <3> QED
      BY <1>7, <2>2, <3>1 DEF StartTransfer, Asking
  <2> QED
    BY <1>7, <2>1, <2>2 DEF StartTransfer
<1>8. CASE Key \/ Unkey
  BY <1>8 DEF Key, Unkey, Drive, Asking
<1>9. CASE Halt
  <2>1. ~engine'[ch].busy
    BY <1>9, StopHalts DEF Halt, Stopped, Halted, TypeOK
  <2> QED
    BY <1>9, <2>1 DEF Halt, Asking
<1>10. CASE Report
  BY <1>10 DEF Report, Asking
<1>11. CASE UNCHANGED vars
  BY <1>11 DEF vars, Asking
<1> QED
  BY <1>1, <1>2, <1>3, <1>4, <1>5, <1>6, <1>7, <1>8, <1>9, <1>10, <1>11 DEF Next, Call

-----------------------------------------------------------------------------
(* The sample buffers.                                                     *)

LEMMA CleanKept == TypeOK /\ Clean /\ [Next]_vars => Clean'
<1> SUFFICES ASSUME TypeOK, Clean, [Next]_vars PROVE Clean'
  OBVIOUS
<1> USE DEF TypeOK
<1>1. ASSUME NEW c \in Channels, Complete(c) PROVE Clean'
  BY <1>1, Captured DEF Complete, Clean
<1>2. ASSUME NEW c \in Channels, Evict(c) PROVE Clean'
  BY <1>2, Flushed DEF Evict, Clean
<1>3. CASE StartTransfer
  <2>1. \A c \in Channels : buffer'[c] = WrittenBack(buffer[c])
    BY <1>3 DEF StartTransfer
  <2> QED
    BY <2>1, Flushed DEF Clean
<1>4. ASSUME NEW c \in Channels, BufGet(c) PROVE Clean'
  <2> DEFINE v == IF buffer[c].cache # "none" THEN buffer[c].cache
                  ELSE IF buffer[c].fresh THEN "new" ELSE "old"
             q == [buffer[c] EXCEPT !.cache = v]
  <2>1. v \in {"none", "new", "old"} /\ (buffer[c].cache = "new" => v = "new")
    BY DEF Buffer
  <2>2. buffer' = [buffer EXCEPT ![c] = q] /\ touched' = [touched EXCEPT ![c] = TRUE]
    BY <1>4, Zenon DEF BufGet, Use
  <2> HIDE DEF v
  <2>3. q.cache = v /\ q.fresh = buffer[c].fresh /\ q.dirty = buffer[c].dirty
    BY <2>1, CacheUpdate
  <2> HIDE DEF q
  <2> QED
    BY <2>1, <2>2, <2>3 DEF Clean
<1>5. ASSUME NEW c \in Channels, BufPut(c) PROVE Clean'
  BY <1>5 DEF BufPut, Use, Clean
<1>6. ASSUME UNCHANGED <<buffer, touched>> PROVE Clean'
  BY <1>6 DEF Clean
<1> QED
  BY <1>1, <1>2, <1>3, <1>4, <1>5, <1>6
  DEF Next, Call, Report, StreamStart, StreamStop, Begin, Handler, SetCyclic,
      SetSampleCnt, Key, Unkey, Drive, Halt, vars

-----------------------------------------------------------------------------
LEMMA InitInv == Init => StreamInv
<1> SUFFICES ASSUME Init PROVE StreamInv
  OBVIOUS
<1>1. TypeOK
  BY InitTypes
<1>2. Counted
  <2> SUFFICES ASSUME NEW c \in Channels PROVE Reported(c)
    BY DEF Counted, Init
  <2>1. Places(<<>>, c) = {}
    BY DEF Places
  <2>2. Queued(c) = 0
    BY <2>1, FS_EmptySet DEF Init, Queued
  <2>3. OnItsWay(c) = 0
    BY <2>2 DEF Init, OnItsWay
  <2> QED
    BY <2>3 DEF Init, Reported
<1>3. Asking
  BY DEF Init, Asking
<1>4. Clean
  BY DEF Init, Clean
<1> QED
  BY <1>1, <1>2, <1>3, <1>4 DEF StreamInv

LEMMA InvKept == StreamInv /\ [Next]_vars => StreamInv'
  BY TypesKept, CountedKept, AskingKept, CleanKept DEF StreamInv

LEMMA Always == Spec => []StreamInv
  BY InitInv, InvKept, PTL DEF Spec

(* Every variable keeps its type and the event queue its length. *)
THEOREM TypeCorrect == Spec => []TypeOK
<1>1. StreamInv => TypeOK
  BY DEF StreamInv
<1> QED
  BY <1>1, Always, PTL

(* However completions, interrupts and the two tasks interleave, no        *)
(* transfer is reported twice and none that did not end.                   *)
THEOREM NoneInvented == Spec => []NoPhantomDone
<1>1. StreamInv => NoPhantomDone
  BY DEF StreamInv, Counted, Reported, NoPhantomDone
<1> QED
  BY <1>1, Always, PTL

(* And a transfer that ended is reported, or was lost to a full queue. *)
THEOREM NoneLost == Spec => []LostOnlyWhenFull
<1>1. StreamInv => LostOnlyWhenFull
  BY DEF StreamInv, Counted, Reported, LostOnlyWhenFull
<1> QED
  BY <1>1, Always, PTL

(* A stream command that says it succeeded left the engine as asked.       *)
THEOREM StatusIsKept == Spec => []StatusIsTrue
<1>1. StreamInv => StatusIsTrue
  BY DEF StreamInv, Asking, StatusIsTrue
<1> QED
  BY <1>1, Always, PTL

(* One flush per transfer is enough: the processor and the engines see the *)
(* same samples in every buffer the processor keeps off while it runs.     *)
THEOREM SamplesAgree == Spec => []SamplesCoherent
<1>1. StreamInv => SamplesCoherent
  BY DEF StreamInv, Clean, SamplesCoherent, TypeOK, Buffer
<1> QED
  BY <1>1, Always, PTL
=============================================================================
