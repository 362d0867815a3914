----------------------------- MODULE BootProofs -----------------------------
(***************************************************************************)
(* What power-up, start-up, the parameters and Reboot guarantee together,  *)
(* for any channels, any profiles, any numbers typed and images of any     *)
(* length, whatever fails and whenever power is cut.                       *)
(*                                                                         *)
(* First the parameters.  BeliefIsHeld is inductive together with the      *)
(* types, because whatever writes the place of a parameter either writes   *)
(* its copy too, or is not relied on, or takes the belief away.  Step says *)
(* all of what a command keeps and may do; each way of setting a parameter *)
(* is shown to be one.                                                     *)
(*                                                                         *)
(* Then the reboot.  It starts the new image because every step up to the  *)
(* reset keeps a part of what it needs; Copying says which part is there   *)
(* at each.                                                                *)
(***************************************************************************)
EXTENDS Boot, TLAPS

Hope == TypeOK /\ BeliefIsHeld

(* What is believed of one parameter. *)
BeliefOf(n) ==
  /\ believed[n] # Unset
  /\ InRange(n, believed[n])
  /\ Reported(n)
  => /\ Agrees(n, held[n], believed[n])
     /\ Shown(n) = IF n \in Copies THEN believed[n] ELSE held[n]

(* What a command may do to one parameter. *)
PartsOf(n) ==
  n \in Copies /\ Coherent(n) /\ ~ Coherent(n)' =>
    \/ Loading'
    \/ /\ reply'.name = n
       /\ n[1] \in Stored
       /\ reply'.status = "Error" \/ ~ InRange(n, cache'[n])

ChangesOf(n) ==
  held'[n] # held[n] =>
    \/ reply'.name = n
    \/ Loading' /\ Forgotten(n, TRUE)
    \/ Brings(reply'.name, n) /\ held'[n] = Sent(n[1], cache[n])

(* A place where a parameter may live, and what it may hold there. *)
MayHold(n, value) ==
  /\ value \in Int \cup {Unset}
  /\ n[1] = "TxAttn" => value \in (0 .. MaxAttn) \cup {Unset}
  /\ n[1] = "IqPath" => value \in 0 .. 7

Step == Hope' /\ PartsOnly /\ ChangesOnly

(* Nothing but n is written, and that by what it may hold. *)
HeldBut(n) ==
  /\ held' \in [Names -> Int \cup {Unset}] /\ MayHold(n, held'[n])
  /\ \A m \in Names \ {n} : held'[m] = held[m]

CacheBut(n) ==
  /\ cache' \in [Copies -> Nat]
  /\ \A m \in Copies \ {n} : cache'[m] = cache[m]

BelievedBut(n) ==
  /\ believed' \in [Names -> Int \cup {Unset}]
  /\ \A m \in Names \ {n} : believed'[m] = believed[m]

-----------------------------------------------------------------------------
(* Names.                                                                  *)

LEMMA NameOf ==
  ASSUME NEW n \in Commands \X Channels, n[1] \in Kinds
  PROVE  n \in Names /\ n = <<n[1], n[2]>>
  BY DEF Names

LEMMA AskedIs ==
  ASSUME TypeOK, NEW n, NEW kinds, Asked(n, kinds)
  PROVE  n \in Commands \X Channels /\ n[1] \in kinds /\ radio = "up"
  BY PlansAssumption DEF Asked, TypeOK

LEMMA KindsAre ==
  /\ Stored \subseteq Copied /\ Copied \subseteq Device /\ Device \subseteq Kinds
  /\ Dpd \subseteq Kinds /\ Counts \subseteq Kinds /\ Logic \subseteq Kinds
  /\ Carriers \subseteq Kinds /\ Copies \subseteq Names /\ Kinds \subseteq Commands
  BY DEF Stored, Carriers, Dpd, Counts, Logic, Device, Copied, Kinds, Copies, Names, Commands

LEMMA HeldTypes ==
  TypeOK => /\ held \in [Names -> Int \cup {Unset}]
            /\ \A n \in Names : MayHold(n, held[n])
<1> SUFFICES ASSUME TypeOK, NEW n \in Names PROVE MayHold(n, held[n])
  BY DEF TypeOK
<1>1. n[2] \in Channels /\ n = <<n[1], n[2]>> /\ held[n] \in Int \cup {Unset}
  BY DEF Names, TypeOK
<1>2. n[1] = "TxAttn" => held[n] \in (0 .. MaxAttn) \cup {Unset}
  BY <1>1 DEF TypeOK
<1>3. n[1] = "IqPath" => held[n] \in 0 .. 7
  BY <1>1 DEF TypeOK
<1> QED
  BY <1>1, <1>2, <1>3 DEF MayHold

-----------------------------------------------------------------------------
(* From a text to a number, and from an answer to a belief.                *)

LEMMA NarrowIs ==
  ASSUME NEW kind, NEW number \in Nat
  PROVE  Narrow(kind, number) \in Nat
<1>1. number % Byte \in Nat
  BY DEF Byte
<1> QED
  BY <1>1 DEF Narrow

LEMMA ScanIs ==
  ASSUME NEW kind \in Commands, NEW text \in Typed[kind] \cup {Junk}, NEW v \in Scan(kind, text)
  PROVE  v \in Nat /\ (text # Junk => v = Narrow(kind, text))
<1>1. Typed[kind] \subseteq Nat
  BY TypedAssumption
<1>2. CASE text = Junk
  BY <1>1, <1>2, NarrowIs DEF Scan
<1>3. CASE text # Junk
  BY <1>1, <1>3, NarrowIs DEF Scan
<1> QED
  BY <1>2, <1>3

LEMMA RemainderIs ==
  ASSUME NEW x \in Nat, NEW d \in Nat \ {0}
  PROVE  x % d \in 0 .. d - 1 /\ (x < d => x % d = x)
  OBVIOUS

LEMMA CutIs ==
  ASSUME NEW x \in Nat
  PROVE  x % HalfWord \in 0 .. HalfWord - 1 /\ (x < HalfWord => x % HalfWord = x)
<1>1. HalfWord \in Nat \ {0}
  BY DEF HalfWord
<1> QED
  BY <1>1, RemainderIs

LEMMA AttnWordIs ==
  ASSUME NEW mdB \in Nat, NEW w, w = AttnWord(mdB)
  PROVE  /\ w \in 0 .. HalfWord - 1
         /\ mdB < HalfWord => w \in {mdB - 1, mdB}
<1> DEFINE x == IF mdB \in Lossy THEN mdB - 1 ELSE mdB
<1>1. mdB \in Lossy => mdB % 125 # 0
  BY LossyAssumption
<1>2. x \in Nat /\ w = x % HalfWord /\ x \in {mdB, mdB - 1}
  BY <1>1 DEF AttnWord
<1> HIDE DEF x
<1>3. mdB < HalfWord => x < HalfWord
  BY <1>2 DEF HalfWord
<1>4. w \in 0 .. HalfWord - 1 /\ (x < HalfWord => w = x)
  BY <1>2, CutIs
<1> QED
  BY <1>2, <1>3, <1>4

LEMMA SentIs ==
  ASSUME NEW n \in Names, NEW v \in Nat, NEW w, w = Sent(n[1], v)
  PROVE  /\ w \in Nat
         /\ Takes(n[1], w) => MayHold(n, w)
         /\ InRange(n, v) => Agrees(n, w, v)
<1>1. CASE n[1] = "TxAttn"
  <2>1. w = AttnWord(v)
    BY <1>1 DEF Sent
  <2>2. w \in 0 .. HalfWord - 1 /\ (v < HalfWord => w \in {v - 1, v})
    BY <2>1, AttnWordIs
  <2>3. HalfWord \in Nat /\ 40000 < HalfWord /\ MaxAttn \in Nat
    BY DEF HalfWord, MaxAttn
  <2>4. w \in Nat /\ (v <= 40000 => w \in {v - 1, v})
    BY <2>2, <2>3
  <2>5. ASSUME Takes(n[1], w) PROVE MayHold(n, w)
    <3>1. w \in 0 .. MaxAttn /\ w \in Int
      BY <1>1, <2>3, <2>4, <2>5 DEF Takes
    <3> QED
      BY <1>1, <3>1 DEF MayHold
  <2> QED
    BY <1>1, <2>4, <2>5 DEF InRange, Agrees
<1>2. CASE n[1] = "IqPath"
  <2>1. v % 8 \in 0 .. 7 /\ (v <= 7 => v % 8 = v)
    OBVIOUS
  <2> QED
    BY <1>2, <2>1 DEF Sent, MayHold, InRange, Agrees
<1>3. CASE n[1] \notin {"TxAttn", "IqPath"}
  BY <1>3 DEF Sent, MayHold, InRange, Agrees
<1> QED
  BY <1>1, <1>2, <1>3

LEMMA AnswerIs ==
  ASSUME Hope, NEW n \in Names, NEW text \in Typed[n[1]] \cup {Junk}, NEW status \in Statuses,
         NEW v \in Scan(n[1], text), Answer(n, text, status)
  PROVE  /\ reply'.name = n /\ reply'.status = status /\ reply'.status \in Statuses
         /\ BelievedBut(n) /\ believed'[n] \in {v, Unset}
         /\ status # "Success" => believed'[n] = Unset
<1>1. n[1] \in Commands
  BY KindsAre DEF Names
<1>2. v \in Nat /\ (text # Junk => v = Narrow(n[1], text))
  BY <1>1, ScanIs
<1>3. believed \in [Names -> Int \cup {Unset}]
  BY DEF Hope, TypeOK
<1>4. reply' = [name |-> n, status |-> status]
  BY DEF Answer, Reply
<1>5. CASE status = "Success" /\ text # Junk
  <2>1. believed' = [believed EXCEPT ![n] = v]
    BY <1>2, <1>5 DEF Answer
  <2> QED
    BY <1>2, <1>3, <1>4, <1>5, <2>1 DEF BelievedBut
<1>6. CASE ~ (status = "Success" /\ text # Junk)
  <2>1. believed' = [believed EXCEPT ![n] = Unset]
    BY <1>6 DEF Answer
  <2> QED
    BY <1>3, <1>4, <1>6, <2>1 DEF BelievedBut
<1> QED
  BY <1>5, <1>6

LEMMA ErrorIs ==
  ASSUME Hope, NEW n \in Names, NEW text, Answer(n, text, "Error")
  PROVE  /\ BelievedBut(n) /\ believed'[n] = Unset
         /\ reply'.name = n /\ reply'.status = "Error" /\ reply'.status \in Statuses
<1>1. believed \in [Names -> Int \cup {Unset}]
  BY DEF Hope, TypeOK
<1>2. believed' = [believed EXCEPT ![n] = Unset]
  BY DEF Answer
<1> QED
  BY <1>1, <1>2 DEF BelievedBut, Answer, Reply, Statuses

LEMMA HoldIs ==
  ASSUME Hope, NEW n \in Names, NEW w, MayHold(n, w), Hold(n, w)
  PROVE  HeldBut(n) /\ held'[n] = w
<1>1. held \in [Names -> Int \cup {Unset}] /\ w \in Int \cup {Unset}
  BY DEF Hope, TypeOK, MayHold
<1>2. held' = [held EXCEPT ![n] = w]
  BY DEF Hold
<1> QED
  BY <1>1, <1>2 DEF HeldBut

LEMMA HeldStays ==
  ASSUME Hope, NEW n \in Names, held' = held
  PROVE  HeldBut(n)
  BY HeldTypes DEF Hope, HeldBut

LEMMA CopyIs ==
  ASSUME Hope, NEW n \in Copies, NEW v \in Nat, cache' = [cache EXCEPT ![n] = v]
  PROVE  CacheBut(n) /\ cache'[n] = v
<1>1. cache \in [Copies -> Nat]
  BY DEF Hope, TypeOK
<1> QED
  BY <1>1 DEF CacheBut

LEMMA CacheStays ==
  ASSUME Hope, NEW n \in Names, cache' = cache
  PROVE  CacheBut(n)
  BY DEF Hope, TypeOK, CacheBut

-----------------------------------------------------------------------------
(* What is not touched stays as good as it was.                            *)

LEMMA Untouched ==
  ASSUME NEW m \in Names, held'[m] = held[m], m \in Copies => cache'[m] = cache[m],
         believed'[m] \in {believed[m], Unset}, BeliefOf(m)
  PROVE  BeliefOf(m)' /\ PartsOf(m) /\ ChangesOf(m)
<1>1. Shown(m)' = Shown(m)
  BY DEF Shown
<1>2. BeliefOf(m)'
  BY <1>1 DEF BeliefOf
<1>3. PartsOf(m)
  BY DEF PartsOf, Coherent
<1> QED
  BY <1>2, <1>3 DEF ChangesOf

LEMMA Pointwise ==
  ASSUME Hope, radio' \in {"off", "up"}, plan' = plan, manual' \in BOOLEAN,
         reply'.status \in Statuses,
         held' \in [Names -> Int \cup {Unset}], cache' \in [Copies -> Nat],
         believed' \in [Names -> Int \cup {Unset}],
         \A m \in Names : MayHold(m, held'[m]) /\ BeliefOf(m)' /\ PartsOf(m) /\ ChangesOf(m)
  PROVE  Step
<1>1. TypeOK'
  <2>1. ASSUME NEW c \in Channels
        PROVE  /\ held'[<<"TxAttn", c>>] \in (0 .. MaxAttn) \cup {Unset}
               /\ held'[<<"IqPath", c>>] \in 0 .. 7
    <3>1. <<"TxAttn", c>> \in Names /\ <<"IqPath", c>> \in Names
      BY DEF Names, Kinds, Device, Stored, Logic
    <3> QED
      BY <3>1 DEF MayHold
  <2>2. plan' \in Plans
    BY DEF Hope, TypeOK
  <2> QED
    BY <2>1, <2>2 DEF TypeOK
<1>2. BeliefIsHeld'
  BY DEF BeliefIsHeld, BeliefOf
<1>3. PartsOnly
  BY KindsAre DEF PartsOnly, PartsOf
<1>4. ChangesOnly
  BY DEF ChangesOnly, ChangesOf
<1> QED
  BY <1>1, <1>2, <1>3, <1>4 DEF Step, Hope

(* A set of one parameter, in one or two places. *)
LEMMA OneSet ==
  ASSUME Hope, radio' = radio, plan' = plan, manual' = manual,
         NEW n \in Names, HeldBut(n), CacheBut(n), BelievedBut(n),
         reply'.name = n, reply'.status \in Statuses,
         BeliefOf(n)', PartsOf(n)
  PROVE  Step
<1>1. radio \in {"off", "up"} /\ manual \in BOOLEAN
  BY DEF Hope, TypeOK
<1>2. \A m \in Names : MayHold(m, held[m]) /\ BeliefOf(m)
  BY HeldTypes DEF Hope, BeliefIsHeld, BeliefOf
<1>3. \A m \in Names : m # n => /\ held'[m] = held[m] /\ believed'[m] = believed[m]
                                /\ m \in Copies => cache'[m] = cache[m]
  BY DEF HeldBut, CacheBut, BelievedBut
<1>4. ASSUME NEW m \in Names PROVE MayHold(m, held'[m]) /\ BeliefOf(m)' /\ PartsOf(m) /\ ChangesOf(m)
  <2>1. CASE m = n
    BY <2>1 DEF ChangesOf, HeldBut
  <2>2. CASE m # n
    BY <1>2, <1>3, <2>2, Untouched
  <2> QED
    BY <2>1, <2>2
<1>5. /\ held' \in [Names -> Int \cup {Unset}] /\ cache' \in [Copies -> Nat]
      /\ believed' \in [Names -> Int \cup {Unset}]
  BY DEF HeldBut, CacheBut, BelievedBut
<1> QED
  BY <1>1, <1>4, <1>5, Pointwise

-----------------------------------------------------------------------------
(* Each way of setting a parameter is a Step.                              *)

(* What all sets have in common. *)
LEMMA Setting ==
  ASSUME Hope, NEW n, NEW kinds, kinds \subseteq Kinds, Asked(n, kinds),
         NEW text \in Typed[n[1]] \cup {Junk}, NEW v \in Scan(n[1], text)
  PROVE  /\ n \in Names /\ n[1] \in kinds /\ n = <<n[1], n[2]>> /\ n[2] \in Channels
         /\ v \in Nat /\ v \in Int
         /\ n \in Copies <=> n[1] \in Copied
         /\ MayHold(n, held[n])
<1>1. n \in Commands \X Channels /\ n[1] \in kinds
  BY AskedIs DEF Hope
<1>2. n \in Names /\ n = <<n[1], n[2]>>
  BY <1>1, NameOf
<1>3. v \in Nat
  BY <1>1, ScanIs
<1>4. MayHold(n, held[n])
  BY <1>2, HeldTypes DEF Hope
<1>5. n \in Copies <=> n[1] \in Copied
  BY <1>1, <1>2 DEF Copies
<1> QED
  BY <1>1, <1>2, <1>3, <1>4, <1>5

(* A set that has brought parameter and copy to agree. *)
LEMMA Agreed ==
  ASSUME Hope, NEW n \in Names, NEW v \in Nat, NEW b \in {v, Unset},
         believed'[n] = b, held'[n] = Sent(n[1], v), n \in Copies => cache'[n] = v,
         reply'.name = n, n \in Copies => n[1] \in Stored \/ n[1] = "RxPort"
  PROVE  BeliefOf(n)' /\ PartsOf(n)
<1> DEFINE w == Sent(n[1], v)
<1>1. w \in Int /\ (InRange(n, v) => Agrees(n, w, v))
  BY SentIs
<1> HIDE DEF w
<1>0. held'[n] = w
  BY DEF w
<1>2. BeliefOf(n)'
  BY <1>0, <1>1 DEF BeliefOf, Shown
<1>3. ASSUME n \in Copies, n[1] \in Stored PROVE PartsOf(n)
  BY <1>0, <1>1, <1>3, MarksAssumption DEF PartsOf, Coherent
<1>4. ASSUME n \in Copies, n[1] = "RxPort" PROVE PartsOf(n)
  <2>1. InRange(n, v)
    BY <1>4 DEF InRange
  <2> QED
    BY <1>0, <1>1, <1>4, <2>1, MarksAssumption DEF PartsOf, Coherent
<1> QED
  BY <1>2, <1>3, <1>4 DEF PartsOf

(* A set of which nothing is believed. *)
LEMMA Doubted ==
  ASSUME NEW n \in Names, believed'[n] = Unset \/ ~ Reported(n)
  PROVE  BeliefOf(n)'
  BY DEF BeliefOf, Reported

Quiet == radio' = radio /\ manual' = manual /\ plan' = plan

(* A number that reaches all the places of its parameter. *)
LEMMA Written ==
  ASSUME Hope, Quiet, NEW n \in Names, NEW text \in Typed[n[1]] \cup {Junk},
         NEW v \in Scan(n[1], text), v \in Nat,
         Takes(n[1], Sent(n[1], v)), Hold(n, Sent(n[1], v)),
         n[1] \in Copied <=> n \in Copies, n[1] \in Copied \ Stored => n[1] = "RxPort",
         cache' = IF n[1] \in Copied THEN [cache EXCEPT ![n] = v] ELSE cache,
         NEW status \in Statuses, Answer(n, text, status)
  PROVE  Step
<1>1. /\ BelievedBut(n) /\ believed'[n] \in {v, Unset} /\ reply'.name = n /\ reply'.status \in Statuses
  BY AnswerIs
<1>2. HeldBut(n) /\ held'[n] = Sent(n[1], v)
  BY SentIs, HoldIs
<1>3. CacheBut(n) /\ (n \in Copies => cache'[n] = v)
  <2>1. CASE n \in Copies
    BY <2>1, CopyIs
  <2>2. CASE n \notin Copies
    BY <2>2, CacheStays
  <2> QED
    BY <2>1, <2>2
<1>4. n \in Copies => n[1] \in Stored \/ n[1] = "RxPort"
  OBVIOUS
<1>5. BeliefOf(n)' /\ PartsOf(n)
  BY <1>1, <1>2, <1>3, <1>4, Agreed
<1> QED
  BY <1>1, <1>2, <1>3, <1>5, OneSet DEF Quiet

(* A number that the device refuses, its copy written or not. *)
LEMMA Refused ==
  ASSUME Hope, Quiet, NEW n \in Names, NEW text, NEW v \in Nat, held' = held,
         \/ cache' = cache
         \/ n \in Copies /\ n[1] \in Stored /\ cache' = [cache EXCEPT ![n] = v],
         Answer(n, text, "Error")
  PROVE  Step
<1>1. /\ BelievedBut(n) /\ believed'[n] = Unset /\ reply'.name = n
      /\ reply'.status = "Error" /\ reply'.status \in Statuses
  BY ErrorIs
<1>2. HeldBut(n) /\ CacheBut(n)
  BY HeldStays, CopyIs, CacheStays
<1>3. PartsOf(n)
  BY <1>1 DEF PartsOf, Coherent
<1> QED
  BY <1>1, <1>2, <1>3, Doubted, OneSet DEF Quiet

(* A transmitter the profile leaves out. *)
LEMMA LeftOut ==
  ASSUME Hope, Quiet, NEW n \in Names, NEW text \in Typed[n[1]] \cup {Junk},
         NEW v \in Scan(n[1], text), ~ Reported(n), cache' = cache, held' = held,
         Answer(n, text, "Success")
  PROVE  Step
<1>1. "Success" \in Statuses
  BY DEF Statuses
<1>2. BelievedBut(n) /\ reply'.name = n /\ reply'.status \in Statuses
  BY <1>1, AnswerIs
<1>3. HeldBut(n) /\ CacheBut(n)
  BY HeldStays, CacheStays
<1>4. PartsOf(n)
  BY DEF PartsOf, Coherent
<1> QED
  BY <1>2, <1>3, <1>4, Doubted, OneSet DEF Quiet

-----------------------------------------------------------------------------
(* Enabling a transmitter.                                                 *)

(* What is sent again is what the copy says, and the device takes it. *)
SentAgain(m, channels, copies, value) ==
  /\ m[1] \in {"TxAttn", "TxBoost"} /\ m[2] \in channels /\ <<"tx", m[2]>> \in Enabled
  /\ m \in Copies
  /\ value = Sent(m[1], copies[m]) /\ Takes(m[1], value)

LEMMA ResentIs ==
  ASSUME NEW channels, channels \subseteq Channels, NEW copies \in [Copies -> Nat],
         NEW h \in [Names -> Int \cup {Unset}], \A m \in Names : MayHold(m, h[m]),
         NEW g \in Resent(channels, copies, h)
  PROVE  /\ g \in [Names -> Int \cup {Unset}]
         /\ \A m \in Names : /\ MayHold(m, g[m])
                             /\ g[m] = h[m] \/ SentAgain(m, channels, copies, g[m])
<1> DEFINE again == {m \in {"TxAttn", "TxBoost"} \X channels :
                       <<"tx", m[2]>> \in Enabled /\ Takes(m[1], Sent(m[1], copies[m]))}
<1>1. PICK back \in SUBSET again :
        g = [m \in Names |-> IF m \in back THEN Sent(m[1], copies[m]) ELSE h[m]]
  BY DEF Resent
<1>2. ASSUME NEW m \in Names, m \in back
      PROVE  MayHold(m, g[m]) /\ SentAgain(m, channels, copies, g[m]) /\ g[m] \in Int
  <2>1. /\ m[1] \in {"TxAttn", "TxBoost"} /\ m[2] \in channels /\ <<"tx", m[2]>> \in Enabled
        /\ Takes(m[1], Sent(m[1], copies[m])) /\ g[m] = Sent(m[1], copies[m])
        /\ m = <<m[1], m[2]>>
    BY <1>1, <1>2
  <2>2. m \in Copies /\ copies[m] \in Nat
    BY <2>1 DEF Copies, Copied, Stored
  <2>3. g[m] \in Nat /\ MayHold(m, g[m])
    BY <2>1, <2>2, SentIs
  <2> QED
    BY <2>1, <2>2, <2>3 DEF SentAgain
<1>3. ASSUME NEW m \in Names
      PROVE  /\ g[m] \in Int \cup {Unset} /\ MayHold(m, g[m])
             /\ g[m] = h[m] \/ SentAgain(m, channels, copies, g[m])
  <2>1. CASE m \in back
    BY <1>2, <2>1
  <2>2. CASE m \notin back
    BY <1>1, <2>2
  <2> QED
    BY <2>1, <2>2
<1> QED
  BY <1>1, <1>3

(* All of it may fail. *)
LEMMA ResentNot ==
  ASSUME NEW channels, NEW copies, NEW h \in [Names -> Int \cup {Unset}]
  PROVE  h \in Resent(channels, copies, h)
<1> DEFINE again == {m \in {"TxAttn", "TxBoost"} \X channels :
                       <<"tx", m[2]>> \in Enabled /\ Takes(m[1], Sent(m[1], copies[m]))}
           sent(back) == [m \in Names |-> IF m \in back THEN Sent(m[1], copies[m]) ELSE h[m]]
<1>1. h = sent({})
  OBVIOUS
<1>2. {} \in SUBSET again
  OBVIOUS
<1>3. Resent(channels, copies, h) = {sent(back) : back \in SUBSET again}
  BY Zenon DEF Resent
<1> HIDE DEF sent, again
<1> QED
  BY <1>1, <1>2, <1>3, Zenon

LEMMA ResentNone ==
  ASSUME NEW copies, NEW h \in [Names -> Int \cup {Unset}], NEW g \in Resent({}, copies, h)
  PROVE  g = h
<1>1. g = [m \in Names |-> h[m]]
  BY DEF Resent
<1> QED
  BY <1>1

(* A parameter that was sent again is what was believed, and agrees with   *)
(* its copy if it did before: no number that has come to agree is too      *)
(* large for 16 bits.                                                      *)
LEMMA Brought ==
  ASSUME Hope, NEW m \in Names, NEW channels, SentAgain(m, channels, cache, held'[m]),
         cache' = cache, believed'[m] = believed[m]
  PROVE  BeliefOf(m)' /\ PartsOf(m)
<1>1. /\ m \in Copies /\ cache[m] \in Nat /\ held'[m] = Sent(m[1], cache[m])
      /\ m[1] \in {"TxAttn", "TxBoost"}
  BY DEF SentAgain, Hope, TypeOK
<1>2. BeliefOf(m) /\ MayHold(m, held[m])
  BY HeldTypes DEF Hope, BeliefIsHeld, BeliefOf
<1>3. held'[m] \in Nat /\ (InRange(m, cache[m]) => Agrees(m, held'[m], cache[m]))
  BY <1>1, SentIs
<1>4. BeliefOf(m)'
  BY <1>1, <1>2, <1>3 DEF BeliefOf, Shown
<1>5. ASSUME Coherent(m) PROVE Coherent(m)'
  <2>1. Agrees(m, held[m], cache[m]) /\ held[m] # Unset
    BY <1>1, <1>5 DEF Coherent
  <2>2. Agrees(m, held'[m], cache[m])
    <3>1. CASE m[1] = "TxBoost"
      BY <1>1, <3>1 DEF Agrees, Sent
    <3>2. CASE m[1] = "TxAttn"
      <4>1. held[m] \in 0 .. MaxAttn /\ held[m] \in {cache[m] - 1, cache[m]}
        BY <1>2, <2>1, <3>2 DEF MayHold, Agrees
      <4>2. cache[m] < HalfWord
        <5>1. MaxAttn \in Nat /\ HalfWord \in Nat /\ MaxAttn + 1 < HalfWord
          BY DEF MaxAttn, HalfWord
        <5>2. \A x \in Nat, y \in 0 .. MaxAttn : y \in {x - 1, x} => x < HalfWord
          BY <5>1
        <5> QED
          BY <1>1, <4>1, <5>2
      <4>3. held'[m] = AttnWord(cache[m])
        BY <1>1, <3>2 DEF Sent
      <4> QED
        BY <1>1, <3>2, <4>2, <4>3, AttnWordIs DEF Agrees
    <3> QED
      BY <1>1, <3>1, <3>2
  <2>3. held'[m] # Unset
    BY <1>3, MarksAssumption
  <2> QED
    BY <2>2, <2>3 DEF Coherent
<1> QED
  BY <1>4, <1>5 DEF PartsOf

(* A set, of a parameter without a copy, or a command that may enable a    *)
(* transmitter at its end.                                                 *)
LEMMA AndEnabled ==
  ASSUME Hope, Quiet, cache' = cache, NEW n \in Commands \X Channels, n \notin Copies,
         reply'.name = n, reply'.status \in Statuses,
         believed' \in [Names -> Int \cup {Unset}],
         \A m \in Names : m # n => believed'[m] = believed[m],
         NEW h \in [Names -> Int \cup {Unset}],
         \A m \in Names : m # n => h[m] = held[m],
         n \in Names => MayHold(n, h[n]),
         held' \in Resent(Transmitter(n), cache, h),
         n \in Names /\ held'[n] = h[n] => BeliefOf(n)'
  PROVE  Step
<1>1. \A m \in Names : MayHold(m, held[m]) /\ BeliefOf(m)
  BY HeldTypes DEF Hope, BeliefIsHeld, BeliefOf
<1>2. \A m \in Names : MayHold(m, h[m])
  BY <1>1
<1>3. cache \in [Copies -> Nat] /\ radio' \in {"off", "up"} /\ manual' \in BOOLEAN
  BY DEF Hope, TypeOK, Quiet
<1>4. Transmitter(n) \subseteq Channels
  BY DEF Transmitter
<1>5. /\ held' \in [Names -> Int \cup {Unset}]
      /\ \A m \in Names : /\ MayHold(m, held'[m])
                          /\ held'[m] = h[m] \/ SentAgain(m, Transmitter(n), cache, held'[m])
  BY <1>2, <1>3, <1>4, ResentIs
<1>6. ASSUME NEW m \in Names
      PROVE  MayHold(m, held'[m]) /\ BeliefOf(m)' /\ PartsOf(m) /\ ChangesOf(m)
  <2>1. CASE m = n
    BY <1>5, <2>1 DEF SentAgain, PartsOf, ChangesOf
  <2>2. CASE m # n /\ held'[m] = held[m]
    BY <1>1, <1>5, <2>2, Untouched
  <2>3. CASE m # n /\ SentAgain(m, Transmitter(n), cache, held'[m])
    <3>1. BeliefOf(m)' /\ PartsOf(m)
      BY <2>3, Brought
    <3>2. ChangesOf(m)
      BY <2>3 DEF SentAgain, ChangesOf, Brings
    <3> QED
      BY <1>5, <3>1, <3>2
  <2> QED
    BY <1>5, <2>1, <2>2, <2>3
<1> QED
  BY <1>3, <1>5, <1>6, Pointwise DEF Quiet

-----------------------------------------------------------------------------
LEMMA SetStoredSteps ==
  ASSUME Hope, NEW n, NEW text \in Typed[n[1]] \cup {Junk}, SetStored(n, text)
  PROVE  Step
<1>1. Asked(n, {"TxAttn", "TxBoost"}) /\ {"TxAttn", "TxBoost"} \subseteq Kinds
  BY DEF SetStored, Kinds, Device, Stored
<1>2. PICK v \in Scan(n[1], text) :
        \/ /\ <<"tx", n[2]>> \notin Enabled
           /\ Answer(n, text, "Success")
           /\ UNCHANGED <<held, cache>>
        \/ /\ <<"tx", n[2]>> \in Enabled
           /\ cache' = [cache EXCEPT ![n] = v]
           /\ \/ /\ Takes(n[1], Sent(n[1], v))
                 /\ Hold(n, Sent(n[1], v))
                 /\ Answer(n, text, "Success")
              \/ UNCHANGED held /\ Answer(n, text, "Error")
  BY DEF SetStored
<1>3. Quiet
  BY DEF SetStored, Quiet
<1>4. /\ n \in Names /\ n[1] \in {"TxAttn", "TxBoost"} /\ v \in Nat /\ v \in Int
      /\ n \in Copies /\ n[1] \in Stored /\ n[1] \in Copied
  BY <1>1, Setting DEF Stored, Copied
<1>5. "Success" \in Statuses
  BY DEF Statuses
<1>6. CASE <<"tx", n[2]>> \notin Enabled
  BY <1>2, <1>3, <1>4, <1>6, LeftOut DEF Reported
<1>7. CASE /\ Takes(n[1], Sent(n[1], v)) /\ Hold(n, Sent(n[1], v))
           /\ cache' = [cache EXCEPT ![n] = v] /\ Answer(n, text, "Success")
  BY <1>3, <1>4, <1>5, <1>7, Written
<1>8. CASE cache' = [cache EXCEPT ![n] = v] /\ held' = held /\ Answer(n, text, "Error")
  BY <1>3, <1>4, <1>8, Refused
<1> QED
  BY <1>2, <1>6, <1>7, <1>8

LEMMA SetLoopBackSteps ==
  ASSUME Hope, NEW n, NEW text \in Typed[n[1]] \cup {Junk}, SetLoopBack(n, text)
  PROVE  Step
<1>1. Asked(n, {"LoopBack"}) /\ {"LoopBack"} \subseteq Kinds
  BY DEF SetLoopBack, Kinds, Device, Stored
<1>2. PICK v \in Scan(n[1], text) :
        /\ cache' = [cache EXCEPT ![n] = v]
        /\ \/ Hold(n, v) /\ Answer(n, text, "Success")
           \/ UNCHANGED held /\ Answer(n, text, "Error")
  BY DEF SetLoopBack
<1>3. Quiet
  BY DEF SetLoopBack, Quiet
<1>4. /\ n \in Names /\ n[1] = "LoopBack" /\ v \in Nat /\ v \in Int
      /\ n \in Copies /\ n[1] \in Stored /\ n[1] \in Copied
  BY <1>1, Setting DEF Stored, Copied
<1>5. "Success" \in Statuses /\ v = Sent(n[1], v) /\ Takes(n[1], v)
  BY <1>4 DEF Statuses, Sent, Takes
<1>6. CASE Hold(n, v) /\ Answer(n, text, "Success")
  BY <1>2, <1>3, <1>4, <1>5, <1>6, Written
<1>7. CASE held' = held /\ Answer(n, text, "Error")
  BY <1>2, <1>3, <1>4, <1>7, Refused
<1> QED
  BY <1>2, <1>6, <1>7

LEMMA SetPortSteps ==
  ASSUME Hope, NEW n, NEW text \in Typed[n[1]] \cup {Junk}, SetPort(n, text)
  PROVE  Step
<1>1. Asked(n, {"RxPort"}) /\ {"RxPort"} \subseteq Kinds
  BY DEF SetPort, Kinds, Device
<1>2. PICK v \in Scan(n[1], text) :
        \/ /\ Hold(n, v)
           /\ cache' = [cache EXCEPT ![n] = v]
           /\ \E s \in {"Success", "Error"} : Answer(n, text, s)
        \/ /\ UNCHANGED <<held, cache>>
           /\ Answer(n, text, "Error")
  BY DEF SetPort
<1>3. Quiet
  BY DEF SetPort, Quiet
<1>4. /\ n \in Names /\ n[1] = "RxPort" /\ v \in Nat /\ v \in Int
      /\ n \in Copies /\ n[1] \in Copied
  BY <1>1, Setting DEF Copied
<1>5. {"Success", "Error"} \subseteq Statuses /\ v = Sent(n[1], v) /\ Takes(n[1], v)
  BY <1>4 DEF Statuses, Sent, Takes
<1>6. CASE /\ Hold(n, v) /\ cache' = [cache EXCEPT ![n] = v]
           /\ \E s \in {"Success", "Error"} : Answer(n, text, s)
  BY <1>3, <1>4, <1>5, <1>6, Written
<1>7. CASE held' = held /\ cache' = cache /\ Answer(n, text, "Error")
  BY <1>3, <1>4, <1>7, Refused
<1> QED
  BY <1>2, <1>6, <1>7

LEMMA SetCarrierSteps ==
  ASSUME Hope, NEW n, NEW text \in Typed[n[1]] \cup {Junk}, SetCarrier(n, text)
  PROVE  Step
<1>1. Asked(n, Carriers)
  BY DEF SetCarrier
<1>2. PICK v \in Scan(n[1], text) :
        \/ /\ held' \in Resent(Transmitter(n), cache, Tuned(n, v))
           /\ Answer(n, text, "Success")
        \/ /\ held' \in {held, Tuned(n, v)}
           /\ Answer(n, text, "Error")
  BY DEF SetCarrier
<1>3. Quiet /\ cache' = cache
  BY DEF SetCarrier, Quiet
<1>4. /\ n \in Names /\ n[1] \in Carriers /\ n = <<n[1], n[2]>> /\ n[2] \in Channels
      /\ v \in Nat /\ v \in Int /\ n \notin Copies
  BY <1>1, KindsAre, Setting DEF Carriers, Stored, Copied
<1>5. /\ {"Success", "Error"} \subseteq Statuses /\ v = Sent(n[1], v) /\ Takes(n[1], v)
      /\ held \in [Names -> Int \cup {Unset}] /\ n \in Commands \X Channels
  BY <1>4, KindsAre DEF Statuses, Sent, Carriers, Takes, Hope, TypeOK, Names
<1>6. CASE held' = held /\ Answer(n, text, "Error")
  BY <1>3, <1>4, <1>6, Refused
<1>7. CASE n[1] = "TxCarrier" /\ ~ (held' = held /\ Answer(n, text, "Error"))
  <2> DEFINE h == [held EXCEPT ![n] = v]
  <2>1. Tuned(n, v) = h
    BY <1>7 DEF Tuned
  <2>2. h \in [Names -> Int \cup {Unset}] /\ h[n] = v /\ \A m \in Names : m # n => h[m] = held[m]
    BY <1>4, <1>5
  <2> HIDE DEF h
  <2>3. h \in Resent(Transmitter(n), cache, h)
    BY <2>2, ResentNot
  <2>4. PICK s \in {"Success", "Error"} :
          held' \in Resent(Transmitter(n), cache, h) /\ Answer(n, text, s)
    BY <1>2, <1>7, <2>1, <2>3
  <2>5. /\ BelievedBut(n) /\ believed'[n] \in {v, Unset}
        /\ reply'.name = n /\ reply'.status \in Statuses
    BY <1>4, <1>5, <2>4, AnswerIs
  <2>6. MayHold(n, h[n])
    <3>1. Takes(n[1], v)
      BY <1>7 DEF Takes
    <3> QED
      BY <1>4, <1>5, <2>2, <3>1, SentIs
  <2>7. held'[n] = h[n] => BeliefOf(n)'
    BY <1>4, <1>7, <2>2, <2>5 DEF BeliefOf, Shown, Agrees
  <2>8. /\ believed' \in [Names -> Int \cup {Unset}]
        /\ \A m \in Names : m # n => believed'[m] = believed[m]
    BY <2>5 DEF BelievedBut
  <2> QED
    BY <1>3, <1>4, <1>5, <2>2, <2>4, <2>5, <2>6, <2>7, <2>8, AndEnabled
<1>8. CASE n[1] = "RxCarrier" /\ held' = Tuned(n, v) /\ \E s \in {"Success", "Error"} : Answer(n, text, s)
  <2> DEFINE port == <<"RxPort", n[2]>>
  <2>1. port \in Copies /\ port \in Names /\ port # n /\ port[1] = "RxPort" /\ port[2] = n[2]
    BY <1>4, <1>8, KindsAre DEF Copies, Copied
  <2> HIDE DEF port
  <2>2. /\ held \in [Names -> Int \cup {Unset}] /\ cache \in [Copies -> Nat]
        /\ believed \in [Names -> Int \cup {Unset}]
        /\ radio \in {"off", "up"} /\ manual \in BOOLEAN
    BY DEF Hope, TypeOK
  <2>3. held' = [held EXCEPT ![n] = v, ![port] = cache[port]]
    BY <1>8 DEF Tuned, port
  <2>4. /\ held' \in [Names -> Int \cup {Unset}]
        /\ held'[n] = v /\ held'[port] = cache[port] /\ cache[port] \in Int
        /\ \A m \in Names \ {n, port} : held'[m] = held[m]
    BY <1>4, <2>1, <2>2, <2>3
  <2>5. /\ BelievedBut(n) /\ believed'[n] \in {v, Unset} /\ reply'.name = n
        /\ reply'.status \in Statuses
    BY <1>4, <1>5, <1>8, AnswerIs
  <2>6. \A m \in Names : MayHold(m, held[m]) /\ BeliefOf(m)
    BY HeldTypes DEF Hope, BeliefIsHeld, BeliefOf
  <2>7. MayHold(n, v) /\ BeliefOf(n)' /\ PartsOf(n) /\ ChangesOf(n)
    <3>1. MayHold(n, v)
      BY <1>4, <1>5, SentIs
    <3>2. BeliefOf(n)'
      BY <1>4, <1>8, <2>4, <2>5 DEF BeliefOf, Shown, Agrees
    <3> QED
      BY <1>4, <2>5, <3>1, <3>2 DEF PartsOf, ChangesOf
  <2>8. MayHold(port, held'[port]) /\ BeliefOf(port)' /\ PartsOf(port) /\ ChangesOf(port)
    <3>1. MayHold(port, held'[port])
      BY <2>1, <2>4 DEF MayHold
    <3>2. believed'[port] = believed[port] /\ cache'[port] = cache[port]
      BY <1>3, <2>1, <2>5 DEF BelievedBut
    <3>3. BeliefOf(port)'
      BY <2>1, <2>4, <2>6, <3>2 DEF BeliefOf, Shown, Agrees
    <3>4. Coherent(port)'
      BY <2>1, <2>4, <3>2, MarksAssumption DEF Coherent, Agrees
    <3>5. held'[port] = Sent(port[1], cache[port])
      BY <2>1, <2>4 DEF Sent
    <3>6. Brings(n, port)
      BY <1>4, <1>8, <2>1 DEF Brings
    <3> QED
      BY <2>1, <2>5, <3>1, <3>3, <3>4, <3>5, <3>6 DEF PartsOf, ChangesOf
  <2>9. ASSUME NEW m \in Names
        PROVE  MayHold(m, held'[m]) /\ BeliefOf(m)' /\ PartsOf(m) /\ ChangesOf(m)
    <3>1. CASE m \notin {n, port}
      <4>1. held'[m] = held[m] /\ believed'[m] = believed[m] /\ (m \in Copies => cache'[m] = cache[m])
        BY <1>3, <2>4, <2>5, <3>1 DEF BelievedBut
      <4> QED
        BY <2>6, <4>1, Untouched
    <3> QED
      BY <2>4, <2>7, <2>8, <3>1
  <2>10. cache' \in [Copies -> Nat] /\ believed' \in [Names -> Int \cup {Unset}]
    BY <1>3, <2>2, <2>5 DEF BelievedBut
  <2> QED
    BY <1>3, <2>2, <2>4, <2>5, <2>9, <2>10, Pointwise DEF Quiet
<1>9. CASE n[1] = "RxCarrier" /\ ~ (held' = held /\ Answer(n, text, "Error"))
  <2>1. Transmitter(n) = {}
    BY <1>9 DEF Transmitter, Dpd
  <2>2. cache[<<"RxPort", n[2]>>] \in Nat
    BY <1>4 DEF Hope, TypeOK, Copies, Copied
  <2>3. Tuned(n, v) \in [Names -> Int \cup {Unset}]
    <3> DEFINE port == <<"RxPort", n[2]>>
    <3>1. Tuned(n, v) = [held EXCEPT ![n] = v, ![port] = cache[port]]
      BY <1>9 DEF Tuned
    <3>2. cache[port] \in Int /\ v \in Int
      BY <1>4, <2>2
    <3> HIDE DEF port
    <3> QED
      BY <1>5, <3>1, <3>2
  <2>4. held' \in Resent({}, cache, Tuned(n, v)) => held' = Tuned(n, v)
    BY <2>3, ResentNone
  <2>5. held' = Tuned(n, v) /\ \E s \in {"Success", "Error"} : Answer(n, text, s)
    BY <1>2, <1>9, <2>1, <2>4
  <2> QED
    BY <1>8, <1>9, <2>5
<1> QED
  BY <1>4, <1>6, <1>7, <1>9 DEF Carriers

LEMMA SetDpdSteps ==
  ASSUME Hope, NEW n, NEW text \in Typed[n[1]] \cup {Junk},
         SetDpd(n, text) \/ SetPathDelay(n, text)
  PROVE  Step
<1> DEFINE kinds == Dpd \cup {"PathDelay"}
<1>1. Asked(n, kinds) /\ kinds \subseteq Kinds
  BY DEF SetDpd, SetPathDelay, Asked, Kinds, Device
<1>2. PICK v \in Scan(n[1], text) : held' \in Attempted(n, v)
  BY DEF SetDpd, SetPathDelay
<1>3. Quiet /\ cache' = cache /\ Answer(n, text, "Success")
  BY DEF SetDpd, SetPathDelay, Quiet
<1>4. /\ n \in Names /\ n[1] \in kinds /\ v \in Nat /\ v \in Int
      /\ n \in Copies <=> n[1] \in Copied
  BY <1>1, Setting
<1>5. n \notin Copies /\ ~ Reported(n) /\ MayHold(n, v) /\ MayHold(n, held[n])
  BY <1>4, HeldTypes DEF Copied, Stored, Dpd, Reported, MayHold, Hope
<1>6. held \in [Names -> Int \cup {Unset}] /\ n \in Commands \X Channels /\ "Success" \in Statuses
  BY <1>4, KindsAre DEF Hope, TypeOK, Names, Statuses
<1>7. PICK h \in {held, [held EXCEPT ![n] = v]} : held' \in Resent(Transmitter(n), cache, h)
  BY <1>2 DEF Attempted
<1>8. /\ h \in [Names -> Int \cup {Unset}] /\ MayHold(n, h[n])
      /\ \A m \in Names : m # n => h[m] = held[m]
  BY <1>4, <1>5, <1>6
<1>9. /\ BelievedBut(n) /\ reply'.name = n /\ reply'.status \in Statuses
  BY <1>3, <1>4, <1>6, AnswerIs
<1>10. /\ believed' \in [Names -> Int \cup {Unset}]
       /\ \A m \in Names : m # n => believed'[m] = believed[m]
  BY <1>9 DEF BelievedBut
<1>11. BeliefOf(n)'
  BY <1>4, <1>5, Doubted
<1> QED
  BY <1>3, <1>5, <1>6, <1>7, <1>8, <1>9, <1>10, <1>11, AndEnabled

LEMMA SetGainSteps ==
  ASSUME Hope, NEW n, NEW text \in Typed[n[1]] \cup {Junk}, SetGain(n, text)
  PROVE  Step
<1>1. Asked(n, {"Gain"}) /\ {"Gain"} \subseteq Kinds
  BY DEF SetGain, Kinds, Device
<1>2. Quiet /\ cache' = cache
  BY DEF SetGain, Quiet
<1>3. n \in Commands \X Channels /\ n[1] = "Gain"
  BY <1>1, AskedIs DEF Hope
<1>4. n \in Names /\ "Success" \in Statuses
  BY <1>1, <1>3, NameOf DEF Statuses
<1>5. CASE (\E v \in Scan(n[1], text) : Hold(n, v)) /\ Answer(n, text, "Success")
  <2>1. PICK v \in Scan(n[1], text) : Hold(n, v)
    BY <1>5
  <2>2. v \in Nat /\ n \notin Copies /\ n[1] \notin Copied
    BY <1>1, Setting DEF Copied, Stored
  <2>3. v = Sent(n[1], v) /\ Takes(n[1], v)
    BY <1>3 DEF Sent, Takes
  <2> QED
    BY <1>2, <1>4, <1>5, <2>1, <2>2, <2>3, Written
<1>6. CASE held' = held /\ Answer(n, text, "Error")
  BY <1>2, <1>4, <1>6, Refused
<1> QED
  BY <1>5, <1>6 DEF SetGain

LEMMA SetRegisterSteps ==
  ASSUME Hope, NEW n, NEW text \in Typed[n[1]] \cup {Junk},
         SetWord(n, text) \/ SetCount(n, text)
  PROVE  Step
<1>1. Asked(n, Logic) /\ Logic \subseteq Kinds
  BY KindsAre DEF SetWord, SetCount, Asked, Logic
<1>2. PICK v \in Scan(n[1], text) :
        Hold(n, Sent(n[1], v)) /\ \E s \in {"Success", "Error"} : Answer(n, text, s)
  BY DEF SetWord, SetCount
<1>3. Quiet /\ cache' = cache
  BY DEF SetWord, SetCount, Quiet
<1>4. /\ n \in Names /\ n[1] \in Logic /\ v \in Nat
      /\ n \in Copies <=> n[1] \in Copied
  BY <1>1, Setting
<1>5. /\ n[1] \notin Copied /\ {"Success", "Error"} \subseteq Statuses
      /\ Takes(n[1], Sent(n[1], v))
  BY <1>4 DEF Logic, Counts, Copied, Stored, Statuses, Takes
<1> QED
  BY <1>2, <1>3, <1>4, <1>5, Written

(* A command that sets no parameter, and enables a transmitter or not. *)
LEMMA EnableSteps ==
  ASSUME Hope, NEW n, NEW text \in Typed[n[1]] \cup {Junk}, SetState(n, text) \/ Enable(n)
  PROVE  Step
<1>1. Asked(n, {"State", "Enable"})
  BY DEF SetState, Enable, Asked
<1>2. n \in Commands \X Channels /\ n \notin Names /\ n \notin Copies
  BY <1>1, AskedIs DEF Hope, Names, Copies, Kinds, Device, Stored, Carriers, Dpd, Logic, Counts, Copied
<1>3. /\ Quiet /\ cache' = cache /\ believed' = believed
      /\ reply'.name = n /\ reply'.status \in Statuses
  BY DEF SetState, Enable, Quiet, Reply, Statuses
<1>4. held \in [Names -> Int \cup {Unset}] /\ believed \in [Names -> Int \cup {Unset}]
  BY DEF Hope, TypeOK
<1>5. held \in Resent(Transmitter(n), cache, held)
  BY <1>4, ResentNot
<1>6. held' \in Resent(Transmitter(n), cache, held)
  BY <1>5 DEF SetState, Enable
<1> QED
  BY <1>2, <1>3, <1>4, <1>6, AndEnabled

LEMMA SetNothingSteps ==
  ASSUME Hope, NEW n, SetUnbranched(n) \/ SetUnknown(n)
  PROVE  Step
<1>1. /\ Quiet /\ held' = held /\ cache' = cache /\ believed' = believed
      /\ reply'.status \in Statuses
  BY DEF SetUnbranched, SetUnknown, Quiet, Reply, Statuses
<1>2. ASSUME NEW m \in Names
      PROVE  MayHold(m, held'[m]) /\ BeliefOf(m)' /\ PartsOf(m) /\ ChangesOf(m)
  BY <1>1, HeldTypes, Untouched DEF Hope, BeliefIsHeld, BeliefOf
<1>3. /\ held' \in [Names -> Int \cup {Unset}] /\ cache' \in [Copies -> Nat]
      /\ believed' \in [Names -> Int \cup {Unset}] /\ radio' \in {"off", "up"} /\ manual' \in BOOLEAN
  BY <1>1 DEF Hope, TypeOK, Quiet
<1> QED
  BY <1>1, <1>2, <1>3, Pointwise DEF Quiet

(* What a load leaves in one place. *)
LEMMA AfterLoadIs ==
  ASSUME NEW p \in Profiles, NEW configure \in BOOLEAN,
         NEW h \in [Names -> Int \cup {Unset}], \A m \in Names : MayHold(m, h[m]),
         NEW copies \in [Copies -> Nat], NEW after \in AfterLoad(p, configure, copies, h)
  PROVE  /\ after.held \in [Names -> Int \cup {Unset}]
         /\ \A m \in Names : /\ MayHold(m, after.held[m])
                             /\ ~ Forgotten(m, configure) => after.held[m] = h[m]
<1> DEFINE Fine(g) == /\ g \in [Names -> Int \cup {Unset}]
                      /\ \A m \in Names : /\ MayHold(m, g[m])
                                          /\ ~ Forgotten(m, configure) => g[m] = h[m]
<1>1. Fine(HalfLoaded(h))
  <2>1. \A m \in Names : HalfLoaded(h)[m] = IF m[1] \in Device THEN Unset ELSE h[m]
    BY DEF HalfLoaded
  <2>2. \A m \in Names : m[1] \in Device => m[1] # "IqPath"
    BY DEF Device, Stored, Carriers, Dpd
  <2>3. HalfLoaded(h) \in [Names -> Int \cup {Unset}]
    BY DEF HalfLoaded
  <2> QED
    BY <2>1, <2>2, <2>3 DEF MayHold, Forgotten
<1>2. Fine(Loaded(p, h))
  <2>1. \A m \in Names : Loaded(p, h)[m] = IF m[1] \in Device THEN Profile[p][m[1]] ELSE h[m]
    BY DEF Loaded
  <2>2. \A m \in Names : m[1] \in Device => m[1] # "IqPath"
    BY DEF Device, Stored, Carriers, Dpd
  <2>3. \A k \in Device : Profile[p][k] \in Int \cup {Unset}
    BY ProfileAssumption
  <2>4. Profile[p]["TxAttn"] \in 0 .. MaxAttn
    BY ProfileAssumption
  <2>5. Loaded(p, h) \in [Names -> Int \cup {Unset}]
    BY <2>3 DEF Loaded
  <2> QED
    BY <2>1, <2>2, <2>3, <2>4, <2>5 DEF MayHold, Forgotten
<1>3. ASSUME configure, NEW c \in Configured(copies, Loaded(p, h)) PROVE Fine(c)
  <2>1. PICK left \in SUBSET {x \in Channels : <<"tx", x>> \in Enabled} :
          c \in Resent(Channels, copies, [m \in Names |->
            CASE m[1] = "SsiEnable" -> Default["SsiEnable"]
              [] m[1] = "Disable" -> Forever
              [] m[1] = "IqPath" /\ m[2] \in left -> Ramp
              [] OTHER -> Loaded(p, h)[m]])
    BY <1>3 DEF Configured
  <2> DEFINE g == [m \in Names |->
            CASE m[1] = "SsiEnable" -> Default["SsiEnable"]
              [] m[1] = "Disable" -> Forever
              [] m[1] = "IqPath" /\ m[2] \in left -> Ramp
              [] OTHER -> Loaded(p, h)[m]]
  <2>2. Default["SsiEnable"] \in Int /\ Forever \in Int /\ Ramp \in 0 .. 7
    BY DefaultAssumption DEF Logic, Counts
  <2>3. ASSUME NEW m \in Names
        PROVE  /\ MayHold(m, g[m]) /\ g[m] \in Int \cup {Unset}
               /\ ~ Forgotten(m, configure) => g[m] = h[m]
    <3>1. CASE m[1] = "SsiEnable"
      BY <1>3, <2>2, <3>1 DEF MayHold, Forgotten, Counts
    <3>2. CASE m[1] = "Disable"
      BY <1>3, <2>2, <3>2 DEF MayHold, Forgotten, Counts
    <3>3. CASE m[1] = "IqPath" /\ m[2] \in left
      BY <1>3, <2>2, <3>3 DEF MayHold, Forgotten
    <3>4. CASE m[1] \notin Counts /\ ~ (m[1] = "IqPath" /\ m[2] \in left)
      BY <1>2, <3>4 DEF Counts
    <3> QED
      BY <3>1, <3>2, <3>3, <3>4 DEF Counts
  <2>4. g \in [Names -> Int \cup {Unset}]
    BY <2>3
  <2>5. c \in Resent(Channels, copies, g)
    BY <2>1
  <2> HIDE DEF g
  <2>6. /\ c \in [Names -> Int \cup {Unset}]
        /\ \A m \in Names : MayHold(m, c[m]) /\ (c[m] = g[m] \/ SentAgain(m, Channels, copies, c[m]))
    BY <2>3, <2>4, <2>5, ResentIs
  <2>7. ASSUME NEW m \in Names, ~ Forgotten(m, configure) PROVE c[m] = h[m]
    <3>1. m[1] \notin {"TxAttn", "TxBoost"}
      BY <2>7 DEF Forgotten, Device, Stored
    <3> QED
      BY <2>3, <2>6, <2>7, <3>1 DEF SentAgain
  <2> QED
    BY <2>6, <2>7
<1>4. \/ after.held = HalfLoaded(h) \/ after.held = Loaded(p, h)
      \/ configure /\ after.held \in Configured(copies, Loaded(p, h))
  BY DEF AfterLoad
<1> QED
  BY <1>1, <1>2, <1>3, <1>4

LEMMA SetDpdEnableSteps ==
  ASSUME Hope, NEW n, NEW text \in Typed[n[1]] \cup {Junk}, SetDpdEnable(n, text)
  PROVE  Step
<1>1. PICK v \in Scan("DpdEnable", text) :
        LET p == IF v = 1 THEN "rf1" ELSE "rf2"
            configure == v # 1
        IN \E after \in AfterLoad(p, configure, cache, held) :
             /\ held' = after.held
             /\ Reply(n, IF after.ok THEN "Success" ELSE "Error")
             /\ believed' = [m \in Names |->
                  IF Forgotten(m, configure) THEN Unset ELSE believed[m]]
  BY DEF SetDpdEnable
<1> DEFINE p == IF v = 1 THEN "rf1" ELSE "rf2"
           configure == v # 1
<1>2. PICK after \in AfterLoad(p, configure, cache, held) :
             /\ held' = after.held
             /\ Reply(n, IF after.ok THEN "Success" ELSE "Error")
             /\ believed' = [m \in Names |->
                  IF Forgotten(m, configure) THEN Unset ELSE believed[m]]
  BY <1>1
<1>3. /\ held \in [Names -> Int \cup {Unset}] /\ cache \in [Copies -> Nat]
      /\ believed \in [Names -> Int \cup {Unset}] /\ radio \in {"off", "up"}
      /\ \A m \in Names : MayHold(m, held[m]) /\ BeliefOf(m)
  BY HeldTypes DEF Hope, TypeOK, BeliefIsHeld, BeliefOf
<1>4. radio' = radio /\ cache' = cache /\ plan' = plan /\ manual' \in BOOLEAN
  BY DEF SetDpdEnable
<1>5. p \in Profiles /\ configure \in BOOLEAN
  BY DEF Profiles
<1> HIDE DEF p, configure
<1>6. /\ held' \in [Names -> Int \cup {Unset}]
      /\ \A m \in Names : /\ MayHold(m, held'[m])
                          /\ ~ Forgotten(m, configure) => held'[m] = held[m]
  BY <1>2, <1>3, <1>5, AfterLoadIs
<1>7. /\ believed' \in [Names -> Int \cup {Unset}]
      /\ \A m \in Names :
           believed'[m] = IF Forgotten(m, configure) THEN Unset ELSE believed[m]
  BY <1>2, <1>3
<1>8. reply'.name = n /\ reply'.status \in Statuses /\ Loading'
  <2>1. n[1] = "DpdEnable" /\ n \in Commands \X Channels
    BY AskedIs DEF SetDpdEnable, Hope
  <2>2. reply'.name = n /\ reply'.status \in Statuses
    BY <1>2 DEF Reply, Statuses
  <2> QED
    BY <2>1, <2>2 DEF Loading
<1>9. ASSUME NEW m \in Names
      PROVE  MayHold(m, held'[m]) /\ BeliefOf(m)' /\ PartsOf(m) /\ ChangesOf(m)
  <2>1. BeliefOf(m)'
    <3>1. CASE Forgotten(m, configure)
      BY <1>7, <3>1, Doubted
    <3>2. CASE ~ Forgotten(m, configure)
      BY <1>3, <1>4, <1>6, <1>7, <3>2, Untouched
    <3> QED
      BY <3>1, <3>2
  <2>2. Forgotten(m, configure) => Forgotten(m, TRUE)
    BY DEF Forgotten
  <2> QED
    BY <1>6, <1>8, <2>1, <2>2 DEF PartsOf, ChangesOf
<1> QED
  BY <1>3, <1>4, <1>6, <1>7, <1>8, <1>9, Pointwise

(* Any command.                                                            *)
LEMMA SetParamSteps ==
  ASSUME Hope, NEW n \in plan, NEW text \in Typed[n[1]] \cup {Junk}, SetParam(n, text)
  PROVE  Step
  BY SetStoredSteps, SetLoopBackSteps, SetPortSteps, SetCarrierSteps, SetDpdSteps,
     SetGainSteps, SetRegisterSteps, EnableSteps, SetNothingSteps, SetDpdEnableSteps DEF SetParam

-----------------------------------------------------------------------------
(* Start-up, and the state before it.                                      *)

LEMMA FreshIs ==
  Fresh \in [Names -> Int \cup {Unset}] /\ \A m \in Names : MayHold(m, Fresh[m])
<1>1. \A k \in Logic : Default[k] \in Int
  BY DefaultAssumption
<1>2. \A m \in Names : Fresh[m] = IF m[1] \in Logic THEN Default[m[1]] ELSE Unset
  BY DEF Fresh
<1>3. "TxAttn" \notin Logic /\ "IqPath" \in Logic /\ Default["IqPath"] \in 0 .. 7
  BY DefaultAssumption DEF Logic, Counts
<1>4. Fresh \in [Names -> Int \cup {Unset}]
  BY <1>1 DEF Fresh
<1> QED
  BY <1>1, <1>2, <1>3, <1>4 DEF MayHold

LEMMA CopiesFresh ==
  FreshCopies \in [Copies -> Nat]
<1>1. \A n \in Copies : Default[n[1]] \in Nat
  BY DefaultAssumption DEF Copies
<1> QED
  BY <1>1 DEF FreshCopies

(* Nothing can be wrong where nothing is believed. *)
LEMMA NothingBelieved ==
  ASSUME believed = [n \in Names |-> Unset]
  PROVE  BeliefIsHeld /\ believed \in [Names -> Int \cup {Unset}]
  BY DEF BeliefIsHeld

LEMMA TypesOf ==
  ASSUME held \in [Names -> Int \cup {Unset}], \A m \in Names : MayHold(m, held[m])
  PROVE  \A c \in Channels : /\ held[<<"TxAttn", c>>] \in (0 .. MaxAttn) \cup {Unset}
                             /\ held[<<"IqPath", c>>] \in 0 .. 7
<1> SUFFICES ASSUME NEW c \in Channels
             PROVE  /\ held[<<"TxAttn", c>>] \in (0 .. MaxAttn) \cup {Unset}
                    /\ held[<<"IqPath", c>>] \in 0 .. 7
  OBVIOUS
<1>1. <<"TxAttn", c>> \in Names /\ <<"IqPath", c>> \in Names
  BY DEF Names, Kinds, Device, Stored, Logic
<1> QED
  BY <1>1 DEF MayHold

LEMMA OffHope ==
  Off /\ plan \in Plans => Hope
<1> SUFFICES ASSUME Off, plan \in Plans PROVE Hope
  OBVIOUS
<1>1. held \in [Names -> Int \cup {Unset}] /\ \A m \in Names : MayHold(m, held[m])
  BY FreshIs DEF Off
<1>2. cache \in [Copies -> Nat]
  BY CopiesFresh DEF Off
<1>3. BeliefIsHeld /\ believed \in [Names -> Int \cup {Unset}]
  BY NothingBelieved DEF Off
<1>4. reply.status \in Statuses /\ radio \in {"off", "up"} /\ manual \in BOOLEAN
  BY DEF Off, NoReply, Statuses
<1> QED
  BY <1>1, <1>2, <1>3, <1>4, TypesOf DEF Hope, TypeOK

LEMMA InitializeSteps ==
  ASSUME Hope, Initialize
  PROVE  Step
<1>1. PICK after \in AfterLoad("rf1", TRUE, FreshCopies, Fresh) : held' = after.held
  BY DEF Initialize
<1>2. held' \in [Names -> Int \cup {Unset}] /\ \A m \in Names : MayHold(m, held'[m])
  BY <1>1, FreshIs, CopiesFresh, AfterLoadIs DEF Profiles
<1>3. cache' \in [Copies -> Nat]
  BY CopiesFresh DEF Initialize
<1>4. believed' = [n \in Names |-> Unset] /\ believed' \in [Names -> Int \cup {Unset}]
  BY DEF Initialize
<1>5. reply'.status \in Statuses /\ plan' = plan /\ radio' = "up" /\ radio = "off" /\ manual' \in BOOLEAN
  BY DEF Initialize, Hope, TypeOK
<1>6. ASSUME NEW c \in Channels
      PROVE  /\ held'[<<"TxAttn", c>>] \in (0 .. MaxAttn) \cup {Unset}
             /\ held'[<<"IqPath", c>>] \in 0 .. 7
  <2>1. <<"TxAttn", c>> \in Names /\ <<"IqPath", c>> \in Names
    BY DEF Names, Kinds, Device, Stored, Logic
  <2> QED
    BY <1>2, <2>1 DEF MayHold
<1>7. TypeOK'
  BY <1>2, <1>3, <1>4, <1>5, <1>6 DEF Hope, TypeOK
<1>8. BeliefIsHeld'
  BY <1>4 DEF BeliefIsHeld
<1> QED
  BY <1>5, <1>7, <1>8 DEF Step, Hope, PartsOnly, ChangesOnly

-----------------------------------------------------------------------------
(* The reboot.                                                             *)

Placed ==
  /\ pc \in Points
  /\ bootBin \in Images
  /\ file \in Files
  /\ copied \in 0 .. Chunks
  /\ lost \in BOOLEAN
  /\ opened \in BOOLEAN
  /\ spared \in BOOLEAN
  /\ pc \in {"rom", "dead", "start"} => radio = "off"

(* What a Reboot that nothing has disturbed has done so far. *)
Copying ==
  spared /\ file = "image" =>
    /\ pc \in {"unlink", "open", "create"} => ~ lost /\ copied = 0
    /\ pc = "copy" => opened /\ ~ lost
    /\ pc = "close" => opened /\ ~ lost /\ copied = Chunks
    /\ pc \in {"reset", "fault", "rom", "dead", "start", "ready"} => bootBin = "new"

BootInv == Hope /\ Placed /\ Copying

Kept == PartsOnly /\ ChangesOnly

-----------------------------------------------------------------------------

LEMMA Begins == BootInit => BootInv
<1> SUFFICES ASSUME BootInit PROVE BootInv
  OBVIOUS
<1>1. Hope
  BY OffHope DEF BootInit, Init
<1>2. Placed
  <2>1. radio = "off"
    BY DEF BootInit, Init, Off
  <2>2. copied \in 0 .. Chunks
    BY ChunksAssumption DEF BootInit
  <2> QED
    BY <2>1, <2>2 DEF BootInit, Placed, Points, Images, Files
<1>3. Copying
  BY DEF BootInit, Copying
<1> QED
  BY <1>1, <1>2, <1>3 DEF BootInv

(* A step of Reboot, or of the processor, that leaves the parameters. *)
LEMMA ParamsStay ==
  ASSUME Hope, UNCHANGED vars
  PROVE  Hope' /\ Kept
<1>1. Hope'
  BY DEF Hope, TypeOK, BeliefIsHeld, Agrees, Shown, vars
<1>2. \A n \in Copies : Coherent(n)' = Coherent(n)
  BY DEF Coherent, Agrees, vars
<1>3. held' = held
  BY DEF vars
<1> QED
  BY <1>1, <1>2, <1>3 DEF Kept, PartsOnly, ChangesOnly

LEMMA ParamsLost ==
  ASSUME Hope, SwitchedOff
  PROVE  Hope' /\ Kept
<1>1. Off'
  BY DEF SwitchedOff, Off, Fresh, FreshCopies, NoReply
<1>2. (plan \in Plans)'
  BY DEF SwitchedOff, Hope, TypeOK
<1>3. Hope'
  BY <1>1, <1>2, OffHope, PTL
<1>4. radio' = "off"
  BY DEF SwitchedOff
<1> QED
  BY <1>3, <1>4 DEF Kept, PartsOnly, ChangesOnly

-----------------------------------------------------------------------------
(* Every step keeps the invariant and is one that a parameter may take.    *)

LEMMA StartUpSteps ==
  ASSUME BootInv, Rom \/ StartRadio \/ Command \/ PowerCut
  PROVE  BootInv' /\ Kept
<1>0. Hope /\ Placed /\ Copying
  BY DEF BootInv
<1>1. CASE Rom
  <2>1. Hope' /\ Kept /\ radio' = radio
    BY <1>0, <1>1, ParamsStay DEF Rom, vars
  <2>2. Placed'
    BY <1>0, <1>1, <2>1 DEF Rom, Goto, Placed, Points
  <2>3. Copying'
    BY <1>0, <1>1 DEF Rom, Goto, Copying
  <2> QED
    BY <2>1, <2>2, <2>3 DEF BootInv
<1>2. CASE StartRadio
  <2>1. Hope' /\ Kept
    BY <1>0, <1>2, InitializeSteps DEF StartRadio, Step, Kept
  <2>2. Placed'
    BY <1>0, <1>2 DEF StartRadio, Goto, Placed, Points
  <2>3. Copying'
    BY <1>0, <1>2 DEF StartRadio, Goto, Copying
  <2> QED
    BY <2>1, <2>2, <2>3 DEF BootInv
<1>3. CASE Command
  <2>1. PICK n \in plan : \E text \in Typed[n[1]] \cup {Junk} : SetParam(n, text)
    BY <1>3 DEF Command
  <2>2. Hope' /\ Kept
    BY <1>0, <2>1, SetParamSteps DEF Step, Kept
  <2>3. pc = "ready" /\ UNCHANGED bootVars
    BY <1>3 DEF Command
  <2>4. Placed'
    BY <1>0, <2>3 DEF bootVars, Placed
  <2>5. Copying'
    BY <1>0, <2>3 DEF bootVars, Copying
  <2> QED
    BY <2>2, <2>4, <2>5 DEF BootInv
<1>4. CASE PowerCut
  <2>1. Hope' /\ Kept
    BY <1>0, <1>4, ParamsLost DEF PowerCut
  <2>2. Placed'
    BY <1>0, <1>4 DEF PowerCut, SwitchedOff, Goto, Placed, Points
  <2>3. Copying'
    BY <1>4 DEF PowerCut, Copying
  <2> QED
    BY <2>1, <2>2, <2>3 DEF BootInv
<1> QED
  BY <1>1, <1>2, <1>3, <1>4

LEMMA RebootSteps ==
  ASSUME BootInv, RebootPlain \/ (\E f \in Files : RebootWith(f)) \/ RebootStep
  PROVE  BootInv' /\ Kept
<1>0. Hope /\ Placed /\ Copying /\ Chunks \in Nat
  BY ChunksAssumption DEF BootInv
<1>1. CASE Reset
  <2>1. Hope' /\ Kept
    BY <1>0, <1>1, ParamsLost DEF Reset
  <2>2. Placed'
    BY <1>0, <1>1 DEF Reset, SwitchedOff, Goto, Placed, Points
  <2>3. Copying'
    BY <1>0, <1>1 DEF Reset, Goto, Copying
  <2> QED
    BY <2>1, <2>2, <2>3 DEF BootInv
<1>2. CASE RebootPlain \/ (\E f \in Files : RebootWith(f)) \/ Unlink \/ OpenImage
             \/ CreateBoot \/ CopyChunk \/ CloseBoot
  <2>1. UNCHANGED vars
    BY <1>2 DEF RebootPlain, RebootWith, Unlink, OpenImage, CreateBoot, CopyChunk, CloseBoot, GiveUp
  <2>2. Hope' /\ Kept /\ radio' = radio
    BY <1>0, <2>1, ParamsStay DEF vars
  <2>3. ASSUME GiveUp PROVE Placed' /\ Copying'
    BY <1>0, <2>2, <2>3 DEF GiveUp, Goto, Placed, Copying, Points
  <2>4. ASSUME RebootPlain PROVE Placed' /\ Copying'
    BY <1>0, <2>2, <2>4 DEF RebootPlain, Goto, Placed, Copying, Points
  <2>5. ASSUME \E f \in Files : RebootWith(f) PROVE Placed' /\ Copying'
    <3>1. PICK f \in Files : RebootWith(f)
      BY <2>5
    <3>2. pc' = "unlink" /\ file' = f /\ copied' = 0 /\ bootBin' = bootBin /\ opened' = opened
      BY <3>1 DEF RebootWith, Goto
    <3>3. ~ lost' /\ lost' \in BOOLEAN /\ spared' \in BOOLEAN
      BY <3>1, Zenon DEF RebootWith
    <3> QED
      BY <1>0, <2>2, <3>2, <3>3 DEF Placed, Copying, Points
  <2>6. ASSUME Unlink PROVE Placed' /\ Copying'
    <3>1. pc = "unlink"
      BY <2>6 DEF Unlink
    <3>2. CASE ~ GiveUp
      BY <1>0, <2>2, <2>6, <3>1, <3>2 DEF Unlink, Goto, Placed, Copying, Points, Images
    <3> QED
      BY <2>3, <3>2
  <2>7. ASSUME OpenImage PROVE Placed' /\ Copying'
    <3>1. CASE ~ GiveUp
      BY <1>0, <2>2, <2>7, <3>1 DEF OpenImage, Goto, Placed, Copying, Points
    <3> QED
      BY <2>3, <3>1
  <2>8. ASSUME CreateBoot PROVE Placed' /\ Copying'
    <3>1. CASE ~ GiveUp
      <4>1. /\ pc = "create" /\ pc' = "copy" /\ bootBin' = "torn"
            /\ UNCHANGED <<file, copied, lost, spared>>
        BY <2>8, <3>1 DEF CreateBoot, Goto
      <4>2. opened' /\ opened' \in BOOLEAN
        BY <2>8, <3>1, Zenon DEF CreateBoot
      <4> QED
        BY <1>0, <2>2, <4>1, <4>2 DEF Placed, Copying, Points, Images
    <3> QED
      BY <2>3, <3>1
  <2>9. ASSUME CopyChunk PROVE Placed' /\ Copying'
    <3>1. pc = "copy" /\ (~ GiveUp => UNCHANGED <<bootBin, file, opened>>)
      BY <2>9 DEF CopyChunk
    <3>2. CASE copied < Chunks /\ copied' = copied + 1 /\ pc' = pc /\ UNCHANGED <<lost, spared>> /\ ~ GiveUp
      BY <1>0, <2>2, <3>1, <3>2 DEF Placed, Copying, Points
    <3>3. CASE copied < Chunks /\ copied' = copied + 1 /\ pc' = pc /\ lost' = TRUE /\ spared' = FALSE /\ ~ GiveUp
      <4>1. lost' \in BOOLEAN /\ spared' \in BOOLEAN /\ ~ spared'
        BY <3>3, Zenon
      <4> QED
        BY <1>0, <2>2, <3>1, <3>3, <4>1 DEF Placed, Copying, Points
    <3>4. CASE copied = Chunks /\ pc' = "close" /\ UNCHANGED <<copied, lost, spared>> /\ ~ GiveUp
      BY <1>0, <2>2, <3>1, <3>4 DEF Placed, Copying, Points
    <3> QED
      BY <2>3, <2>9, <3>2, <3>3, <3>4 DEF CopyChunk, Goto
  <2>10. ASSUME CloseBoot PROVE Placed' /\ Copying'
    <3>1. /\ pc = "close" /\ opened' = FALSE /\ pc' \in {"reset", "fault"}
          /\ UNCHANGED <<file, copied, lost>>
      BY <2>10 DEF CloseBoot, Goto
    <3>2. bootBin' \in Images /\ spared' \in BOOLEAN
      BY <1>0, <2>10 DEF CloseBoot, Placed, Images
    <3>3. Placed'
      BY <1>0, <3>1, <3>2 DEF Placed, Points
    <3>4. spared' /\ file = "image" => spared /\ opened
      BY <1>0, <2>10, <3>1 DEF CloseBoot, Placed, Copying
    <3>5. spared' /\ opened => bootBin' = IF copied = Chunks /\ ~ lost THEN "new" ELSE "torn"
      BY <2>10 DEF CloseBoot
    <3>6. Copying'
      BY <1>0, <3>1, <3>4, <3>5 DEF Copying
    <3> QED
      BY <3>3, <3>6
  <2> QED
    BY <1>2, <2>2, <2>4, <2>5, <2>6, <2>7, <2>8, <2>9, <2>10 DEF BootInv
<1> QED
  BY <1>1, <1>2 DEF RebootStep

LEMMA Steps ==
  BootInv /\ [BootNext]_allVars => BootInv' /\ Kept
<1> SUFFICES ASSUME BootInv, [BootNext]_allVars PROVE BootInv' /\ Kept
  OBVIOUS
<1>1. CASE BootNext
  BY <1>1, StartUpSteps, RebootSteps DEF BootNext
<1>2. CASE UNCHANGED allVars
  <2>1. Hope' /\ Kept /\ UNCHANGED bootVars /\ radio' = radio
    BY <1>2, ParamsStay DEF BootInv, allVars, vars
  <2>2. Placed' /\ Copying'
    BY <2>1 DEF BootInv, Placed, Copying, bootVars
  <2> QED
    BY <2>1, <2>2 DEF BootInv
<1> QED
  BY <1>1, <1>2

-----------------------------------------------------------------------------

LEMMA Always ==
  BootSpec => []BootInv /\ [][Kept]_vars
<1>1. BootInv /\ [BootNext]_allVars => Kept
  BY Steps
<1> QED
  BY Begins, Steps, PTL DEF BootSpec

(* Every variable has its type: what is held as an attenuation fits 16     *)
(* bits and a data source three, whatever was typed and whatever failed.   *)
THEOREM TypeCorrect == BootSpec => []BootTypeOK
<1>1. BootInv => BootTypeOK
  BY DEF BootInv, Hope, Placed, BootTypeOK
<1> QED
  BY <1>1, Always, PTL

(* A number in range that was set with "Success" is held and shown until   *)
(* it is set again or a profile is loaded.                                 *)
THEOREM SuccessIsHeld == BootSpec => []BeliefIsHeld
<1>1. BootInv => BeliefIsHeld
  BY DEF BootInv, Hope
<1> QED
  BY <1>1, Always, PTL

(* Copies part from the transceiver only by a load, or by a set of that    *)
(* very parameter that failed or whose number does not fit.                *)
THEOREM CopiesPartOnlyBy == BootSpec => CoherenceLostOnlyBy
<1>1. Kept => PartsOnly
  BY DEF Kept
<1> QED
  BY <1>1, Always, PTL DEF CoherenceLostOnlyBy

(* A set changes no other parameter, but for the input port that a carrier *)
(* brings back, and the attenuation and boost that enabling a transmitter  *)
(* brings back.                                                            *)
THEOREM SetsChangeOnly == BootSpec => OnlyAsNamed
<1>1. Kept => ChangesOnly
  BY DEF Kept
<1> QED
  BY <1>1, Always, PTL DEF OnlyAsNamed

(* A Reboot with a whole image under another name starts all of it, unless *)
(* a call fails or power is cut.                                           *)
THEOREM RebootIsSafe == BootSpec => []SafeReboot
<1>1. BootInv => SafeReboot
  BY DEF BootInv, Copying, SafeReboot
<1> QED
  BY <1>1, Always, PTL

LEMMA RebootGoesOn ==
  ASSUME BootInv, BootNext, pc \in Rebooting
  PROVE  RebootLeft' < RebootLeft
<1>0. Chunks \in Nat /\ copied \in Nat /\ copied <= Chunks
  BY ChunksAssumption DEF BootInv, Placed
<1>1. pc # "rom" /\ pc # "dead" /\ pc # "start" /\ pc # "ready"
  BY DEF Rebooting
<1>2. CASE PowerCut
  <2>1. pc' = "rom"
    BY <1>2 DEF PowerCut, Goto
  <2> QED
    BY <1>0, <2>1 DEF RebootLeft, Rebooting
<1>3. CASE Unlink \/ OpenImage \/ CreateBoot
  <2>1. copied' = copied
    BY <1>3 DEF Unlink, OpenImage, CreateBoot, GiveUp
  <2>2. \/ pc = "unlink" /\ pc' \in {"open", "close"}
        \/ pc = "open" /\ pc' \in {"create", "close"}
        \/ pc = "create" /\ pc' \in {"copy", "close"}
    BY <1>3 DEF Unlink, OpenImage, CreateBoot, GiveUp, Goto
  <2> QED
    BY <1>0, <2>1, <2>2 DEF RebootLeft
<1>4. CASE CopyChunk
  <2>1. /\ pc = "copy"
        /\ \/ copied' = copied + 1 /\ copied < Chunks /\ pc' = "copy"
           \/ pc' = "close"
    BY <1>4 DEF CopyChunk, GiveUp, Goto
  <2> QED
    BY <1>0, <2>1 DEF RebootLeft
<1>5. CASE CloseBoot \/ Reset
  <2>1. \/ pc = "close" /\ pc' \in {"reset", "fault"}
        \/ pc = "reset" /\ pc' = "rom"
    BY <1>5 DEF CloseBoot, Reset, Goto
  <2> QED
    BY <2>1 DEF RebootLeft
<1> QED
  BY <1>1, <1>2, <1>3, <1>4, <1>5
     DEF BootNext, Rom, StartRadio, Command, RebootPlain, RebootWith, RebootStep

(* A Reboot does nothing twice and waits for nothing: whatever fails, each *)
(* step brings its end closer, for images of any length                    *)
(* (rflan_cli.c:226-310).                                                  *)
THEOREM RebootCloser == BootSpec => RebootComesCloser
<1>1. BootInv /\ [BootNext]_allVars => [(pc \in Rebooting) => RebootLeft' < RebootLeft]_allVars
  BY RebootGoesOn
<1> QED
  BY <1>1, Always, PTL DEF BootSpec, RebootComesCloser

=============================================================================
