------------------------------ MODULE CliProofs ------------------------------
(***************************************************************************)
(* The command line, for any alphabet, commands, buffers and number of     *)
(* operators: what is on the screen is what will run; and, for one who     *)
(* waits for his commands, the shell is implemented.                       *)
(***************************************************************************)
EXTENDS Cli, SequenceTheorems, FiniteSetTheorems, WellFoundedInduction, TLAPS

(* HistoryHead is where a line of the history begins, and every line up to *)
(* that one begins within HistoryBuf, or just behind it.                   *)
Placed(e) ==
  e.head > 0 =>
    \E pos \in [1 .. e.head -> 1 .. HistorySize + 1] : Laid(e, pos) /\ pos[e.head] = e.at

(* An editor whose line fits its buffer, as every earlier one did. *)
Fits(e) ==
  /\ e \in Editor /\ Len(e.line) < LineSize
  /\ \A i \in 1 .. Len(e.history) : Len(e.history[i]) < LineSize
  /\ Placed(e)

LEMMA Sizes ==
  /\ QueueSize \in Nat \ {0} /\ LineSize \in Nat \ {0} /\ HistorySize \in Nat \ {0}
  /\ MaxInputs \in Nat /\ MaxBusy \in Nat
  /\ File \in Seq(Chars) /\ \A i \in Inputs \cup BusyInputs : i.keys \in Seq(Chars)
  /\ \A c \in Commands : c \in Seq(Chars) /\ Len(c) < LineSize
  BY CliAssumption

LEMMA LeastNumber ==
  ASSUME NEW T, T \subseteq Nat, T # {}
  PROVE  \E n \in T : \A m \in T : n <= m
<1> DEFINE R == {ss \in Nat \X Nat : ss[1] < ss[2]}
<1>1. IsWellFoundedOn(R, Nat)
  BY NatLessThanWellFounded DEF OpToRel
<1>2. PICK n \in T : \A m \in T : ~ (<<m, n>> \in R)
  <2> HIDE DEF R
  <2> QED
    BY <1>1, WFMin
<1>3. \A m \in T : ~ (m < n)
  BY <1>2
<1> QED
  BY <1>3

-----------------------------------------------------------------------------
(* The editor.                                                             *)

(* What is seen of the line is the line, unless it was formatted. *)
Agree(e) == e.echo = "plain" => e.screen = e.line

(* Another line, screen and echo leave the history as it was. *)
LEMMA StillFits ==
  ASSUME NEW e, Fits(e), NEW f \in Editor, Len(f.line) < LineSize,
         f.history = e.history, f.head = e.head, f.at = e.at
  PROVE  Fits(f)
<1>1. \A pos : Laid(f, pos) <=> Laid(e, pos)
  BY DEF Laid, Entry
<1>2. Placed(f)
  BY <1>1 DEF Fits, Placed
<1> QED
  BY <1>2 DEF Fits

(* What a drawn line leaves alone, and what it shows. *)
LEMMA Redraws ==
  ASSUME NEW e, Fits(e), NEW l \in Seq(Chars), Len(l) < LineSize
  PROVE  LET f == Redraw(e, l)
         IN  /\ Fits(f) /\ Agree(f) /\ f.line = l
             /\ f.history = e.history /\ f.head = e.head /\ f.at = e.at
<1> DEFINE f == Redraw(e, l)
<1>1. e \in Editor /\ <<>> \in Seq(Chars)
  BY DEF Fits
<1>2. /\ f \in Editor /\ f.line = l /\ (f.echo = "plain" => f.screen = l)
      /\ f.history = e.history /\ f.head = e.head /\ f.at = e.at
  <2>1. CASE \A n \in 1 .. Len(l) : l[n] # "%"
    <3>1. f = [e EXCEPT !.line = l, !.screen = l, !.echo = "plain"]
      BY <2>1 DEF Redraw
    <3> HIDE DEF f
    <3> QED
      BY <1>1, <3>1 DEF Editor
  <2>2. CASE ~ \A n \in 1 .. Len(l) : l[n] # "%"
    <3>1. f = [e EXCEPT !.line = l, !.screen = <<>>, !.echo = "formatted"]
      BY <2>2 DEF Redraw
    <3> HIDE DEF f
    <3> QED
      BY <1>1, <3>1 DEF Editor
  <2> QED
    BY <2>1, <2>2
<1> HIDE DEF f
<1>3. Fits(f)
  BY <1>2, StillFits
<1> QED
  BY <1>2, <1>3 DEF Agree, f

LEMMA Saves ==
  ASSUME NEW e, Fits(e), NEW c \in Chars
  PROVE  Fits(Save(e, c)) /\ (Agree(e) => Agree(Save(e, c)))
<1>1. /\ e \in Editor /\ e.line \in Seq(Chars) /\ Len(e.line) \in Nat
      /\ e.screen \in Seq(Chars)
  BY DEF Fits, Editor
<1>2. CASE Len(e.line) < LineSize - 1 /\ c # "%"
  <2> DEFINE f == [e EXCEPT !.line = Append(e.line, c), !.screen = Append(e.screen, c)]
  <2>1. Save(e, c) = f
    BY <1>1, <1>2, Sizes DEF Save
  <2>2. Append(e.line, c) \in Seq(Chars) /\ Append(e.screen, c) \in Seq(Chars)
        /\ Len(Append(e.line, c)) = Len(e.line) + 1
    BY <1>1
  <2>3. /\ f \in Editor /\ f.line = Append(e.line, c) /\ f.screen = Append(e.screen, c)
        /\ f.history = e.history /\ f.head = e.head /\ f.at = e.at /\ f.echo = e.echo
    BY <1>1, <2>2 DEF Editor
  <2> HIDE DEF f
  <2>4. Len(f.line) < LineSize
    BY <1>1, <1>2, <2>2, <2>3, Sizes
  <2>5. Fits(f)
    BY <2>3, <2>4, StillFits
  <2> QED
    BY <2>1, <2>3, <2>5 DEF Agree
<1>3. CASE Len(e.line) < LineSize - 1 /\ c = "%"
  <2> DEFINE f == [e EXCEPT !.line = Append(e.line, c), !.echo = "formatted"]
  <2>1. Save(e, c) = f
    BY <1>1, <1>3, Sizes DEF Save
  <2>2. Append(e.line, c) \in Seq(Chars) /\ Len(Append(e.line, c)) = Len(e.line) + 1
    BY <1>1
  <2>3. /\ f \in Editor /\ f.line = Append(e.line, c) /\ f.echo = "formatted"
        /\ f.history = e.history /\ f.head = e.head /\ f.at = e.at
    BY <1>1, <2>2 DEF Editor
  <2> HIDE DEF f
  <2>4. Len(f.line) < LineSize
    BY <1>1, <1>3, <2>2, <2>3, Sizes
  <2>5. Fits(f)
    BY <2>3, <2>4, StillFits
  <2> QED
    BY <2>1, <2>3, <2>5 DEF Agree
<1>4. CASE ~ (Len(e.line) < LineSize - 1)
  <2>1. Save(e, c) = e
    BY <1>1, <1>4, Sizes DEF Save
  <2> QED
    BY <2>1
<1> QED
  BY <1>2, <1>3, <1>4

LEMMA FrontIs ==
  ASSUME NEW s \in Seq(Chars)
  PROVE  /\ Front(s) \in Seq(Chars)
         /\ s # <<>> => Len(Front(s)) = Len(s) - 1
<1> DEFINE n == Len(s) - 1
           f == SubSeq(s, 1, n)
<1>1. Len(s) \in Nat /\ n \in Int /\ \A i \in 1 .. n : s[i] \in Chars
  OBVIOUS
<1>2. f \in Seq(Chars) /\ Len(f) = IF 1 <= n THEN n - 1 + 1 ELSE 0
  <2> HIDE DEF n
  <2> QED
    BY <1>1, SubSeqProperties
<1>3. s # <<>> => n >= 0
  BY EmptySeq
<1> HIDE DEF f, n
<1>4. s # <<>> => Len(f) = n
  BY <1>1, <1>2, <1>3
<1> QED
  BY <1>2, <1>4 DEF Front, f, n

LEMMA Erases ==
  ASSUME NEW e, Fits(e)
  PROVE  Fits(Erase(e)) /\ (Agree(e) => Agree(Erase(e)))
<1>1. /\ e \in Editor /\ e.line \in Seq(Chars) /\ Len(e.line) \in Nat
      /\ e.screen \in Seq(Chars)
  BY DEF Fits, Editor
<1>2. CASE e.line = <<>>
  BY <1>2 DEF Erase
<1>3. CASE e.line # <<>>
  <2> DEFINE s == IF e.screen = <<>> THEN e.screen ELSE Front(e.screen)
             f == [e EXCEPT !.line = Front(e.line), !.screen = s]
  <2>1. Erase(e) = f
    BY <1>3 DEF Erase
  <2>2. /\ Front(e.line) \in Seq(Chars) /\ s \in Seq(Chars)
        /\ Len(Front(e.line)) = Len(e.line) - 1
    BY <1>1, <1>3, FrontIs
  <2>3. e.screen = e.line => s = Front(e.line)
    BY <1>3
  <2> HIDE DEF s
  <2>4. /\ f \in Editor /\ f.line = Front(e.line) /\ f.screen = s /\ f.echo = e.echo
        /\ f.history = e.history /\ f.head = e.head /\ f.at = e.at
    BY <1>1, <2>2 DEF Editor
  <2> HIDE DEF f
  <2>5. Len(f.line) < LineSize
    BY <1>1, <2>2, <2>4, Sizes DEF Fits
  <2>6. Fits(f)
    BY <2>4, <2>5, StillFits
  <2> QED
    BY <2>1, <2>3, <2>4, <2>6 DEF Agree
<1> QED
  BY <1>2, <1>3

(* What all matches share is a longest prefix of them all, and there is    *)
(* one: the line itself is a prefix of each.                               *)
LEMMA SharedPrefix ==
  ASSUME NEW line \in Seq(Chars), Matches(line) # {}
  PROVE  /\ LongestCommonPrefix(Matches(line)) \in Seq(Chars)
         /\ Len(LongestCommonPrefix(Matches(line))) < LineSize
         /\ \E c \in Commands : \E l \in 0 .. Len(c) :
              LongestCommonPrefix(Matches(line)) = SubSeq(c, 1, l)
<1> DEFINE M == Matches(line)
           P == CommonPrefixes(M)
<1>1. \A c \in M : c \in Seq(Chars) /\ Len(c) \in Nat /\ Len(c) < LineSize /\ IsPrefix(line, c)
  BY Sizes DEF Matches, IsStrictPrefix
<1>2. \A p \in P : /\ p \in Seq(Chars) /\ Len(p) \in Nat /\ Len(p) < LineSize
                   /\ \E c \in M : \E l \in 0 .. Len(c) : p = SubSeq(c, 1, l)
  <2> TAKE p \in P
  <2>1. PICK c \in M : p \in Prefixes(c)
    BY DEF CommonPrefixes
  <2>2. PICK l \in 0 .. Len(c) : p = SubSeq(c, 1, l)
    BY <2>1 DEF Prefixes
  <2>3. \A i \in 1 .. l : c[i] \in Chars
    BY <1>1, <2>2
  <2>4. p \in Seq(Chars) /\ Len(p) = IF 1 <= l THEN l - 1 + 1 ELSE 0
    BY <1>1, <2>2, <2>3, SubSeqProperties
  <2>5. /\ p \in Seq(Chars) /\ Len(p) \in Nat /\ Len(p) < LineSize
    BY <1>1, <2>4, Sizes
  <2> QED
    BY <2>2, <2>5
<1>3. line \in P
  <2>1. PICK c \in M : TRUE
    OBVIOUS
  <2>2. Len(line) \in 0 .. Len(c) /\ line = SubSeq(c, 1, Len(line))
    <3>1. IsPrefix(line, c) /\ Len(line) \in Nat
      BY <1>1, <2>1
    <3>2. SubSeq(line, 1, Len(line)) = line
      BY SubSeqFull
    <3> QED
      BY <1>1, <3>1, <3>2 DEF IsPrefix
  <2>3. line \in Prefixes(c)
    BY <2>2 DEF Prefixes
  <2> QED
    BY <1>1, <2>3 DEF CommonPrefixes
<1> HIDE DEF P
<1> DEFINE T == {LineSize - Len(p) : p \in P}
<1>4. T \subseteq Nat /\ T # {}
  BY <1>2, <1>3, Sizes
<1>5. PICK n \in T : \A m \in T : n <= m
  <2> HIDE DEF T
  <2> QED
    BY <1>4, LeastNumber
<1>6. PICK p \in P : n = LineSize - Len(p)
  BY <1>5
<1>7. \A q \in P : Len(q) <= Len(p)
  <2> TAKE q \in P
  <2>1. LineSize - Len(p) <= LineSize - Len(q)
    BY <1>5, <1>6
  <2> QED
    BY <2>1, <1>2, Sizes
<1>8. (CHOOSE longest \in P : \A other \in P : Len(other) <= Len(longest)) \in P
  BY <1>6, <1>7
<1>9. LongestCommonPrefix(M) \in P
  BY <1>8 DEF LongestCommonPrefix, P
<1>10. \A c \in M : c \in Commands
  BY DEF Matches
<1> QED
  BY <1>2, <1>9, <1>10

LEMMA Completes ==
  ASSUME NEW e, Fits(e)
  PROVE  /\ Fits(Complete(e)) /\ (Agree(e) => Agree(Complete(e)))
         /\ Complete(e).history = e.history /\ Complete(e).head = e.head
         /\ Complete(e).at = e.at
<1>1. e \in Editor /\ e.line \in Seq(Chars)
  BY DEF Fits, Editor
<1>2. CASE e.line = <<>> \/ Matches(e.line) = {}
  BY <1>2 DEF Complete
<1>3. CASE e.line # <<>> /\ Matches(e.line) # {}
  <2> DEFINE l == LongestCommonPrefix(Matches(e.line))
  <2>1. l \in Seq(Chars) /\ Len(l) < LineSize
    BY <1>1, <1>3, SharedPrefix
  <2>2. Complete(e) = Redraw(e, l)
    BY <1>3 DEF Complete
  <2> HIDE DEF l
  <2> QED
    BY <2>1, <2>2, Redraws
<1> QED
  BY <1>2, <1>3

(* Where an arrow leaves HistoryHead. *)
Moved(e, c) ==
  IF e.head = 0 THEN [e EXCEPT !.head = 1, !.at = 1]
  ELSE IF c = "A" THEN Older(e) ELSE Newer(e)

LEMMA EntryIs ==
  ASSUME NEW e, Fits(e), NEW n \in Nat, n >= 1
  PROVE  Entry(e, n) \in Seq(Chars) /\ Len(Entry(e, n)) \in Nat /\ Len(Entry(e, n)) < LineSize
<1>1. e.history \in Seq(Seq(Chars)) /\ Len(e.history) \in Nat
  BY DEF Fits, Editor
<1>2. CASE n <= Len(e.history)
  <2>1. n \in 1 .. Len(e.history) /\ e.history[n] \in Seq(Chars) /\ Entry(e, n) = e.history[n]
    BY <1>1, <1>2 DEF Entry
  <2> QED
    BY <2>1 DEF Fits
<1>3. CASE ~ (n <= Len(e.history))
  BY <1>3, Sizes DEF Entry
<1> QED
  BY <1>2, <1>3

(* One line back: it is where the zero of the last one ends. *)
LEMMA OlderFits ==
  ASSUME NEW e, Fits(e), e.head > 0
  PROVE  LET f == Older(e)
         IN  Fits(f) /\ f.head > 0 /\ f.history = e.history
             /\ f.line = e.line /\ f.screen = e.screen /\ f.echo = e.echo
<1> DEFINE n == e.head
           zero == e.at + Len(Entry(e, n))
<1>1. e \in Editor /\ n \in Nat /\ n >= 1 /\ e.at \in Int
  BY DEF Fits, Editor
<1>2. PICK pos \in [1 .. n -> 1 .. HistorySize + 1] : Laid(e, pos) /\ pos[n] = e.at
  BY DEF Fits, Placed
<1>3. Len(Entry(e, n)) \in Nat
  BY <1>1, EntryIs
<1>4. e.at \in 1 .. HistorySize + 1 /\ zero \in Nat
  BY <1>1, <1>2, <1>3, Sizes
<1>5. CASE ~ (zero <= HistorySize)
  BY <1>5 DEF Older
<1>6. CASE zero <= HistorySize
  <2> DEFINE f == [e EXCEPT !.head = n + 1, !.at = zero + 1]
             q == [m \in 1 .. n + 1 |-> IF m = n + 1 THEN zero + 1 ELSE pos[m]]
  <2>1. Older(e) = f
    BY <1>6 DEF Older
  <2>2. zero + 1 \in 1 .. HistorySize + 1 /\ zero + 1 = pos[n] + Len(Entry(e, n)) + 1
    BY <1>2, <1>3, <1>4, <1>6, Sizes
  <2> HIDE DEF zero
  <2>3. /\ f \in Editor /\ f.head = n + 1 /\ f.at = zero + 1 /\ f.history = e.history
        /\ f.line = e.line /\ f.screen = e.screen /\ f.echo = e.echo
    <3>1. n + 1 \in Nat /\ zero + 1 \in Int
      BY <1>1, <2>2, Sizes
    <3> QED
      BY <1>1, <3>1 DEF Editor
  <2>4. q \in [1 .. n + 1 -> 1 .. HistorySize + 1] /\ q[1] = 1 /\ q[n + 1] = zero + 1
    <3>1. \A m \in 1 .. n + 1 : m # n + 1 => m \in 1 .. n
      BY <1>1
    <3>2. pos[1] = 1
      BY <1>2 DEF Laid
    <3> QED
      BY <1>1, <1>2, <2>2, <3>1, <3>2
  <2>5. ASSUME NEW m \in 1 .. n + 1, m + 1 \in 1 .. n + 1
        PROVE  q[m + 1] = q[m] + Len(Entry(e, m)) + 1
    <3>1. CASE m = n
      <4>1. q[m + 1] = zero + 1 /\ q[m] = pos[n]
        BY <1>1, <3>1
      <4> QED
        BY <2>2, <3>1, <4>1
    <3>2. CASE m # n
      <4>1. m \in 1 .. n /\ m + 1 \in 1 .. n /\ m # n + 1 /\ m + 1 # n + 1
        BY <1>1, <2>5, <3>2
      <4>2. q[m + 1] = pos[m + 1] /\ q[m] = pos[m]
        BY <2>5, <4>1
      <4> QED
        BY <1>2, <4>1, <4>2 DEF Laid
    <3> QED
      BY <3>1, <3>2
  <2> HIDE DEF q
  <2>6. Laid(e, q)
    BY <2>4, <2>5 DEF Laid
  <2> HIDE DEF f
  <2>7. Laid(f, q)
    BY <2>3, <2>6 DEF Laid, Entry
  <2>8. Placed(f)
    BY <2>3, <2>4, <2>7 DEF Placed
  <2>9. Fits(f)
    BY <2>3, <2>8 DEF Fits
  <2> QED
    BY <1>1, <2>1, <2>3, <2>9
<1> QED
  BY <1>1, <1>5, <1>6

LEMMA NewerFits ==
  ASSUME NEW e, Fits(e), e.head > 0
  PROVE  LET f == Newer(e)
         IN  Fits(f) /\ f.head > 0 /\ f.history = e.history
             /\ f.line = e.line /\ f.screen = e.screen /\ f.echo = e.echo
<1> DEFINE n == e.head
           l == Len(Entry(e, n - 1))
<1>1. e \in Editor /\ n \in Nat /\ n >= 1 /\ e.at \in Int
  BY DEF Fits, Editor
<1>2. CASE ~ (n > 1)
  BY <1>2 DEF Newer
<1>3. CASE n > 1
  <2>1. n - 1 \in Nat /\ n - 1 >= 1 /\ n - 1 \in 1 .. n /\ (n - 1) + 1 = n
    BY <1>1, <1>3
  <2>2. PICK pos \in [1 .. n -> 1 .. HistorySize + 1] : Laid(e, pos) /\ pos[n] = e.at
    BY DEF Fits, Placed
  <2>3. l \in Nat
    BY <2>1, EntryIs
  <2>4. pos[n] = pos[n - 1] + l + 1 /\ pos[n - 1] \in Int
    BY <1>1, <2>1, <2>2, Sizes DEF Laid
  <2> DEFINE a == e.at - 1 - l
             f == [e EXCEPT !.head = n - 1, !.at = a]
             q == [m \in 1 .. n - 1 |-> pos[m]]
  <2>5. a = pos[n - 1] /\ a \in Int
    BY <2>2, <2>3, <2>4
  <2>6. Newer(e) = f
    BY <1>3 DEF Newer
  <2> HIDE DEF a
  <2>7. /\ f \in Editor /\ f.head = n - 1 /\ f.at = a /\ f.history = e.history
        /\ f.line = e.line /\ f.screen = e.screen /\ f.echo = e.echo
    BY <1>1, <2>1, <2>5 DEF Editor
  <2>8. \A m \in 1 .. n - 1 : m \in 1 .. n /\ q[m] = pos[m]
    BY <1>1
  <2>9. q \in [1 .. n - 1 -> 1 .. HistorySize + 1] /\ q[n - 1] = a
    BY <2>1, <2>2, <2>5, <2>8
  <2>10. Laid(e, q)
    BY <2>1, <2>2, <2>8, <2>9 DEF Laid
  <2> HIDE DEF f, q
  <2>11. Laid(f, q)
    BY <2>7, <2>10 DEF Laid, Entry
  <2>12. Placed(f)
    BY <2>7, <2>9, <2>11 DEF Placed
  <2>13. Fits(f)
    BY <2>7, <2>12 DEF Fits
  <2> QED
    BY <2>1, <2>6, <2>7, <2>13
<1> QED
  BY <1>1, <1>2, <1>3

LEMMA MovedFits ==
  ASSUME NEW e, Fits(e), NEW c
  PROVE  LET f == Moved(e, c)
         IN  Fits(f) /\ f.head > 0 /\ f.history = e.history
             /\ f.line = e.line /\ f.screen = e.screen /\ f.echo = e.echo
<1>1. e \in Editor /\ e.head \in Nat
  BY DEF Fits, Editor
<1>2. CASE e.head = 0
  <2> DEFINE f == [e EXCEPT !.head = 1, !.at = 1]
             q == [m \in 1 .. 1 |-> 1]
  <2>1. /\ f \in Editor /\ f.head = 1 /\ f.at = 1 /\ f.history = e.history
        /\ f.line = e.line /\ f.screen = e.screen /\ f.echo = e.echo
    <3>1. 1 \in Nat /\ 1 \in Int
      OBVIOUS
    <3> QED
      BY <1>1, <3>1 DEF Editor
  <2> HIDE DEF f
  <2>2. q \in [1 .. 1 -> 1 .. HistorySize + 1] /\ q[1] = 1 /\ Laid(f, q)
    BY Sizes DEF Laid
  <2> HIDE DEF q
  <2>3. Placed(f)
    BY <2>1, <2>2 DEF Placed
  <2>4. Fits(f)
    BY <2>1, <2>3 DEF Fits
  <2> QED
    BY <1>2, <2>1, <2>4 DEF Moved, f
<1>3. CASE e.head # 0 /\ c = "A"
  <2>1. e.head > 0 /\ Moved(e, c) = Older(e)
    BY <1>1, <1>3 DEF Moved
  <2> QED
    BY <2>1, OlderFits
<1>4. CASE e.head # 0 /\ c # "A"
  <2>1. e.head > 0 /\ Moved(e, c) = Newer(e)
    BY <1>1, <1>4 DEF Moved
  <2> QED
    BY <2>1, NewerFits
<1> QED
  BY <1>2, <1>3, <1>4

LEMMA RecallIs ==
  ASSUME NEW e, Fits(e), NEW c, e.head = 0 \/ c \in {"A", "B"}
  PROVE  Recall(e, c) = Redraw(Moved(e, c), Remembered(Moved(e, c)))
<1>1. e.head \in Nat
  BY DEF Fits, Editor
<1>2. ~ (e.head > 0 /\ c \notin {"A", "B"})
  BY <1>1
<1> DEFINE f == CASE e.head = 0 -> [e EXCEPT !.head = 1, !.at = 1]
                  [] e.head > 0 /\ c = "A" -> Older(e)
                  [] e.head > 0 /\ c # "A" -> Newer(e)
<1>3. f = Moved(e, c)
  BY <1>1 DEF Moved
<1>4. Recall(e, c) = Redraw(f, Remembered(f))
  BY <1>2 DEF Recall
<1> QED
  BY <1>3, <1>4

(* What the history has of a line is no longer than the line. *)
LEMMA RememberedIs ==
  ASSUME NEW e, Fits(e), e.head > 0
  PROVE  Remembered(e) \in Seq(Chars) /\ Len(Remembered(e)) < LineSize
<1> DEFINE l == Entry(e, e.head)
           room == HistorySize + 1 - e.at
<1>1. e.head \in Nat /\ e.head >= 1
  BY DEF Fits, Editor
<1>2. l \in Seq(Chars) /\ Len(l) \in Nat /\ Len(l) < LineSize
  BY <1>1, EntryIs
<1>3. room \in Nat
  <2>1. PICK pos \in [1 .. e.head -> 1 .. HistorySize + 1] : pos[e.head] = e.at
    BY DEF Fits, Placed
  <2>2. e.at \in 1 .. HistorySize + 1
    BY <1>1, <2>1
  <2> QED
    BY <2>2, Sizes
<1>4. Remembered(e) = IF Len(l) <= room THEN l ELSE SubSeq(l, 1, room)
  BY DEF Remembered
<1> HIDE DEF l, room
<1>5. CASE Len(l) <= room
  BY <1>2, <1>4, <1>5
<1>6. CASE ~ (Len(l) <= room)
  <2>1. \A i \in 1 .. room : l[i] \in Chars
    BY <1>2, <1>3, <1>6
  <2>2. SubSeq(l, 1, room) \in Seq(Chars)
        /\ Len(SubSeq(l, 1, room)) = IF 1 <= room THEN room - 1 + 1 ELSE 0
    BY <1>2, <1>3, <2>1, SubSeqProperties
  <2>3. Len(SubSeq(l, 1, room)) = room /\ room < LineSize
    BY <1>2, <1>3, <1>6, <2>2, Sizes
  <2> QED
    BY <1>4, <1>6, <2>2, <2>3
<1> QED
  BY <1>5, <1>6

LEMMA Recalls ==
  ASSUME NEW e, Fits(e), NEW c
  PROVE  /\ Fits(Recall(e, c))
         /\ Recall(e, c).history = e.history
         /\ (Agree(e) => Agree(Recall(e, c)))
<1>1. e.head \in Nat
  BY DEF Fits, Editor
<1>2. CASE e.head > 0 /\ c \notin {"A", "B"}
  BY <1>2 DEF Recall
<1>3. CASE e.head = 0 \/ c \in {"A", "B"}
  <2> DEFINE f == Moved(e, c)
  <2>1. Fits(f) /\ f.head > 0 /\ f.history = e.history
    BY MovedFits
  <2>2. Recall(e, c) = Redraw(f, Remembered(f))
    BY <1>3, RecallIs
  <2> HIDE DEF f
  <2>3. Remembered(f) \in Seq(Chars) /\ Len(Remembered(f)) < LineSize
    BY <2>1, RememberedIs
  <2> QED
    BY <2>1, <2>2, <2>3, Redraws
<1> QED
  BY <1>1, <1>2, <1>3

LEMMA Keys ==
  ASSUME NEW e, Fits(e), NEW c \in Chars
  PROVE  Fits(Key(e, c)) /\ (Agree(e) => Agree(Key(e, c)))
<1>1. \/ Key(e, c) = Complete(e) \/ Key(e, c) = Erase(e)
      \/ Key(e, c) = Recall(e, c) \/ Key(e, c) = Save(e, c)
  BY DEF Key
<1> QED
  BY <1>1, Completes, Erases, Recalls, Saves

(* With another line. *)
LEMMA Blanked ==
  ASSUME NEW e, Fits(e), NEW l \in Seq(Chars), Len(l) < LineSize
  PROVE  LET f == [e EXCEPT !.line = l]
         IN  /\ Fits(f) /\ f.line = l /\ f.screen = e.screen
             /\ f.history = e.history /\ f.head = e.head /\ f.at = e.at
<1> DEFINE f == [e EXCEPT !.line = l]
<1>1. /\ f \in Editor /\ f.line = l /\ f.screen = e.screen
      /\ f.history = e.history /\ f.head = e.head /\ f.at = e.at
  BY DEF Editor, Fits
<1> HIDE DEF f
<1>2. Fits(f)
  BY <1>1, StillFits
<1> QED
  BY <1>1, <1>2 DEF f

(* A line that has ended, its command still running or returned. *)
LEMMA Submits ==
  ASSUME NEW e, Fits(e)
  PROVE  /\ Fits(Submit(e)) /\ Submit(e).screen = <<>>
         /\ Fits([Submit(e) EXCEPT !.line = <<>>])
         /\ [Submit(e) EXCEPT !.line = <<>>].screen = <<>>
         /\ [Submit(e) EXCEPT !.line = <<>>].line = <<>>
<1>1. /\ e \in Editor /\ e.line \in Seq(Chars) /\ Len(e.line) < LineSize
      /\ e.history \in Seq(Seq(Chars)) /\ Len(e.history) \in Nat
      /\ \A i \in 1 .. Len(e.history) : Len(e.history[i]) < LineSize
  BY DEF Fits, Editor
<1>2. <<>> \in Seq(Chars) /\ Len(<<>>) < LineSize
  BY Sizes
<1> DEFINE h == <<e.line>> \o e.history
<1>3. h \in Seq(Seq(Chars)) /\ \A i \in 1 .. Len(h) : Len(h[i]) < LineSize
  <2>1. <<e.line>> \in Seq(Seq(Chars)) /\ Len(<<e.line>>) = 1 /\ <<e.line>>[1] = e.line
    BY <1>1
  <2>2. /\ h \in Seq(Seq(Chars)) /\ Len(h) = 1 + Len(e.history)
        /\ \A i \in 1 .. 1 + Len(e.history) : h[i] = IF i <= 1 THEN <<e.line>>[i] ELSE e.history[i - 1]
    BY <1>1, <2>1, ConcatProperties
  <2> HIDE DEF h
  <2>3. ASSUME NEW i \in 1 .. Len(h) PROVE Len(h[i]) < LineSize
    <3>1. CASE i = 1
      BY <1>1, <2>1, <2>2, <3>1
    <3>2. CASE i # 1
      <4>1. i - 1 \in 1 .. Len(e.history) /\ h[i] = e.history[i - 1]
        BY <1>1, <2>2, <3>2
      <4> QED
        BY <1>1, <4>1
    <3> QED
      BY <3>1, <3>2
  <2> QED
    BY <2>2, <2>3
<1> HIDE DEF h
<1>4. CASE e.line = <<>>
  <2> DEFINE f == [e EXCEPT !.screen = <<>>, !.echo = "plain"]
  <2>1. Submit(e) = f
    BY <1>4 DEF Submit
  <2>2. /\ f \in Editor /\ f.line = e.line /\ f.screen = <<>>
        /\ f.history = e.history /\ f.head = e.head /\ f.at = e.at
    BY <1>1, <1>2 DEF Editor
  <2> HIDE DEF f
  <2>3. Fits(f)
    BY <1>1, <2>2, StillFits
  <2> QED
    BY <1>2, <2>1, <2>2, <2>3, Blanked
<1>5. CASE e.line # <<>>
  <2> DEFINE f == [e EXCEPT !.screen = <<>>, !.echo = "plain", !.history = h, !.head = 0, !.at = 0]
  <2>1. Submit(e) = f
    BY <1>5 DEF Submit, h
  <2>2. f \in Editor /\ f.line = e.line /\ f.screen = <<>> /\ f.history = h /\ f.head = 0
    <3>1. 0 \in Nat /\ 0 \in Int
      OBVIOUS
    <3> QED
      BY <1>1, <1>2, <1>3, <3>1 DEF Editor
  <2> HIDE DEF f
  <2>3. Fits(f)
    BY <1>1, <1>3, <2>2 DEF Fits, Placed
  <2> QED
    BY <1>2, <2>1, <2>2, <2>3, Blanked
<1> QED
  BY <1>4, <1>5

-----------------------------------------------------------------------------
(* The types, and what is seen.                                            *)

Seen ==
  /\ Fits(ed)
  /\ pc = "read" => Agree(ed)
  /\ pc = "script" => ed.screen = <<>>

LEMMA Starts == Init => TypeOK /\ Seen
<1> SUFFICES ASSUME Init PROVE TypeOK /\ Seen
  OBVIOUS
<1>1. <<>> \in Seq(Chars) /\ Len(<<>>) = 0 /\ <<>> \in Seq(Seq(Chars))
  OBVIOUS
<1>2. ed \in Editor /\ ed.line = <<>> /\ ed.screen = <<>> /\ ed.history = <<>>
      /\ ed.head = 0
  BY <1>1 DEF Init, Fresh, Editor
<1>3. Seen
  BY <1>1, <1>2, Sizes DEF Seen, Fits, Placed, Agree, Init
<1>4. TypeOK
  BY <1>1, <1>2, Sizes DEF TypeOK, Init
<1> QED
  BY <1>3, <1>4

LEMMA AtIs ==
  ASSUME NEW e, Fits(e)
  PROVE  e \in Editor /\ Len(e.line) < LineSize /\ (e.head > 0 => e.at \in 1 .. HistorySize + 1)
<1>1. e \in Editor /\ e.head \in Nat
  BY DEF Fits, Editor
<1>2. ASSUME e.head > 0 PROVE e.at \in 1 .. HistorySize + 1
  <2>1. PICK pos \in [1 .. e.head -> 1 .. HistorySize + 1] : pos[e.head] = e.at
    BY <1>2 DEF Fits, Placed
  <2> QED
    BY <1>1, <1>2, <2>1
<1> QED
  BY <1>1, <1>2 DEF Fits

LEMMA Queued ==
  ASSUME TypeOK, NEW c \in Chars, Enqueue(c)
  PROVE  queue' \in Seq(Chars) /\ Len(queue') <= QueueSize
  BY Sizes DEF TypeOK, Enqueue

LEMMA Rests ==
  ASSUME NEW s \in Seq(Chars), s # <<>>
  PROVE  Head(s) \in Chars /\ Tail(s) \in Seq(Chars) /\ Len(Tail(s)) = Len(s) - 1
  BY HeadTailProperties

LEMMA EnterKeeps ==
  ASSUME TypeOK, Seen, NEW s \in Sources, Enter(s)
  PROVE  (TypeOK /\ Seen)'
<1>1. left' \in [Sources -> Seq(Chars)]
  BY Sizes DEF Enter, TypeOK
<1>2. inputs' \in Nat /\ inputs' <= IF polite THEN MaxInputs ELSE MaxBusy
  BY Sizes DEF Enter, TypeOK
<1>3. UNCHANGED <<queue, ed, rest, pc, ran, polite>>
  BY DEF Enter
<1> QED
  BY <1>1, <1>2, <1>3 DEF TypeOK, Seen

LEMMA ReceiveKeeps ==
  ASSUME TypeOK, Seen, NEW s \in Sources, Receive(s)
  PROVE  (TypeOK /\ Seen)'
<1>1. left[s] \in Seq(Chars) /\ left[s] # <<>>
  BY DEF TypeOK, Receive
<1>2. Head(left[s]) \in Chars /\ Tail(left[s]) \in Seq(Chars)
  BY <1>1, Rests
<1>3. left' \in [Sources -> Seq(Chars)]
  BY <1>2 DEF TypeOK, Receive
<1>4. queue' \in Seq(Chars) /\ Len(queue') <= QueueSize
  BY <1>2, Queued DEF Receive
<1>5. UNCHANGED <<ed, rest, pc, ran, inputs, polite>>
  BY DEF Receive
<1> QED
  BY <1>3, <1>4, <1>5 DEF TypeOK, Seen

LEMMA TakeKeyKeeps ==
  ASSUME TypeOK, Seen, TakeKey
  PROVE  (TypeOK /\ Seen)'
<1>1. /\ Head(queue) \in Chars /\ Tail(queue) \in Seq(Chars) /\ Len(Tail(queue)) = Len(queue) - 1
      /\ Len(queue) \in Nat
  BY Rests DEF TypeOK, TakeKey
<1>2. queue' \in Seq(Chars) /\ Len(queue') <= QueueSize
  BY <1>1, Sizes DEF TypeOK, TakeKey
<1>3. Fits(ed') /\ Agree(ed') /\ pc = "read"
  BY <1>1, Keys DEF Seen, TakeKey
<1>4. UNCHANGED <<left, rest, pc, ran, inputs, polite>>
  BY DEF TakeKey
<1> QED
  BY <1>2, <1>3, <1>4, AtIs DEF TypeOK, Seen

LEMMA EndLineKeeps ==
  ASSUME TypeOK, Seen, EndLine
  PROVE  (TypeOK /\ Seen)'
<1>1. Tail(queue) \in Seq(Chars) /\ Len(Tail(queue)) = Len(queue) - 1 /\ Len(queue) \in Nat
  BY Rests DEF TypeOK, EndLine
<1>2. queue' \in Seq(Chars) /\ Len(queue') <= QueueSize
  BY <1>1, Sizes DEF TypeOK, EndLine
<1>3. ran' \in Seq(Seq(Chars))
  BY DEF TypeOK, EndLine, Editor
<1>4. UNCHANGED <<left, inputs, polite>>
  BY DEF EndLine
<1>5. CASE ed.line = ScriptCmd
  <2>1. pc' = "script" /\ rest' = File /\ ed' = Submit(ed)
    BY <1>5 DEF EndLine
  <2>2. Fits(ed') /\ ed'.screen = <<>>
    BY <2>1, Submits DEF Seen
  <2> QED
    BY <1>2, <1>3, <1>4, <2>1, <2>2, AtIs, Sizes DEF TypeOK, Seen
<1>6. CASE ed.line # ScriptCmd
  <2>1. ed' = [Submit(ed) EXCEPT !.line = <<>>] /\ UNCHANGED <<pc, rest>> /\ pc = "read"
    BY <1>6 DEF EndLine
  <2>2. Fits(ed') /\ Agree(ed')
    BY <2>1, Submits DEF Seen, Agree
  <2> QED
    BY <1>2, <1>3, <1>4, <2>1, <2>2, AtIs DEF TypeOK, Seen
<1> QED
  BY <1>5, <1>6

LEMMA ReadFileKeeps ==
  ASSUME TypeOK, Seen, ReadFile
  PROVE  (TypeOK /\ Seen)'
<1>1. Head(rest) \in Chars /\ Tail(rest) \in Seq(Chars)
  BY Rests DEF TypeOK, ReadFile
<1>2. queue' \in Seq(Chars) /\ Len(queue') <= QueueSize
  BY <1>1, Queued DEF ReadFile
<1>3. rest' \in Seq(Chars) /\ UNCHANGED <<left, ed, pc, ran, inputs, polite>>
  BY <1>1 DEF ReadFile
<1> QED
  BY <1>2, <1>3 DEF TypeOK, Seen

LEMMA EndScriptKeeps ==
  ASSUME TypeOK, Seen, EndScript
  PROVE  (TypeOK /\ Seen)'
<1>1. ed' = [ed EXCEPT !.line = <<>>] /\ ed.screen = <<>> /\ Fits(ed) /\ pc' = "read"
  BY DEF EndScript, Seen
<1>2. <<>> \in Seq(Chars) /\ Len(<<>>) < LineSize
  BY Sizes
<1>3. Fits(ed') /\ Agree(ed')
  BY <1>1, <1>2, Blanked DEF Agree
<1>4. UNCHANGED <<left, queue, rest, ran, inputs, polite>>
  BY DEF EndScript
<1> QED
  BY <1>1, <1>3, <1>4, AtIs DEF TypeOK, Seen

LEMMA OverrunKeeps ==
  ASSUME TypeOK, Seen, Overrun
  PROVE  (TypeOK /\ Seen)'
<1>1. Tail(queue) \in Seq(Chars) /\ Len(Tail(queue)) = Len(queue) - 1 /\ Len(queue) \in Nat
  BY Rests DEF TypeOK, Overrun
<1>2. queue' \in Seq(Chars) /\ Len(queue') <= QueueSize
  BY <1>1, Sizes DEF TypeOK, Overrun
<1> QED
  BY <1>2 DEF TypeOK, Seen, Overrun

LEMMA ReadFailsKeeps ==
  ASSUME TypeOK, Seen, ReadFails
  PROVE  (TypeOK /\ Seen)'
  BY DEF TypeOK, Seen, ReadFails

LEMMA SeenStep == TypeOK /\ Seen /\ [Next]_vars => (TypeOK /\ Seen)'
<1> SUFFICES ASSUME TypeOK, Seen, [Next]_vars PROVE (TypeOK /\ Seen)'
  OBVIOUS
<1>1. CASE UNCHANGED vars
  BY <1>1 DEF vars, TypeOK, Seen
<1>2. CASE Next
  BY <1>2, EnterKeeps, ReceiveKeeps, TakeKeyKeeps, EndLineKeeps, ReadFileKeeps, EndScriptKeeps,
     OverrunKeeps, ReadFailsKeeps
     DEF Next, Task
<1> QED
  BY <1>1, <1>2

(* The queue and the line stay within their buffers, and HistoryHead       *)
(* within its own, or just behind it, whatever is typed, completed and     *)
(* recalled, by however many operators and scripts at once                 *)
(* (cli.c:341-572, 647-656).                                               *)
THEOREM TypeCorrect == Spec => []TypeOK
  BY Starts, SeenStep, PTL DEF Spec

(* Whenever the task waits for a character, the line on the screen is the  *)
(* one it holds and will run: no key, no full line, no completion, no line *)
(* that the history has cut and no script that fails part way parts the    *)
(* echo from the buffer; unless a % has come into the line since it was    *)
(* begun or drawn whole (cli.c:350-564, rflan_cli.c:806-815).              *)
THEOREM SeenHeld == Spec => []SeenIsHeld
<1>1. Seen => SeenIsHeld
  BY DEF Seen, SeenIsHeld, Agree
<1> QED
  BY <1>1, Starts, SeenStep, PTL DEF Spec

-----------------------------------------------------------------------------
(* Reading: what the editor makes of characters, one after the other.      *)

(* A reader that has its types, and the lines it has handed on. *)
Sound(f) == /\ f \in [e : Editor, out : Seq(Seq(Chars))] /\ Fits(f.e)

(* The readers on the way through chars. *)
IsPath(h, f, chars) ==
  h = [n \in 0 .. Len(chars) |-> IF n = 0 THEN f ELSE Read(h[n - 1], chars[n])]

Steps(h, f, chars) ==
  /\ h[0] = f
  /\ \A n \in 1 .. Len(chars) : h[n] = Read(h[n - 1], chars[n])

LEMMA PathExists ==
  ASSUME NEW f, NEW chars \in Seq(Chars)
  PROVE  \E h : IsPath(h, f, chars)
<1> DEFINE Part(h, m) == h = [n \in 0 .. m |-> IF n = 0 THEN f ELSE Read(h[n - 1], chars[n])]
           T == {m \in 0 .. Len(chars) : ~ \E h : Part(h, m)}
<1>1. Len(chars) \in Nat /\ T \subseteq Nat
  OBVIOUS
<1>2. ASSUME T # {} PROVE FALSE
  <2>1. PICK m \in T : \A k \in T : m <= k
    <3> HIDE DEF T
    <3> QED
      BY <1>1, <1>2, LeastNumber
  <2>2. m \in 0 .. Len(chars) /\ ~ \E h : Part(h, m)
    BY <2>1
  <2>3. m # 0
    <3> DEFINE g == [n \in 0 .. 0 |-> f]
    <3>1. g = [n \in 0 .. 0 |-> IF n = 0 THEN f ELSE Read(g[n - 1], chars[n])]
      OBVIOUS
    <3>2. Part(g, 0)
      BY <3>1
    <3> HIDE DEF Part, g
    <3> QED
      BY <2>2, <3>2
  <2>4. m - 1 \in 0 .. Len(chars) /\ m - 1 \notin T
    <3>1. m \in Nat /\ m - 1 \in 0 .. Len(chars) /\ ~(m <= m - 1)
      BY <1>1, <2>2, <2>3
    <3> HIDE DEF T
    <3> QED
      BY <2>1, <3>1
  <2>5. PICK h : Part(h, m - 1)
    <3> HIDE DEF Part
    <3> QED
      BY <2>4
  <2> DEFINE g == [n \in 0 .. m |-> IF n = m THEN Read(h[n - 1], chars[n]) ELSE h[n]]
  <2>6. \A n \in 0 .. m - 1 : h[n] = IF n = 0 THEN f ELSE Read(h[n - 1], chars[n])
    BY <2>5
  <2>7. \A n \in 0 .. m : g[n] = IF n = 0 THEN f ELSE Read(g[n - 1], chars[n])
    <3> TAKE n \in 0 .. m
    <3>1. CASE n = m
      <4>1. g[n] = Read(h[n - 1], chars[n]) /\ g[n - 1] = h[n - 1] /\ n # 0
        BY <2>2, <2>3, <3>1
      <4> QED
        BY <4>1
    <3>2. CASE n # m /\ n # 0
      <4>1. g[n] = h[n] /\ g[n - 1] = h[n - 1] /\ n \in 0 .. m - 1
        BY <2>2, <2>3, <3>2
      <4> QED
        BY <2>6, <3>2, <4>1
    <3>3. CASE n # m /\ n = 0
      <4>1. g[n] = h[n] /\ n \in 0 .. m - 1
        BY <2>2, <2>3, <3>3
      <4> QED
        BY <2>6, <3>3, <4>1
    <3> QED
      BY <3>1, <3>2, <3>3
  <2>8. g = [n \in 0 .. m |-> IF n = 0 THEN f ELSE Read(g[n - 1], chars[n])]
    <3> DEFINE r == [n \in 0 .. m |-> IF n = 0 THEN f ELSE Read(g[n - 1], chars[n])]
    <3>1. \A n \in 0 .. m : g[n] = r[n]
      BY <2>7
    <3>2. g = [n \in 0 .. m |-> g[n]] /\ r = [n \in 0 .. m |-> r[n]]
      OBVIOUS
    <3> HIDE DEF g, r
    <3>3. g = r
      BY <3>1, <3>2
    <3> QED
      BY <3>3 DEF r
  <2>9. Part(g, m)
    BY <2>8
  <2> HIDE DEF Part, g
  <2> QED
    BY <2>2, <2>9
<1>3. Len(chars) \notin T
  BY <1>2
<1>4. \E h : Part(h, Len(chars))
  <2> HIDE DEF Part
  <2> QED
    BY <1>1, <1>3
<1> QED
  BY <1>4 DEF IsPath

LEMMA PathSteps ==
  ASSUME NEW f, NEW chars \in Seq(Chars), NEW h, IsPath(h, f, chars)
  PROVE  Steps(h, f, chars)
<1>1. Len(chars) \in Nat /\ 0 \in 0 .. Len(chars)
  OBVIOUS
<1>2. \A n \in 0 .. Len(chars) : h[n] = IF n = 0 THEN f ELSE Read(h[n - 1], chars[n])
  BY DEF IsPath
<1>3. \A n \in 1 .. Len(chars) : n \in 0 .. Len(chars) /\ n # 0
  BY <1>1
<1> QED
  BY <1>1, <1>2, <1>3 DEF Steps

(* Whatever takes those steps ends where reading does. *)
LEMMA ReadingIs ==
  ASSUME NEW f, NEW chars \in Seq(Chars), NEW g, Steps(g, f, chars)
  PROVE  Reading(f, chars) = g[Len(chars)]
<1>1. PICK h0 : IsPath(h0, f, chars)
  BY PathExists
<1> DEFINE h == CHOOSE h : IsPath(h, f, chars)
<1>2. IsPath(h, f, chars)
  BY <1>1
<1>3. Reading(f, chars) = h[Len(chars)]
  BY DEF Reading, IsPath
<1> HIDE DEF h
<1>4. Steps(h, f, chars)
  BY <1>2, PathSteps
<1> DEFINE T == {n \in 0 .. Len(chars) : g[n] # h[n]}
<1>5. Len(chars) \in Nat /\ T \subseteq Nat
  OBVIOUS
<1>6. ASSUME T # {} PROVE FALSE
  <2>1. PICK m \in T : \A k \in T : m <= k
    <3> HIDE DEF T
    <3> QED
      BY <1>5, <1>6, LeastNumber
  <2>2. m \in 0 .. Len(chars) /\ g[m] # h[m]
    BY <2>1
  <2>3. m # 0
    BY <1>4, <2>2 DEF Steps
  <2>4. m \in 1 .. Len(chars) /\ m - 1 \in 0 .. Len(chars) /\ m - 1 \notin T
    BY <1>5, <2>1, <2>2, <2>3
  <2>5. g[m - 1] = h[m - 1]
    BY <2>4
  <2>6. g[m] = Read(g[m - 1], chars[m]) /\ h[m] = Read(h[m - 1], chars[m])
    BY <1>4, <2>4 DEF Steps
  <2> QED
    BY <2>2, <2>5, <2>6
<1>7. Len(chars) \notin T
  BY <1>6
<1>8. Len(chars) \in 0 .. Len(chars)
  BY <1>5
<1> QED
  BY <1>3, <1>7, <1>8

LEMMA ReadingHas ==
  ASSUME NEW f, NEW chars \in Seq(Chars)
  PROVE  \E g : Steps(g, f, chars) /\ Reading(f, chars) = g[Len(chars)]
<1>1. PICK h : IsPath(h, f, chars)
  BY PathExists
<1>2. Steps(h, f, chars)
  BY <1>1, PathSteps
<1> QED
  BY <1>2, ReadingIs

LEMMA ReadNothing ==
  ASSUME NEW f
  PROVE  Reading(f, <<>>) = f
<1>1. <<>> \in Seq(Chars) /\ Len(<<>>) = 0
  OBVIOUS
<1>2. PICK g : Steps(g, f, <<>>) /\ Reading(f, <<>>) = g[0]
  BY <1>1, ReadingHas
<1> QED
  BY <1>2 DEF Steps

LEMMA ReadFirst ==
  ASSUME NEW f, NEW chars \in Seq(Chars), chars # <<>>
  PROVE  Reading(f, chars) = Reading(Read(f, Head(chars)), Tail(chars))
<1> DEFINE c == Head(chars)
           t == Tail(chars)
<1>1. /\ t \in Seq(Chars) /\ Len(chars) \in Nat /\ Len(chars) >= 1 /\ Len(t) = Len(chars) - 1
      /\ c = chars[1] /\ \A n \in 1 .. Len(t) : t[n] = chars[n + 1]
  BY EmptySeq, HeadTailProperties
<1>2. PICK g : Steps(g, Read(f, c), t) /\ Reading(Read(f, c), t) = g[Len(t)]
  BY <1>1, ReadingHas
<1> HIDE DEF c, t
<1> DEFINE h == [n \in 0 .. Len(chars) |-> IF n = 0 THEN f ELSE g[n - 1]]
<1>3. h[0] = f /\ h[1] = g[0] /\ h[Len(chars)] = g[Len(t)]
  BY <1>1
<1>4. ASSUME NEW n \in 1 .. Len(chars) PROVE h[n] = Read(h[n - 1], chars[n])
  <2>1. CASE n = 1
    BY <1>1, <1>2, <1>3, <2>1 DEF Steps
  <2>2. CASE n # 1
    <3>1. n - 1 \in 1 .. Len(t) /\ h[n] = g[n - 1] /\ h[n - 1] = g[n - 1 - 1] /\ t[n - 1] = chars[n]
      BY <1>1, <2>2
    <3>2. g[n - 1] = Read(g[n - 1 - 1], t[n - 1])
      BY <1>2, <3>1 DEF Steps
    <3> QED
      BY <3>1, <3>2
  <2> QED
    BY <2>1, <2>2
<1> HIDE DEF h
<1>5. Steps(h, f, chars)
  BY <1>3, <1>4 DEF Steps
<1>6. Reading(f, chars) = h[Len(chars)]
  BY <1>5, ReadingIs
<1> QED
  BY <1>2, <1>3, <1>6 DEF c, t

LEMMA AppendApart ==
  ASSUME NEW S, NEW u \in Seq(S), NEW v \in Seq(S), NEW x \in S
  PROVE  Append(u \o v, x) = u \o Append(v, x)
  OBVIOUS

LEMMA ReadParts ==
  ASSUME NEW f, Sound(f), NEW c \in Chars
  PROVE  /\ Sound(Read(f, c))
         /\ c # "cr" => Read(f, c).e = Key(f.e, c) /\ Read(f, c).out = f.out
         /\ c = "cr" => /\ Read(f, c).e = [Submit(f.e) EXCEPT !.line = <<>>]
                        /\ f.e.line = <<>> => Read(f, c).out = f.out
                        /\ f.e.line # <<>> => Read(f, c).out = Append(f.out, f.e.line)
<1>1. /\ f \in [e : Editor, out : Seq(Seq(Chars))] /\ Fits(f.e)
      /\ f.e.line \in Seq(Chars) /\ f.out \in Seq(Seq(Chars))
  BY DEF Sound, Fits, Editor
<1>2. CASE c # "cr"
  <2> DEFINE k == Key(f.e, c)
             r == [f EXCEPT !.e = k]
  <2>1. Read(f, c) = r
    BY <1>2 DEF Read
  <2>2. Fits(k) /\ k \in Editor
    BY <1>1, Keys DEF Fits
  <2> HIDE DEF k
  <2>3. r.e = k /\ r.out = f.out /\ r \in [e : Editor, out : Seq(Seq(Chars))]
    BY <1>1, <2>2
  <2> HIDE DEF r
  <2> QED
    BY <1>2, <2>1, <2>2, <2>3 DEF Sound, k
<1>3. CASE c = "cr"
  <2> DEFINE k == [Submit(f.e) EXCEPT !.line = <<>>]
             o == IF f.e.line = <<>> THEN f.out ELSE Append(f.out, f.e.line)
             r == [e |-> k, out |-> o]
  <2>1. Read(f, c) = r
    BY <1>3 DEF Read
  <2>2. Fits(k) /\ k \in Editor
    BY <1>1, Submits DEF Fits
  <2>3. o \in Seq(Seq(Chars))
    BY <1>1
  <2>4. (f.e.line = <<>> => o = f.out) /\ (f.e.line # <<>> => o = Append(f.out, f.e.line))
    OBVIOUS
  <2> HIDE DEF k, o
  <2>5. r.e = k /\ r.out = o /\ r \in [e : Editor, out : Seq(Seq(Chars))]
    BY <2>2, <2>3
  <2> HIDE DEF r
  <2> QED
    BY <1>3, <2>1, <2>2, <2>4, <2>5 DEF Sound, k
<1> QED
  BY <1>2, <1>3

LEMMA StepsSound ==
  ASSUME NEW f, Sound(f), NEW chars \in Seq(Chars), NEW g, Steps(g, f, chars)
  PROVE  \A n \in 0 .. Len(chars) : Sound(g[n])
<1> DEFINE T == {n \in 0 .. Len(chars) : ~Sound(g[n])}
<1>1. Len(chars) \in Nat /\ T \subseteq Nat
  OBVIOUS
<1>2. ASSUME T # {} PROVE FALSE
  <2>1. PICK m \in T : \A k \in T : m <= k
    <3> HIDE DEF T
    <3> QED
      BY <1>1, <1>2, LeastNumber
  <2>2. m \in 0 .. Len(chars) /\ ~Sound(g[m])
    BY <2>1
  <2>3. m # 0
    BY <2>2 DEF Steps
  <2>4. m \in 1 .. Len(chars) /\ m - 1 \in 0 .. Len(chars) /\ m - 1 \notin T
    <3>1. m \in Nat /\ m \in 1 .. Len(chars) /\ m - 1 \in 0 .. Len(chars) /\ ~(m <= m - 1)
      BY <1>1, <2>2, <2>3
    <3> HIDE DEF T
    <3> QED
      BY <2>1, <3>1
  <2>5. Sound(g[m - 1])
    BY <2>4
  <2>6. g[m] = Read(g[m - 1], chars[m]) /\ chars[m] \in Chars
    BY <2>4 DEF Steps
  <2>7. Sound(Read(g[m - 1], chars[m]))
    <3> HIDE DEF T
    <3> QED
      BY <2>5, <2>6, ReadParts
  <2> QED
    BY <2>2, <2>6, <2>7
<1> QED
  BY <1>2

(* A reader with nothing handed on yet. *)
LEMMA Begins ==
  ASSUME NEW e, Fits(e)
  PROVE  Sound(Begin(e)) /\ Begin(e).e = e /\ Begin(e).out = <<>>
  BY DEF Sound, Begin, Fits

(* What was handed on before has no influence. *)
LEMMA ReadAlike ==
  ASSUME NEW f, Sound(f), NEW chars \in Seq(Chars)
  PROVE  /\ Reading(f, chars).e = Reading(Begin(f.e), chars).e
         /\ Reading(f, chars).out = f.out \o Reading(Begin(f.e), chars).out
         /\ Sound(Reading(f, chars)) /\ Sound(Reading(Begin(f.e), chars))
<1>1. PICK g : Steps(g, f, chars) /\ Reading(f, chars) = g[Len(chars)]
  BY ReadingHas
<1>2. PICK h : Steps(h, Begin(f.e), chars) /\ Reading(Begin(f.e), chars) = h[Len(chars)]
  BY ReadingHas
<1>3. Fits(f.e) /\ f.out \in Seq(Seq(Chars)) /\ Sound(Begin(f.e)) /\ Begin(f.e).e = f.e /\ Begin(f.e).out = <<>>
  BY Begins DEF Sound
<1>4. \A n \in 0 .. Len(chars) : Sound(g[n]) /\ Sound(h[n])
  BY <1>1, <1>2, <1>3, StepsSound
<1> DEFINE Alike(n) == g[n].e = h[n].e /\ g[n].out = f.out \o h[n].out
           T == {n \in 0 .. Len(chars) : ~Alike(n)}
<1>5. Len(chars) \in Nat /\ T \subseteq Nat
  <2> HIDE DEF Alike
  <2> QED
    OBVIOUS
<1>6. ASSUME T # {} PROVE FALSE
  <2>1. PICK m \in T : \A k \in T : m <= k
    <3> HIDE DEF T
    <3> QED
      BY <1>5, <1>6, LeastNumber
  <2>2. m \in 0 .. Len(chars) /\ ~Alike(m)
    <3> HIDE DEF Alike
    <3> QED
      BY <2>1
  <2>3. m # 0
    <3>1. g[0] = f /\ h[0] = Begin(f.e)
      BY <1>1, <1>2 DEF Steps
    <3>2. f.out \o <<>> = f.out
      BY <1>3
    <3> QED
      BY <1>3, <2>2, <3>1, <3>2
  <2>4. m \in 1 .. Len(chars) /\ m - 1 \in 0 .. Len(chars) /\ m - 1 \notin T
    <3>1. m \in Nat /\ m \in 1 .. Len(chars) /\ m - 1 \in 0 .. Len(chars) /\ ~(m <= m - 1)
      BY <1>5, <2>2, <2>3
    <3> HIDE DEF T
    <3> QED
      BY <2>1, <3>1
  <2> DEFINE a == g[m - 1]
             b == h[m - 1]
             c == chars[m]
  <2>5. a.e = b.e /\ a.out = f.out \o b.out /\ Sound(a) /\ Sound(b)
    <3>1. Alike(m - 1)
      <4> HIDE DEF Alike
      <4> QED
        BY <2>4
    <3> QED
      BY <1>4, <2>4, <3>1
  <2>6. g[m] = Read(a, c) /\ h[m] = Read(b, c) /\ c \in Chars
    BY <1>1, <1>2, <2>4 DEF Steps
  <2> HIDE DEF a, b, c
  <2>7. b.out \in Seq(Seq(Chars)) /\ a.e.line \in Seq(Chars)
    BY <2>5 DEF Sound, Fits, Editor
  <2> HIDE DEF T
  <2>8. Append(f.out \o b.out, a.e.line) = f.out \o Append(b.out, a.e.line)
    <3> DEFINE u == f.out
               v == b.out
               x == a.e.line
    <3>1. u \in Seq(Seq(Chars)) /\ v \in Seq(Seq(Chars)) /\ x \in Seq(Chars)
      BY <1>3, <2>7
    <3> HIDE DEF u, v, x
    <3>2. Append(u \o v, x) = u \o Append(v, x)
      BY <3>1, AppendApart, SMTT(90)
    <3> QED
      BY <3>2 DEF u, v, x
  <2>9. /\ c # "cr" => Read(a, c).e = Key(a.e, c) /\ Read(a, c).out = a.out
        /\ c = "cr" => /\ Read(a, c).e = [Submit(a.e) EXCEPT !.line = <<>>]
                       /\ a.e.line = <<>> => Read(a, c).out = a.out
                       /\ a.e.line # <<>> => Read(a, c).out = Append(a.out, a.e.line)
    BY <2>5, <2>6, ReadParts
  <2>10. /\ c # "cr" => Read(b, c).e = Key(b.e, c) /\ Read(b, c).out = b.out
         /\ c = "cr" => /\ Read(b, c).e = [Submit(b.e) EXCEPT !.line = <<>>]
                        /\ b.e.line = <<>> => Read(b, c).out = b.out
                        /\ b.e.line # <<>> => Read(b, c).out = Append(b.out, b.e.line)
    BY <2>5, <2>6, ReadParts
  <2>11. Read(a, c).e = Read(b, c).e
    BY <2>5, <2>9, <2>10
  <2>12. Read(a, c).out = f.out \o Read(b, c).out
    BY <2>5, <2>8, <2>9, <2>10
  <2> QED
    BY <2>2, <2>6, <2>11, <2>12
<1>7. Alike(Len(chars))
  <2> HIDE DEF Alike
  <2> QED
    BY <1>5, <1>6
<1> QED
  BY <1>1, <1>2, <1>4, <1>5, <1>7

(* After a key, an empty line and a line. *)
Ended(e) == [Submit(e) EXCEPT !.line = <<>>]

LEMMA ReadOn ==
  ASSUME NEW e, Fits(e), NEW chars \in Seq(Chars), chars # <<>>
  PROVE  /\ Head(chars) # "cr" =>
              Reading(Begin(e), chars) = Reading(Begin(Key(e, Head(chars))), Tail(chars))
         /\ Head(chars) = "cr" /\ e.line = <<>> =>
              Reading(Begin(e), chars) = Reading(Begin(Ended(e)), Tail(chars))
         /\ Head(chars) = "cr" /\ e.line # <<>> =>
              /\ Reading(Begin(e), chars).e = Reading(Begin(Ended(e)), Tail(chars)).e
              /\ Reading(Begin(e), chars).out
                   = <<e.line>> \o Reading(Begin(Ended(e)), Tail(chars)).out
<1> DEFINE c == Head(chars)
           t == Tail(chars)
<1>1. c \in Chars /\ t \in Seq(Chars)
  BY HeadTailProperties
<1>2. Reading(Begin(e), chars) = Reading(Read(Begin(e), c), t)
  BY ReadFirst
<1> HIDE DEF c, t
<1>3. ASSUME c # "cr" PROVE Read(Begin(e), c) = Begin(Key(e, c))
  <2>1. Read(Begin(e), c) = [Begin(e) EXCEPT !.e = Key(e, c)]
    BY <1>3 DEF Read, Begin
  <2> DEFINE k == Key(e, c)
  <2> HIDE DEF k
  <2>2. [Begin(e) EXCEPT !.e = k] = Begin(k)
    BY DEF Begin
  <2> QED
    BY <2>1, <2>2 DEF k
<1>4. ASSUME c = "cr"
      PROVE  Read(Begin(e), c) = [e |-> Ended(e), out |-> IF e.line = <<>> THEN <<>> ELSE Append(<<>>, e.line)]
  BY <1>4 DEF Read, Begin, Ended
<1>5. ASSUME c = "cr", e.line = <<>> PROVE Read(Begin(e), c) = Begin(Ended(e))
  BY <1>4, <1>5 DEF Begin
<1>6. ASSUME c = "cr", e.line # <<>>
      PROVE  /\ Reading(Begin(e), chars).e = Reading(Begin(Ended(e)), t).e
             /\ Reading(Begin(e), chars).out = <<e.line>> \o Reading(Begin(Ended(e)), t).out
  <2> DEFINE f == Read(Begin(e), c)
  <2>1. Append(<<>>, e.line) = <<e.line>>
    OBVIOUS
  <2>2. f.e = Ended(e) /\ f.out = <<e.line>>
    BY <1>4, <1>6, <2>1
  <2>3. Sound(f)
    BY <1>1, Begins, ReadParts
  <2> HIDE DEF f
  <2>4. /\ Reading(f, t).e = Reading(Begin(f.e), t).e
        /\ Reading(f, t).out = f.out \o Reading(Begin(f.e), t).out
    BY <1>1, <2>3, ReadAlike
  <2> QED
    BY <1>2, <2>2, <2>4 DEF f
<1> QED
  BY <1>2, <1>3, <1>5, <1>6 DEF c, t

(* What reading from a sound editor gives is sound. *)
LEMMA ReadingSound ==
  ASSUME NEW e, Fits(e), NEW chars \in Seq(Chars)
  PROVE  /\ Fits(Reading(Begin(e), chars).e)
         /\ Reading(Begin(e), chars).out \in Seq(Seq(Chars))
<1>1. Sound(Begin(e))
  BY Begins
<1>2. Sound(Reading(Begin(e), chars))
  BY <1>1, ReadAlike
<1> QED
  BY <1>2 DEF Sound

LEMMA SaveIs ==
  ASSUME NEW x, Fits(x), NEW c \in Chars
  PROVE  /\ Fits(Save(x, c))
         /\ Save(x, c).line = IF Len(x.line) < LineSize - 1 THEN Append(x.line, c) ELSE x.line
         /\ Save(x, c).history = x.history /\ Save(x, c).head = x.head /\ Save(x, c).at = x.at
<1>1. x \in Editor /\ Len(x.line) \in Nat /\ x.line \in Seq(Chars)
  BY DEF Fits, Editor
<1>2. Fits(Save(x, c))
  BY Saves
<1> DEFINE l == Append(x.line, c)
<1>3. CASE Len(x.line) < LineSize - 1 /\ c # "%"
  <2> DEFINE f == [x EXCEPT !.line = l, !.screen = Append(x.screen, c)]
  <2>1. Save(x, c) = f
    BY <1>1, <1>3, Sizes DEF Save
  <2> HIDE DEF l
  <2>2. /\ f.line = l /\ f.history = x.history /\ f.head = x.head /\ f.at = x.at
    BY <1>1 DEF Editor
  <2> QED
    BY <1>2, <1>3, <2>1, <2>2 DEF l
<1>4. CASE Len(x.line) < LineSize - 1 /\ c = "%"
  <2> DEFINE f == [x EXCEPT !.line = l, !.echo = "formatted"]
  <2>1. Save(x, c) = f
    BY <1>1, <1>4, Sizes DEF Save
  <2> HIDE DEF l
  <2>2. /\ f.line = l /\ f.history = x.history /\ f.head = x.head /\ f.at = x.at
    BY <1>1 DEF Editor
  <2> QED
    BY <1>2, <1>4, <2>1, <2>2 DEF l
<1>5. CASE ~ (Len(x.line) < LineSize - 1)
  <2>1. Save(x, c) = x
    BY <1>1, <1>5, Sizes DEF Save
  <2> QED
    BY <1>2, <1>5, <2>1
<1> QED
  BY <1>3, <1>4, <1>5

LEMMA EraseIs ==
  ASSUME NEW x, Fits(x)
  PROVE  /\ Fits(Erase(x))
         /\ Erase(x).line = IF x.line = <<>> THEN x.line ELSE Front(x.line)
         /\ Erase(x).history = x.history /\ Erase(x).head = x.head /\ Erase(x).at = x.at
<1>1. x \in Editor
  BY DEF Fits
<1>2. Fits(Erase(x))
  BY Erases
<1>3. CASE x.line = <<>>
  BY <1>2, <1>3 DEF Erase
<1>4. CASE x.line # <<>>
  <2> DEFINE l == Front(x.line)
             t == IF x.screen = <<>> THEN x.screen ELSE Front(x.screen)
             f == [x EXCEPT !.line = l, !.screen = t]
  <2>1. Erase(x) = f
    BY <1>4 DEF Erase
  <2> HIDE DEF l, t
  <2>2. /\ f.line = l /\ f.history = x.history /\ f.head = x.head /\ f.at = x.at
    BY <1>1 DEF Editor
  <2> QED
    BY <1>2, <1>4, <2>1, <2>2 DEF l
<1> QED
  BY <1>3, <1>4

LEMMA KeyKeeps ==
  ASSUME NEW e, Fits(e), NEW c \in Chars
  PROVE  Key(e, c).history = e.history
<1>1. \/ Key(e, c) = Complete(e) \/ Key(e, c) = Erase(e)
      \/ Key(e, c) = Recall(e, c) \/ Key(e, c) = Save(e, c)
  BY DEF Key
<1> QED
  BY <1>1, Completes, EraseIs, Recalls, SaveIs

LEMMA EndedKeeps ==
  ASSUME NEW e, Fits(e)
  PROVE  /\ Fits(Ended(e)) /\ Ended(e).line = <<>>
         /\ e.line = <<>> => Ended(e).history = e.history /\ Ended(e).head = e.head
         /\ e.line # <<>> => Ended(e).history = <<e.line>> \o e.history /\ Ended(e).head = 0
         /\ Submit(e).history = Ended(e).history
<1>1. e \in Editor
  BY DEF Fits
<1>2. Fits(Ended(e)) /\ Ended(e).line = <<>> /\ Fits(Submit(e))
  BY Submits DEF Ended
<1>3. Submit(e) \in Editor
  BY <1>2 DEF Fits
<1>4. Ended(e).history = Submit(e).history /\ Ended(e).head = Submit(e).head
  <2> DEFINE k == Submit(e)
  <2> HIDE DEF k
  <2>1. k \in Editor => [k EXCEPT !.line = <<>>].history = k.history /\ [k EXCEPT !.line = <<>>].head = k.head
    BY DEF Editor
  <2> QED
    BY <1>3, <2>1 DEF k, Ended
<1>5. e.line = <<>> => Submit(e).history = e.history /\ Submit(e).head = e.head
  BY <1>1 DEF Submit, Editor
<1>6. e.line # <<>> => Submit(e).history = <<e.line>> \o e.history /\ Submit(e).head = 0
  <2> DEFINE h == <<e.line>> \o e.history
             f == [e EXCEPT !.screen = <<>>, !.echo = "plain", !.history = h, !.head = 0, !.at = 0]
  <2>1. e.line # <<>> => Submit(e) = f
    BY DEF Submit
  <2> HIDE DEF h
  <2>2. f.history = h /\ f.head = 0
    BY <1>1 DEF Editor
  <2> HIDE DEF f
  <2> QED
    BY <2>1, <2>2 DEF h
<1> QED
  BY <1>2, <1>4, <1>5, <1>6

-----------------------------------------------------------------------------
(* Plain characters are read alike, whatever the history and the screen.   *)

(* When the line ends with the two characters that begin a recall. *)
LEMMA EscapedIs ==
  ASSUME NEW S, NEW line \in Seq(S)
  PROVE  Escaped(line) <=> /\ Len(line) >= 2 /\ line[Len(line)] = "["
                           /\ line[Len(line) - 1] = "esc"
<1> DEFINE r == Reverse(line)
           q == Reverse(<<"esc", "[">>)
<1>1. Len(line) \in Nat /\ \A i \in 1 .. Len(line) : line[i] \in S
  OBVIOUS
<1>2. Len(q) = 2 /\ q[1] = "[" /\ q[2] = "esc" /\ q \in Seq({"esc", "["})
  BY DEF Reverse
<1>3. r \in Seq(S) /\ Len(r) = Len(line) /\ \A i \in 1 .. Len(line) : r[i] = line[Len(line) - i + 1]
  BY <1>1 DEF Reverse
<1>4. Escaped(line) <=> Len(q) <= Len(r) /\ SubSeq(q, 1, Len(q)) = SubSeq(r, 1, Len(q))
  BY DEF Escaped, IsSuffix, IsPrefix
<1> HIDE DEF q, r
<1>5. CASE Len(line) >= 2
  <2>1. SubSeq(q, 1, 2) = q
    BY <1>2, SubSeqFull
  <2>2. \A i \in 1 .. 2 : r[i] \in S
    BY <1>1, <1>3, <1>5
  <2>3. SubSeq(r, 1, 2) \in Seq(S) /\ Len(SubSeq(r, 1, 2)) = 2
        /\ \A i \in 1 .. 2 : SubSeq(r, 1, 2)[i] = r[i]
    BY <1>1, <1>3, <1>5, <2>2, SubSeqProperties
  <2>4. r[1] = line[Len(line)] /\ r[2] = line[Len(line) - 1]
    BY <1>1, <1>3, <1>5
  <2>5. q = SubSeq(r, 1, 2) <=> q[1] = r[1] /\ q[2] = r[2]
    <3> DEFINE w == SubSeq(r, 1, 2)
    <3>1. w \in Seq(S) /\ Len(w) = 2 /\ w[1] = r[1] /\ w[2] = r[2]
      BY <2>3
    <3> HIDE DEF w
    <3>2. q = w <=> q[1] = w[1] /\ q[2] = w[2]
      BY <1>2, <3>1
    <3> QED
      BY <3>1, <3>2 DEF w
  <2> QED
    BY <1>2, <1>3, <1>4, <1>5, <2>1, <2>4, <2>5
<1>6. CASE ~ (Len(line) >= 2)
  BY <1>2, <1>3, <1>4, <1>6
<1> QED
  BY <1>5, <1>6

LEMMA PlainIs ==
  ASSUME NEW line \in Seq(Chars), Plain(line)
  PROVE  ~Escaped(line)
<1>1. Len(line) >= 2 => Len(line) - 1 \in 1 .. Len(line)
  OBVIOUS
<1> QED
  BY <1>1, EscapedIs DEF Plain

(* Editors that differ in their histories and screens. *)
Like(x, y) == x.line = y.line /\ x.head = 0 /\ Plain(x.line)

LEMMA PlainPart ==
  ASSUME NEW s \in Seq(Chars), Plain(s), NEW l \in 0 .. Len(s)
  PROVE  Plain(SubSeq(s, 1, l))
<1>1. Len(s) \in Nat /\ \A i \in 1 .. l : s[i] \in Chars
  OBVIOUS
<1>2. /\ Len(SubSeq(s, 1, l)) = IF 1 <= l THEN l - 1 + 1 ELSE 0
      /\ \A i \in 1 .. l - 1 + 1 : SubSeq(s, 1, l)[i] = s[1 + i - 1]
  BY <1>1, SubSeqProperties
<1>3. Len(SubSeq(s, 1, l)) = l
  BY <1>2
<1>4. ASSUME NEW i \in 1 .. l PROVE SubSeq(s, 1, l)[i] # "esc"
  <2>1. i \in 1 .. l - 1 + 1 /\ 1 + i - 1 = i /\ i \in 1 .. Len(s)
    BY <1>1
  <2> QED
    BY <1>2, <2>1 DEF Plain
<1> QED
  BY <1>3, <1>4 DEF Plain

LEMMA SaveAlike ==
  ASSUME NEW x, NEW y, Fits(x), Fits(y), Like(x, y), NEW c \in Chars, c # "esc"
  PROVE  Like(Save(x, c), Save(y, c))
<1> DEFINE l == x.line
           m == Append(l, c)
<1>1. l \in Seq(Chars) /\ Len(l) \in Nat /\ y.line = l /\ x.head = 0 /\ Plain(l)
  BY DEF Fits, Editor, Like
<1>2. /\ Save(x, c).line = IF Len(l) < LineSize - 1 THEN m ELSE l
      /\ Save(y, c).line = IF Len(l) < LineSize - 1 THEN m ELSE l
      /\ Save(x, c).head = 0
  BY <1>1, SaveIs
<1> HIDE DEF l
<1>3. Plain(m)
  <2>1. Len(m) = Len(l) + 1 /\ m[Len(l) + 1] = c /\ \A i \in 1 .. Len(l) : m[i] = l[i]
    BY <1>1
  <2>2. ASSUME NEW i \in 1 .. Len(l) + 1 PROVE m[i] # "esc"
    <3>1. i = Len(l) + 1 \/ i \in 1 .. Len(l)
      BY <1>1
    <3> QED
      BY <1>1, <2>1, <3>1 DEF Plain
  <2> QED
    BY <2>1, <2>2 DEF Plain
<1> HIDE DEF m
<1> QED
  BY <1>1, <1>2, <1>3 DEF Like

LEMMA EraseAlike ==
  ASSUME NEW x, NEW y, Fits(x), Fits(y), Like(x, y)
  PROVE  Like(Erase(x), Erase(y))
<1> DEFINE l == x.line
           m == IF l = <<>> THEN l ELSE Front(l)
<1>1. l \in Seq(Chars) /\ y.line = l /\ x.head = 0 /\ Plain(l)
  BY DEF Fits, Editor, Like
<1>2. Erase(x).line = m /\ Erase(y).line = m /\ Erase(x).head = 0
  BY <1>1, EraseIs
<1> HIDE DEF l
<1>3. Plain(m)
  <2>1. CASE l # <<>>
    <3>1. Len(l) - 1 \in 0 .. Len(l)
      BY <1>1, <2>1, EmptySeq
    <3> QED
      BY <1>1, <2>1, <3>1, PlainPart DEF Front
  <2>2. CASE l = <<>>
    BY <1>1, <2>2
  <2> QED
    BY <2>1, <2>2
<1> HIDE DEF m
<1> QED
  BY <1>2, <1>3 DEF Like

LEMMA CompleteAlike ==
  ASSUME NEW x, NEW y, Fits(x), Fits(y), Like(x, y), \A c \in Commands : Plain(c)
  PROVE  Like(Complete(x), Complete(y))
<1> DEFINE l == x.line
<1>1. x \in Editor /\ y \in Editor /\ l \in Seq(Chars) /\ y.line = l /\ x.head = 0 /\ Plain(l)
  BY DEF Fits, Editor, Like
<1>2. CASE l = <<>> \/ Matches(l) = {}
  BY <1>1, <1>2 DEF Complete, Like
<1>3. CASE l # <<>> /\ Matches(l) # {}
  <2> DEFINE m == LongestCommonPrefix(Matches(l))
  <2>1. Complete(x) = Redraw(x, m) /\ Complete(y) = Redraw(y, m)
    BY <1>1, <1>3 DEF Complete
  <2>2. m \in Seq(Chars) /\ Len(m) < LineSize
    BY <1>1, <1>3, SharedPrefix
  <2>3. Plain(m)
    <3>1. PICK c \in Commands : \E n \in 0 .. Len(c) : m = SubSeq(c, 1, n)
      BY <1>1, <1>3, SharedPrefix
    <3> HIDE DEF m
    <3> QED
      BY <3>1, PlainPart, Sizes
  <2> HIDE DEF m
  <2>4. Redraw(x, m).line = m /\ Redraw(y, m).line = m /\ Redraw(x, m).head = x.head
    BY <2>2, Redraws
  <2> QED
    BY <1>1, <2>1, <2>3, <2>4 DEF Like
<1> QED
  BY <1>2, <1>3

LEMMA KeyAlike ==
  ASSUME NEW x, NEW y, Fits(x), Fits(y), Like(x, y), NEW c \in Chars, c # "esc",
         \A d \in Commands : Plain(d)
  PROVE  Like(Key(x, c), Key(y, c))
<1>1. x.line \in Seq(Chars) /\ Plain(x.line) /\ x.line = y.line
  BY DEF Fits, Editor, Like
<1>2. ~Escaped(x.line) /\ ~Escaped(y.line)
  BY <1>1, PlainIs
<1>3. CASE c = "tab"
  BY <1>3, CompleteAlike DEF Key
<1>4. CASE c = "bs"
  BY <1>4, EraseAlike DEF Key
<1>5. CASE c \notin {"tab", "bs"}
  <2>1. Key(x, c) = Save(x, c) /\ Key(y, c) = Save(y, c)
    BY <1>2, <1>5 DEF Key
  <2> QED
    BY <2>1, SaveAlike
<1> QED
  BY <1>3, <1>4, <1>5

LEMMA EndAlike ==
  ASSUME NEW x, NEW y, Fits(x), Fits(y), Like(x, y)
  PROVE  Like(Ended(x), Ended(y))
<1>1. Ended(x).line = <<>> /\ Ended(y).line = <<>> /\ Ended(x).head = 0
  BY EndedKeeps DEF Like
<1>2. Plain(<<>>)
  BY DEF Plain
<1> QED
  BY <1>1, <1>2 DEF Like

LEMMA PlainRead ==
  ASSUME NEW x, NEW y, Fits(x), Fits(y), Like(x, y), NEW chars \in Seq(Chars), Plain(chars),
         \A d \in Commands : Plain(d)
  PROVE  /\ Like(Reading(Begin(x), chars).e, Reading(Begin(y), chars).e)
         /\ Reading(Begin(x), chars).out = Reading(Begin(y), chars).out
<1>1. PICK g : Steps(g, Begin(x), chars) /\ Reading(Begin(x), chars) = g[Len(chars)]
  BY ReadingHas
<1>2. PICK h : Steps(h, Begin(y), chars) /\ Reading(Begin(y), chars) = h[Len(chars)]
  BY ReadingHas
<1>3. \A n \in 0 .. Len(chars) : Sound(g[n]) /\ Sound(h[n])
  BY <1>1, <1>2, Begins, StepsSound
<1> DEFINE Alike(n) == Like(g[n].e, h[n].e) /\ g[n].out = h[n].out
           T == {n \in 0 .. Len(chars) : ~Alike(n)}
<1>4. Len(chars) \in Nat /\ T \subseteq Nat
  <2> HIDE DEF Alike
  <2> QED
    OBVIOUS
<1>5. ASSUME T # {} PROVE FALSE
  <2>1. PICK m \in T : \A k \in T : m <= k
    <3> HIDE DEF T
    <3> QED
      BY <1>4, <1>5, LeastNumber
  <2>2. m \in 0 .. Len(chars) /\ ~Alike(m)
    <3> HIDE DEF Alike
    <3> QED
      BY <2>1
  <2>3. m # 0
    <3>1. g[0] = Begin(x) /\ h[0] = Begin(y)
      BY <1>1, <1>2 DEF Steps
    <3>2. Alike(0)
      BY <3>1, Begins
    <3> QED
      BY <2>2, <3>2
  <2>4. m \in 1 .. Len(chars) /\ m - 1 \in 0 .. Len(chars) /\ m - 1 \notin T
    <3>1. m \in Nat /\ m \in 1 .. Len(chars) /\ m - 1 \in 0 .. Len(chars) /\ ~(m <= m - 1)
      BY <1>4, <2>2, <2>3
    <3> HIDE DEF T
    <3> QED
      BY <2>1, <3>1
  <2>5. Alike(m - 1)
    <3> HIDE DEF Alike
    <3> QED
      BY <2>4
  <2> DEFINE a == g[m - 1]
             b == h[m - 1]
             c == chars[m]
  <2>6. Like(a.e, b.e) /\ a.out = b.out /\ Sound(a) /\ Sound(b)
    BY <1>3, <2>4, <2>5
  <2>7. g[m] = Read(a, c) /\ h[m] = Read(b, c) /\ c \in Chars /\ c # "esc"
    BY <1>1, <1>2, <2>4 DEF Steps, Plain
  <2> HIDE DEF a, b, c, T
  <2>8. Fits(a.e) /\ Fits(b.e) /\ a.e.line = b.e.line
    BY <2>6 DEF Sound, Like
  <2>9. /\ c # "cr" => Read(a, c).e = Key(a.e, c) /\ Read(a, c).out = a.out
        /\ c = "cr" => /\ Read(a, c).e = Ended(a.e)
                       /\ a.e.line = <<>> => Read(a, c).out = a.out
                       /\ a.e.line # <<>> => Read(a, c).out = Append(a.out, a.e.line)
    BY <2>6, <2>7, ReadParts DEF Ended
  <2>10. /\ c # "cr" => Read(b, c).e = Key(b.e, c) /\ Read(b, c).out = b.out
         /\ c = "cr" => /\ Read(b, c).e = Ended(b.e)
                        /\ b.e.line = <<>> => Read(b, c).out = b.out
                        /\ b.e.line # <<>> => Read(b, c).out = Append(b.out, b.e.line)
    BY <2>6, <2>7, ReadParts DEF Ended
  <2>11. Like(Key(a.e, c), Key(b.e, c))
    BY <2>6, <2>7, <2>8, KeyAlike
  <2>12. Like(Ended(a.e), Ended(b.e))
    BY <2>6, <2>8, EndAlike
  <2>13. Read(a, c).out = Read(b, c).out
    BY <2>6, <2>8, <2>9, <2>10
  <2>14. Like(Read(a, c).e, Read(b, c).e)
    BY <2>9, <2>10, <2>11, <2>12
  <2> QED
    BY <2>2, <2>7, <2>13, <2>14
<1>6. Alike(Len(chars))
  <2> HIDE DEF Alike
  <2> QED
    BY <1>4, <1>5
<1> QED
  BY <1>1, <1>2, <1>6

-----------------------------------------------------------------------------
(* An arrow is three characters.                                           *)

(* The entry that one arrow leads to from another. *)
Arrow(n, c) == IF n = 0 THEN 1
               ELSE IF c = "A" THEN n + 1
               ELSE IF n > 1 THEN n - 1 ELSE n

(* Where the lines that far back, and the one before them, begin in        *)
(* HistoryBuf.                                                             *)
HeldWhole(e, far, pos) ==
  /\ far \in Nat /\ far <= Len(e.history)
  /\ pos \in [1 .. far + 1 -> 1 .. HistorySize + 1] /\ Laid(e, pos)

(* A line that HistoryBuf holds whole is remembered whole. *)
LEMMA RememberedWhole ==
  ASSUME NEW e, Fits(e), NEW far, NEW pos, HeldWhole(e, far, pos),
         e.head \in 1 .. far, e.at = pos[e.head]
  PROVE  Remembered(e) = Entry(e, e.head)
<1> DEFINE n == e.head
           l == Entry(e, n)
<1>1. n \in Nat /\ n >= 1 /\ n \in 1 .. far + 1 /\ n + 1 \in 1 .. far + 1
  BY DEF HeldWhole
<1>2. Len(l) \in Nat
  BY <1>1, EntryIs
<1>3. pos[n + 1] = pos[n] + Len(l) + 1
  BY <1>1 DEF HeldWhole, Laid
<1>4. pos[n] \in 1 .. HistorySize + 1 /\ pos[n + 1] \in 1 .. HistorySize + 1
  BY <1>1 DEF HeldWhole
<1> HIDE DEF n, l
<1>5. Len(l) <= HistorySize + 1 - pos[n]
  BY <1>2, <1>3, <1>4, Sizes
<1> QED
  BY <1>5 DEF Remembered, n, l

(* Within lines that HistoryBuf holds whole, an arrow moves to the next. *)
LEMMA MovedIs ==
  ASSUME NEW e, Fits(e), NEW far, NEW pos, HeldWhole(e, far, pos),
         e.head # 0 => e.head \in 1 .. far /\ e.at = pos[e.head],
         NEW c, Arrow(e.head, c) \in 1 .. far
  PROVE  Moved(e, c).head = Arrow(e.head, c) /\ Moved(e, c).at = pos[Arrow(e.head, c)]
<1>1. /\ e \in Editor /\ e.head \in Nat /\ e.at \in Int /\ far \in Nat
      /\ \A n \in 1 .. far : n \in 1 .. far + 1 /\ n + 1 \in 1 .. far + 1
  BY SMTT(90) DEF Fits, Editor, HeldWhole
<1>2. CASE e.head = 0
  <2>1. Moved(e, c) = [e EXCEPT !.head = 1, !.at = 1] /\ Arrow(e.head, c) = 1
    BY <1>2 DEF Moved, Arrow
  <2>2. pos[1] = 1
    BY DEF HeldWhole, Laid
  <2>3. [e EXCEPT !.head = 1, !.at = 1].head = 1 /\ [e EXCEPT !.head = 1, !.at = 1].at = 1
    BY <1>1 DEF Editor
  <2> QED
    BY <2>1, <2>2, <2>3
<1>3. CASE e.head # 0 /\ c = "A"
  <2> DEFINE n == e.head
             l == Len(Entry(e, n))
             zero == e.at + l
             f == [e EXCEPT !.head = n + 1, !.at = zero + 1]
  <2>1. Moved(e, c) = Older(e) /\ Arrow(n, c) = n + 1
    BY <1>3 DEF Moved, Arrow
  <2>2. n \in 1 .. far /\ n + 1 \in 1 .. far + 1 /\ e.at = pos[n]
    BY <1>1, <1>3
  <2>3. l \in Nat
    BY <1>1, <2>2, EntryIs
  <2>4. pos[n + 1] = pos[n] + l + 1 /\ pos[n + 1] \in 1 .. HistorySize + 1
    BY <1>1, <2>2 DEF HeldWhole, Laid
  <2>5. zero <= HistorySize /\ zero + 1 = pos[n + 1]
    BY <1>1, <2>2, <2>3, <2>4, Sizes
  <2>6. Older(e) = f
    BY <2>5 DEF Older
  <2> HIDE DEF zero
  <2>7. f.head = n + 1 /\ f.at = zero + 1
    BY <1>1 DEF Editor
  <2> HIDE DEF f, n
  <2> QED
    BY <2>1, <2>5, <2>6, <2>7 DEF n
<1>4. CASE e.head # 0 /\ c # "A"
  <2> DEFINE n == e.head
  <2>1. Moved(e, c) = Newer(e) /\ Arrow(n, c) = IF n > 1 THEN n - 1 ELSE n
    BY <1>4 DEF Moved, Arrow
  <2>2. n \in 1 .. far /\ e.at = pos[n]
    BY <1>4
  <2>3. CASE ~ (n > 1)
    BY <2>1, <2>2, <2>3 DEF Newer
  <2>4. CASE n > 1
    <3> DEFINE l == Len(Entry(e, n - 1))
               a == e.at - 1 - l
               f == [e EXCEPT !.head = n - 1, !.at = a]
    <3>1. n - 1 \in 1 .. far /\ (n - 1) + 1 = n /\ n - 1 \in Nat /\ n - 1 >= 1
      BY <1>1, <2>2, <2>4
    <3>2. l \in Nat
      BY <3>1, EntryIs
    <3>3. pos[n] = pos[n - 1] + l + 1 /\ pos[n - 1] \in 1 .. HistorySize + 1
      BY <1>1, <2>2, <3>1 DEF HeldWhole, Laid
    <3>4. a = pos[n - 1]
      BY <2>2, <3>2, <3>3, Sizes
    <3>5. Newer(e) = f
      BY <2>4 DEF Newer
    <3> HIDE DEF a
    <3>6. f.head = n - 1 /\ f.at = a
      BY <1>1 DEF Editor
    <3> HIDE DEF f, n
    <3> QED
      BY <2>1, <2>4, <3>4, <3>5, <3>6 DEF n
  <2> QED
    BY <2>3, <2>4
<1> QED
  BY <1>2, <1>3, <1>4

LEMMA AppendTwo ==
  ASSUME NEW l \in Seq(Chars), NEW a \in Chars, NEW b \in Chars
  PROVE  /\ Append(l, a) \in Seq(Chars) /\ Len(Append(l, a)) = Len(l) + 1
         /\ Append(l, a)[Len(l) + 1] = a
         /\ Append(Append(l, a), b) \in Seq(Chars) /\ Len(Append(Append(l, a), b)) = Len(l) + 2
         /\ Append(Append(l, a), b)[Len(l) + 2] = b
         /\ Append(Append(l, a), b)[Len(l) + 1] = a
  OBVIOUS

(* An arrow, from an editor that is among the lines that HistoryBuf holds  *)
(* whole, to another of them.                                              *)
Among(e, far, pos, c) ==
  /\ HeldWhole(e, far, pos) /\ Arrow(e.head, c) \in 1 .. far
  /\ e.head # 0 => e.head \in 1 .. far /\ e.at = pos[e.head]

LEMMA RecallWhole ==
  ASSUME NEW e, Fits(e), NEW c \in {"A", "B"}, NEW far, NEW pos, Among(e, far, pos, c)
  PROVE  /\ Recall(e, c).head = Arrow(e.head, c)
         /\ Recall(e, c).at = pos[Arrow(e.head, c)]
         /\ Recall(e, c).line = Entry(e, Arrow(e.head, c))
         /\ Recall(e, c).history = e.history
<1> DEFINE n == Arrow(e.head, c)
           f == Moved(e, c)
<1>1. Fits(f) /\ f.head > 0 /\ f.history = e.history
  BY MovedFits
<1>2. f.head = n /\ f.at = pos[n] /\ n \in 1 .. far
  BY MovedIs DEF Among
<1>3. Recall(e, c) = Redraw(f, Remembered(f))
  BY RecallIs
<1> HIDE DEF f, n
<1>4. HeldWhole(f, far, pos)
  BY <1>1 DEF Among, HeldWhole, Laid, Entry
<1>5. Remembered(f) = Entry(f, n)
  BY <1>1, <1>2, <1>4, RememberedWhole
<1>6. Entry(f, n) = Entry(e, n)
  BY <1>1 DEF Entry
<1>7. Remembered(f) \in Seq(Chars) /\ Len(Remembered(f)) < LineSize
  BY <1>1, RememberedIs
<1>8. /\ Redraw(f, Remembered(f)).line = Remembered(f)
      /\ Redraw(f, Remembered(f)).head = f.head /\ Redraw(f, Remembered(f)).at = f.at
      /\ Redraw(f, Remembered(f)).history = f.history
  BY <1>1, <1>7, Redraws
<1> QED
  BY <1>1, <1>2, <1>3, <1>5, <1>6, <1>8 DEF n

LEMMA ArrowRead ==
  ASSUME NEW x, Fits(x), Plain(x.line), Len(x.line) + 2 < LineSize,
         NEW c \in {"A", "B"}, c \in Chars, "esc" \in Chars, "[" \in Chars,
         NEW far, NEW pos, Among(x, far, pos, c)
  PROVE  LET k == Key(Key(Key(x, "esc"), "["), c)
         IN  /\ k.head = Arrow(x.head, c) /\ k.at = pos[Arrow(x.head, c)]
             /\ k.line = Entry(x, Arrow(x.head, c)) /\ k.history = x.history
<1> DEFINE l == x.line
           y == Key(x, "esc")
           z == Key(y, "[")
<1>1. /\ x \in Editor /\ l \in Seq(Chars) /\ Len(l) \in Nat /\ x.head \in Nat
      /\ Len(l) + 1 < LineSize - 1 /\ Len(l) < LineSize - 1
  BY Sizes DEF Fits, Editor
<1>2. ~Escaped(l)
  BY <1>1, PlainIs
<1>3. /\ Append(l, "esc") \in Seq(Chars) /\ Len(Append(l, "esc")) = Len(l) + 1
      /\ Append(l, "esc")[Len(l) + 1] = "esc"
      /\ Append(Append(l, "esc"), "[") \in Seq(Chars)
      /\ Len(Append(Append(l, "esc"), "[")) = Len(l) + 2
      /\ Append(Append(l, "esc"), "[")[Len(l) + 2] = "["
      /\ Append(Append(l, "esc"), "[")[Len(l) + 1] = "esc"
  BY <1>1, AppendTwo
<1>4. /\ Fits(y) /\ y.line = Append(l, "esc") /\ y.head = x.head /\ y.history = x.history
      /\ y.at = x.at
  <2>1. y = Save(x, "esc")
    BY <1>2 DEF Key
  <2>2. Fits(x) /\ "esc" \in Chars
    BY <1>1
  <2>3. /\ Fits(Save(x, "esc")) /\ Save(x, "esc").history = x.history
        /\ Save(x, "esc").line = IF Len(x.line) < LineSize - 1 THEN Append(x.line, "esc") ELSE x.line
        /\ Save(x, "esc").head = x.head /\ Save(x, "esc").at = x.at
    BY <2>2, SaveIs, Zenon
  <2>4. Len(x.line) < LineSize - 1
    BY <1>1
  <2> QED
    BY <2>1, <2>3, <2>4
<1> HIDE DEF y
<1>5. ~Escaped(y.line)
  <2> DEFINE m == Append(l, "esc")
  <2>1. m \in Seq(Chars) /\ Len(m) = Len(l) + 1 /\ m[Len(m)] = "esc"
    BY <1>3
  <2> HIDE DEF m
  <2>2. ~Escaped(m)
    BY <2>1, EscapedIs
  <2> QED
    BY <1>4, <2>2 DEF m
<1>6. /\ Fits(z) /\ z.line = Append(Append(l, "esc"), "[") /\ z.head = x.head
      /\ z.history = x.history /\ z.at = x.at
  <2>1. z = Save(y, "[")
    BY <1>5 DEF Key
  <2>2. Len(y.line) < LineSize - 1
    BY <1>1, <1>3, <1>4
  <2>3. /\ Fits(Save(y, "[")) /\ Save(y, "[").history = y.history
        /\ Save(y, "[").line = IF Len(y.line) < LineSize - 1 THEN Append(y.line, "[") ELSE y.line
        /\ Save(y, "[").head = y.head /\ Save(y, "[").at = y.at
    BY <1>4, SaveIs, Zenon
  <2> QED
    BY <1>4, <2>1, <2>2, <2>3
<1> HIDE DEF z
<1>7. Escaped(z.line)
  <2> DEFINE m == Append(Append(l, "esc"), "[")
  <2>1. m \in Seq(Chars) /\ Len(m) = Len(l) + 2 /\ m[Len(l) + 2] = "[" /\ m[Len(l) + 1] = "esc"
    BY <1>3
  <2> HIDE DEF m
  <2>2. Len(m) >= 2 /\ m[Len(m)] = "[" /\ m[Len(m) - 1] = "esc"
    BY <1>1, <2>1
  <2>3. Escaped(m)
    BY <2>1, <2>2, EscapedIs
  <2> QED
    BY <1>6, <2>3 DEF m
<1>8. Key(z, c) = Recall(z, c)
  BY <1>7 DEF Key
<1>9. Among(z, far, pos, c)
  BY <1>6 DEF Among, HeldWhole, Laid, Entry
<1>10. /\ Recall(z, c).head = Arrow(z.head, c) /\ Recall(z, c).at = pos[Arrow(z.head, c)]
       /\ Recall(z, c).line = Entry(z, Arrow(z.head, c)) /\ Recall(z, c).history = z.history
  BY <1>6, <1>9, RecallWhole
<1>11. Entry(z, Arrow(z.head, c)) = Entry(x, Arrow(x.head, c))
  BY <1>6 DEF Entry
<1> QED
  BY <1>6, <1>8, <1>10, <1>11 DEF z, y

(* Characters by their place in an arrow. *)
LEMMA Thirds ==
  ASSUME NEW a \in Nat, NEW n \in 1 .. 3 * a
  PROVE  \E k \in 1 .. a : n = 3 * k - 2 \/ n = 3 * k - 1 \/ n = 3 * k
<1> DEFINE T == {k \in 1 .. a : n <= 3 * k}
<1>1. T \subseteq Nat /\ a \in T
  OBVIOUS
<1>2. PICK k \in T : \A j \in T : k <= j
  <2> HIDE DEF T
  <2> QED
    BY <1>1, LeastNumber
<1>3. k \in 1 .. a /\ n <= 3 * k
  BY <1>2
<1>4. k - 1 \notin T
  BY <1>2, <1>3
<1>5. n > 3 * (k - 1)
  BY <1>3, <1>4
<1> QED
  BY <1>3, <1>5

LEMMA ArrowsOnlyLast ==
  ASSUME NEW chars \in Seq(Chars), NEW back, NEW far, ArrowKeys(chars, back, far)
  PROVE  OnlyLast(chars)
<1>1. PICK a \in 1 .. Len(chars) :
        /\ Len(chars) = 3 * a + 1
        /\ \A n \in 1 .. a : /\ chars[3 * n - 2] = "esc" /\ chars[3 * n - 1] = "["
                             /\ chars[3 * n] \in {"A", "B"}
  BY DEF ArrowKeys
<1>2. ASSUME NEW n \in 1 .. Len(chars) - 1 PROVE chars[n] # "cr"
  <2>1. a \in Nat /\ n \in 1 .. 3 * a
    BY <1>1
  <2>2. PICK k \in 1 .. a : n = 3 * k - 2 \/ n = 3 * k - 1 \/ n = 3 * k
    BY <2>1, Thirds
  <2> QED
    BY <1>1, <2>2
<1> QED
  BY <1>2 DEF OnlyLast

-----------------------------------------------------------------------------
(* What the operator meant is what the editor reads, wherever it starts.   *)

Ready(e) ==
  /\ Fits(e) /\ e.line = <<>> /\ e.head = 0
  /\ \A n \in 1 .. Len(e.history) : e.history[n] \in Meant

Gives(e, chars, lines) ==
  /\ Reading(Begin(e), chars).out = lines
  /\ Reading(Begin(e), chars).e.line = <<>> /\ Reading(Begin(e), chars).e.head = 0

Aimed(f, c) ==
  /\ Sound(f) /\ Plain(f.e.line) /\ Len(f.e.line) + 2 < LineSize
  /\ c \in {"A", "B"} /\ c \in Chars /\ "esc" \in Chars /\ "[" \in Chars

Landed(f, c, pos, r) ==
  /\ r.e.head = Arrow(f.e.head, c) /\ r.e.line = Entry(f.e, Arrow(f.e.head, c))
  /\ r.e.at = pos[Arrow(f.e.head, c)]
  /\ r.e.history = f.e.history /\ r.out = f.out

LEMMA ArrowReads ==
  ASSUME NEW f, NEW c, Aimed(f, c), NEW far, NEW pos, Among(f.e, far, pos, c)
  PROVE  Landed(f, c, pos, Read(Read(Read(f, "esc"), "["), c))
<1>0. /\ Sound(f) /\ Plain(f.e.line) /\ Len(f.e.line) + 2 < LineSize
      /\ c \in {"A", "B"} /\ c \in Chars /\ "esc" \in Chars /\ "[" \in Chars
  BY DEF Aimed
<1> DEFINE f1 == Read(f, "esc")
           f2 == Read(f1, "[")
           f3 == Read(f2, c)
<1>1. Sound(f1) /\ f1.e = Key(f.e, "esc") /\ f1.out = f.out
  BY <1>0, ReadParts
<1> HIDE DEF f1
<1>2. Sound(f2) /\ f2.e = Key(f1.e, "[") /\ f2.out = f1.out
  BY <1>0, <1>1, ReadParts
<1> HIDE DEF f2
<1>3. f3.e = Key(f2.e, c) /\ f3.out = f2.out
  BY <1>0, <1>2, ReadParts
<1> HIDE DEF f3
<1>4. /\ Key(Key(Key(f.e, "esc"), "["), c).head = Arrow(f.e.head, c)
      /\ Key(Key(Key(f.e, "esc"), "["), c).line = Entry(f.e, Arrow(f.e.head, c))
      /\ Key(Key(Key(f.e, "esc"), "["), c).at = pos[Arrow(f.e.head, c)]
      /\ Key(Key(Key(f.e, "esc"), "["), c).history = f.e.history
  <2> DEFINE x == f.e
  <2>1. Fits(x)
    BY <1>0 DEF Sound
  <2> HIDE DEF x
  <2>2. /\ Key(Key(Key(x, "esc"), "["), c).head = Arrow(x.head, c)
        /\ Key(Key(Key(x, "esc"), "["), c).line = Entry(x, Arrow(x.head, c))
        /\ Key(Key(Key(x, "esc"), "["), c).at = pos[Arrow(x.head, c)]
        /\ Key(Key(Key(x, "esc"), "["), c).history = x.history
    <3>1. Plain(x.line) /\ Len(x.line) + 2 < LineSize /\ Among(x, far, pos, c)
      BY <1>0 DEF x
    <3> QED
      BY <1>0, <2>1, <3>1, ArrowRead
  <2> QED
    BY <2>2 DEF x
<1>5. /\ f3.e.head = Arrow(f.e.head, c) /\ f3.e.line = Entry(f.e, Arrow(f.e.head, c))
      /\ f3.e.at = pos[Arrow(f.e.head, c)]
      /\ f3.e.history = f.e.history /\ f3.out = f.out
  BY <1>1, <1>2, <1>3, <1>4
<1>6. Landed(f, c, pos, f3)
  BY <1>5 DEF Landed
<1> QED
  BY <1>6 DEF f1, f2, f3

MeantWell ==
  \A l \in Meant : /\ l \in Seq(Chars) /\ l # <<>> /\ Plain(l)
                    /\ Len(l) + 2 < LineSize /\ Len(l) < HistorySize

LEMMA TwoFit ==
  ASSUME MeantWell, NEW e, Ready(e), Len(e.history) >= 1
  PROVE  Plain(<<>>) /\ Len(<<>>) + 2 < LineSize
<1>1. Len(e.history) \in Nat
  BY DEF Ready, Fits, Editor
<1>2. e.history[1] \in Meant
  BY <1>1 DEF Ready
<1>3. Len(e.history[1]) \in Nat /\ Len(e.history[1]) + 2 < LineSize
  BY <1>2 DEF MeantWell
<1>4. Plain(<<>>) /\ Len(<<>>) = 0
  BY DEF Plain
<1> QED
  BY <1>3, <1>4, Sizes

LEMMA EntryWell ==
  ASSUME MeantWell, NEW e, Ready(e), Len(e.history) >= 1, NEW n \in Nat \ {0}
  PROVE  Plain(Entry(e, n)) /\ Len(Entry(e, n)) + 2 < LineSize
<1>1. Len(e.history) \in Nat
  BY DEF Ready, Fits, Editor
<1>2. CASE n <= Len(e.history)
  <2>1. n \in 1 .. Len(e.history)
    BY <1>1, <1>2
  <2> QED
    BY <1>2, <2>1 DEF MeantWell, Ready, Entry
<1>3. CASE ~ (n <= Len(e.history))
  <2>1. Entry(e, n) = <<>>
    BY <1>3 DEF Entry
  <2> QED
    BY <2>1, TwoFit
<1> QED
  BY <1>2, <1>3

LEMMA RecallGives ==
  ASSUME MeantWell, NEW e, Ready(e), NEW chars \in Seq(Chars),
         NEW back \in Nat \ {0}, NEW far \in Nat, Holds(e, far), ArrowKeys(chars, back, far)
  PROVE  back \in 1 .. Len(e.history) /\ Gives(e, chars, <<e.history[back]>>)
<1>1. PICK a \in 1 .. Len(chars) :
        /\ Len(chars) = 3 * a + 1 /\ chars[3 * a + 1] = "cr"
        /\ \A n \in 1 .. a : /\ chars[3 * n - 2] = "esc" /\ chars[3 * n - 1] = "["
                             /\ chars[3 * n] \in {"A", "B"}
        /\ Reaches(chars, a, back, far)
  BY DEF ArrowKeys
<1>2. PICK at \in [0 .. a -> 0 .. far] :
        /\ at[0] = 0 /\ at[a] = back
        /\ \A n \in 1 .. a : at[n] = Arrow(at[n - 1], chars[3 * n])
  BY <1>1 DEF Reaches, Arrow
<1>3. PICK g : Steps(g, Begin(e), chars) /\ Reading(Begin(e), chars) = g[Len(chars)]
  BY ReadingHas
<1>4. \A n \in 0 .. Len(chars) : Sound(g[n])
  BY <1>3, Begins, StepsSound DEF Ready
<1>5. /\ Len(e.history) >= 1 /\ Len(e.history) \in Nat /\ a \in Nat /\ a \in 0 .. a
      /\ back \in 1 .. far /\ far <= Len(e.history) /\ back \in 1 .. Len(e.history)
      /\ \A k \in 1 .. Len(chars) : chars[k] \in Chars
  <2>1. e.history \in Seq(Seq(Chars))
    BY DEF Ready, Fits, Editor
  <2>2. Len(e.history) \in Nat
    BY <2>1
  <2>3. a \in Nat /\ a \in 0 .. a /\ \A k \in 1 .. Len(chars) : chars[k] \in Chars
    OBVIOUS
  <2>4. back \in 0 .. far
    BY <1>2, <2>3
  <2>5. far <= Len(e.history)
    BY DEF Holds
  <2> QED
    BY <2>2, <2>3, <2>4, <2>5
<1>16. PICK pos : HeldWhole(e, far, pos)
  BY DEF Holds, HeldWhole
<1> DEFINE Line(n) == IF n = 0 THEN <<>> ELSE Entry(e, n)
           P(n) == /\ g[3 * n].e.head = at[n] /\ g[3 * n].e.line = Line(at[n])
                   /\ at[n] # 0 => g[3 * n].e.at = pos[at[n]]
                   /\ g[3 * n].e.history = e.history /\ g[3 * n].out = <<>>
           T == {n \in 0 .. a : ~P(n)}
<1>6. T \subseteq Nat
  <2> HIDE DEF P
  <2> QED
    BY <1>5
<1>7. \A n \in Nat : Plain(Line(n)) /\ Len(Line(n)) + 2 < LineSize
  <2> TAKE n \in Nat
  <2>1. CASE n # 0
    BY <1>5, <2>1, EntryWell
  <2>2. CASE n = 0
    BY <1>5, <2>2, TwoFit
  <2> QED
    BY <2>1, <2>2
<1> HIDE DEF Line
<1>8. ASSUME T # {} PROVE FALSE
  <2>1. PICK m \in T : \A k \in T : m <= k
    <3> HIDE DEF T
    <3> QED
      BY <1>6, <1>8, LeastNumber
  <2>2. m \in 0 .. a /\ ~P(m)
    <3> HIDE DEF P
    <3> QED
      BY <2>1
  <2>3. m # 0
    <3>1. g[0] = Begin(e)
      BY <1>3 DEF Steps
    <3>2. Begin(e).e = e /\ Begin(e).out = <<>> /\ e.line = <<>> /\ e.head = 0
      BY DEF Begin, Ready
    <3>3. g[3 * 0] = g[0]
      OBVIOUS
    <3>4. P(0)
      BY <1>2, <3>1, <3>2, <3>3 DEF Line
    <3> QED
      BY <2>2, <3>4
  <2>4. m \in 1 .. a /\ m - 1 \in 0 .. a /\ m - 1 \notin T
    <3>1. m \in Nat /\ m \in 1 .. a /\ m - 1 \in 0 .. a /\ ~(m <= m - 1)
      BY <1>5, <2>2, <2>3
    <3> HIDE DEF T
    <3> QED
      BY <2>1, <3>1
  <2>5. P(m - 1)
    <3> HIDE DEF P
    <3> QED
      BY <2>4
  <2>6. /\ 3 * m - 2 \in 1 .. Len(chars) /\ 3 * m - 1 \in 1 .. Len(chars) /\ 3 * m \in 1 .. Len(chars)
        /\ 3 * m - 2 - 1 = 3 * (m - 1) /\ 3 * m - 1 - 1 = 3 * m - 2 /\ 3 * (m - 1) \in 0 .. Len(chars)
    BY <1>1, <1>5, <2>4
  <2> DEFINE f == g[3 * (m - 1)]
             c == chars[3 * m]
  <2>7. /\ g[3 * m - 2] = Read(f, chars[3 * m - 2])
        /\ g[3 * m - 1] = Read(g[3 * m - 2], chars[3 * m - 1])
        /\ g[3 * m] = Read(g[3 * m - 1], c)
    BY <1>3, <2>6 DEF Steps
  <2>8. /\ chars[3 * m - 2] = "esc" /\ chars[3 * m - 1] = "[" /\ c \in {"A", "B"}
        /\ "esc" \in Chars /\ "[" \in Chars /\ c \in Chars
    <3>1. /\ chars[3 * m - 2] = "esc" /\ chars[3 * m - 1] = "[" /\ c \in {"A", "B"}
      BY <1>1, <2>4
    <3>2. chars[3 * m - 2] \in Chars /\ chars[3 * m - 1] \in Chars /\ c \in Chars
      BY <1>5, <2>6
    <3> QED
      BY <3>1, <3>2
  <2>9. at[m - 1] \in 0 .. far /\ at[m - 1] \in Nat /\ at[m] = Arrow(at[m - 1], c) /\ at[m] \in 0 .. far
    <3>1. at[m - 1] \in 0 .. far /\ at[m] \in 0 .. far
      BY <2>2, <2>4
    <3>2. at[m] = Arrow(at[m - 1], c)
      BY <1>2, <2>4
    <3>3. \A k \in 0 .. far : k \in Nat
      OBVIOUS
    <3>4. at[m - 1] \in Nat
      BY <3>1, <3>3, Zenon
    <3> QED
      BY <3>1, <3>2, <3>4, Zenon
  <2>10. /\ Sound(f) /\ f.e.head = at[m - 1] /\ f.e.line = Line(at[m - 1])
         /\ at[m - 1] # 0 => f.e.at = pos[at[m - 1]]
         /\ f.e.history = e.history /\ f.out = <<>>
    BY <1>4, <2>5, <2>6
  <2>11. g[3 * m] = Read(Read(Read(f, "esc"), "["), c)
    BY <2>7, <2>8
  <2> HIDE DEF f, c, T, P
  <2>12. Arrow(at[m - 1], c) # 0
    <3> DEFINE n == at[m - 1]
    <3>1. n \in Nat
      BY <2>9
    <3> HIDE DEF n
    <3>2. Arrow(n, c) # 0
      BY <3>1 DEF Arrow
    <3> QED
      BY <3>2 DEF n
  <2>16. Among(f.e, far, pos, c)
    <3>1. HeldWhole(f.e, far, pos)
      BY <1>16, <2>10 DEF HeldWhole, Laid, Entry
    <3>2. Arrow(f.e.head, c) \in 1 .. far
      BY <2>9, <2>10, <2>12
    <3>3. f.e.head # 0 => f.e.head \in 1 .. far /\ f.e.at = pos[f.e.head]
      BY <2>9, <2>10
    <3> QED
      BY <3>1, <3>2, <3>3 DEF Among
  <2>13. /\ g[3 * m].e.head = Arrow(f.e.head, c) /\ g[3 * m].e.line = Entry(f.e, Arrow(f.e.head, c))
         /\ g[3 * m].e.at = pos[Arrow(f.e.head, c)]
         /\ g[3 * m].e.history = f.e.history /\ g[3 * m].out = f.out
    <3>1. Plain(f.e.line) /\ Len(f.e.line) + 2 < LineSize
      BY <1>7, <2>9, <2>10
    <3> DEFINE r == g[3 * m]
    <3>2. r = Read(Read(Read(f, "esc"), "["), c)
      BY <2>11
    <3> HIDE DEF r
    <3>3. /\ r.e.head = Arrow(f.e.head, c) /\ r.e.line = Entry(f.e, Arrow(f.e.head, c))
          /\ r.e.at = pos[Arrow(f.e.head, c)]
          /\ r.e.history = f.e.history /\ r.out = f.out
      <4>1. Aimed(f, c)
        BY <2>8, <2>10, <3>1 DEF Aimed
      <4>2. Landed(f, c, pos, Read(Read(Read(f, "esc"), "["), c))
        BY <2>16, <4>1, ArrowReads
      <4>3. Landed(f, c, pos, r)
        BY <3>2, <4>2
      <4> QED
        BY <4>3 DEF Landed
    <3> QED
      BY <3>3 DEF r
  <2>14. Entry(f.e, Arrow(f.e.head, c)) = Line(at[m])
    BY <2>9, <2>10, <2>12 DEF Line, Entry
  <2>15. P(m)
    BY <2>9, <2>10, <2>13, <2>14 DEF P
  <2> QED
    BY <2>2, <2>15
<1>9. P(a)
  <2>1. T = {}
    BY <1>8
  <2>2. a \in 0 .. a
    BY <1>5
  <2> HIDE DEF P
  <2> QED
    BY <2>1, <2>2
<1> DEFINE f == g[3 * a]
<1>10. /\ g[Len(chars)] = Read(f, "cr") /\ Sound(f) /\ "cr" \in Chars
  <2>1. 3 * a + 1 \in 1 .. Len(chars) /\ 3 * a + 1 - 1 = 3 * a /\ 3 * a \in 0 .. Len(chars)
    BY <1>1, <1>5
  <2>2. g[3 * a + 1] = Read(g[3 * a], chars[3 * a + 1])
    BY <1>3, <2>1 DEF Steps
  <2> QED
    BY <1>1, <1>4, <2>1, <2>2
<1>11. f.e.line = e.history[back] /\ f.out = <<>> /\ Fits(f.e)
  <2>1. f.e.line = Line(back) /\ f.out = <<>>
    BY <1>2, <1>9
  <2>2. Line(back) = e.history[back]
    BY <1>5 DEF Line, Entry
  <2> QED
    BY <1>10, <2>1, <2>2 DEF Sound
<1> HIDE DEF f
<1>12. e.history[back] # <<>>
  <2>1. back \in 1 .. Len(e.history)
    BY <1>5
  <2> QED
    BY <2>1 DEF Ready, MeantWell
<1>13. Read(f, "cr").e = Ended(f.e) /\ Read(f, "cr").out = Append(<<>>, e.history[back])
  BY <1>10, <1>11, <1>12, ReadParts DEF Ended
<1>14. Ended(f.e).line = <<>> /\ Ended(f.e).head = 0
  BY <1>11, <1>12, EndedKeeps
<1>15. Append(<<>>, e.history[back]) = <<e.history[back]>>
  OBVIOUS
<1> QED
  BY <1>3, <1>5, <1>10, <1>13, <1>14, <1>15 DEF Gives

LEMMA FreshFits == Fits(Fresh) /\ Like(Fresh, Fresh)
<1>1. <<>> \in Seq(Chars) /\ Len(<<>>) = 0 /\ <<>> \in Seq(Seq(Chars))
  OBVIOUS
<1>2. /\ Fresh \in Editor /\ Fresh.line = <<>> /\ Fresh.head = 0 /\ Fresh.history = <<>>
  BY <1>1 DEF Fresh, Editor
<1>3. Plain(<<>>)
  BY DEF Plain
<1> QED
  BY <1>1, <1>2, <1>3, Sizes DEF Fits, Placed, Like

LEMMA SpelledGives ==
  ASSUME \A c \in Commands : Plain(c), NEW e, Ready(e),
         NEW chars \in Seq(Chars), NEW lines, Spells(chars, lines)
  PROVE  Gives(e, chars, lines)
<1>1. Fits(e) /\ Like(e, Fresh)
  <2>1. Plain(<<>>)
    BY DEF Plain
  <2> QED
    BY <2>1 DEF Ready, Like, Fresh
<1>2. /\ Like(Reading(Begin(e), chars).e, Reading(Begin(Fresh), chars).e)
      /\ Reading(Begin(e), chars).out = Reading(Begin(Fresh), chars).out
  BY <1>1, FreshFits, PlainRead DEF Spells
<1> QED
  BY <1>2 DEF Spells, Gives, Like

LEMMA FileWell ==
  ASSUME WellMeant
  PROVE  /\ File \in Seq(Chars) /\ Len(File) <= QueueSize
         /\ FileLines \in Seq(Seq(Chars))
         /\ ScriptCmd # <<>>
         /\ \A n \in 1 .. Len(FileLines) : FileLines[n] \in Meant /\ FileLines[n] # ScriptCmd
<1>1. File \in Seq(Chars) /\ Len(File) <= QueueSize /\ Spells(File, FileLines) /\ ScriptCmd # <<>>
      /\ ScriptCmd \notin ToSet(FileLines)
  BY Sizes DEF WellMeant
<1>2. FileLines \in Seq(Seq(Chars))
  <2>1. Reading(Begin(Fresh), File).out \in Seq(Seq(Chars))
    BY <1>1, FreshFits, ReadingSound
  <2> QED
    BY <1>1, <2>1 DEF Spells
<1>3. \A n \in 1 .. Len(FileLines) : FileLines[n] \in ToSet(FileLines)
  BY <1>2 DEF ToSet
<1> QED
  BY <1>1, <1>2, <1>3 DEF Meant

LEMMA FileGives ==
  ASSUME WellMeant, NEW e, Ready(e)
  PROVE  Gives(e, File, FileLines)
  BY FileWell, SpelledGives DEF WellMeant

LEMMA InputsWell ==
  ASSUME WellMeant, NEW i \in Inputs
  PROVE  /\ i.back \in Nat /\ i.far \in Nat /\ Len(i.keys) <= QueueSize /\ i.keys \in Seq(Chars)
         /\ i.back = 0 => i.line \in Meant
         /\ i.back # 0 \/ i.line = ScriptCmd => OnlyLast(i.keys)
<1>1. /\ i.back \in Nat /\ i.far \in Nat /\ Len(i.keys) <= QueueSize /\ i.keys \in Seq(Chars)
      /\ i.line = ScriptCmd => OnlyLast(i.keys)
      /\ i.back # 0 => ArrowKeys(i.keys, i.back, i.far)
  BY Sizes DEF WellMeant
<1>2. i.back = 0 => i.line \in Meant
  BY DEF Meant
<1> QED
  BY <1>1, <1>2, ArrowsOnlyLast

LEMMA InputGives ==
  ASSUME WellMeant, NEW e, Ready(e), NEW i \in Inputs, Holds(e, i.far)
  PROVE  /\ i.back # 0 => i.back \in 1 .. Len(e.history)
         /\ Gives(e, i.keys, <<IF i.back = 0 THEN i.line ELSE e.history[i.back]>>)
<1>1. i.back \in Nat /\ i.far \in Nat /\ i.keys \in Seq(Chars)
  BY InputsWell
<1>2. MeantWell
  BY DEF WellMeant, MeantWell
<1>3. CASE i.back = 0
  <2>1. Spells(i.keys, <<i.line>>) /\ \A c \in Commands : Plain(c)
    BY <1>3 DEF WellMeant
  <2>2. Gives(e, i.keys, <<i.line>>)
    BY <1>1, <2>1, SpelledGives
  <2> QED
    BY <1>3, <2>2
<1>4. CASE i.back # 0
  <2>1. ArrowKeys(i.keys, i.back, i.far)
    BY <1>4 DEF WellMeant
  <2>2. i.back \in 1 .. Len(e.history) /\ Gives(e, i.keys, <<e.history[i.back]>>)
    BY <1>1, <1>2, <1>4, <2>1, RecallGives
  <2> QED
    BY <1>4, <2>2
<1> QED
  BY <1>3, <1>4

-----------------------------------------------------------------------------
(* One operator at a time: the characters on their way.                    *)

From(l) ==
  IF \E s \in Sources : l[s] # <<>> THEN l[CHOOSE s \in Sources : l[s] # <<>>]
  ELSE <<>>

LEMMA FromOne ==
  ASSUME NEW l, NEW s \in Sources, \A t \in Sources : l[t] # <<>> => t = s
  PROVE  From(l) = l[s]
  BY DEF From

LEMMA FromNone ==
  ASSUME NEW l
  PROVE  From(l) = <<>> <=> \A s \in Sources : l[s] = <<>>
  BY DEF From

LEMMA FromTyped ==
  ASSUME NEW l \in [Sources -> Seq(Chars)]
  PROVE  From(l) \in Seq(Chars)
<1>1. CASE \E s \in Sources : l[s] # <<>>
  <2>1. (CHOOSE s \in Sources : l[s] # <<>>) \in Sources
    BY <1>1
  <2> QED
    BY <1>1, <2>1 DEF From
<1>2. CASE ~ \E s \in Sources : l[s] # <<>>
  BY <1>2 DEF From
<1> QED
  BY <1>1, <1>2

LEMMA MoveOne ==
  ASSUME NEW u \in Seq(Chars), NEW v \in Seq(Chars), v # <<>>
  PROVE  /\ Append(u, Head(v)) \o Tail(v) = u \o v
         /\ Append(u, Head(v)) \o <<>> \o Tail(v) = u \o <<>> \o v
         /\ Append(u, Head(v)) \o Tail(v) \o <<>> = u \o v \o <<>>
         /\ Len(v) >= 1
<1> DEFINE a == Append(u, Head(v))
           t == Tail(v)
<1>1. /\ t \in Seq(Chars) /\ Len(v) \in Nat /\ Len(v) >= 1 /\ Len(t) = Len(v) - 1
      /\ Head(v) = v[1] /\ Head(v) \in Chars /\ \A n \in 1 .. Len(t) : t[n] = v[n + 1]
  BY EmptySeq, HeadTailProperties
<1>2. /\ a \in Seq(Chars) /\ Len(u) \in Nat /\ Len(a) = Len(u) + 1 /\ a[Len(u) + 1] = v[1]
      /\ \A n \in 1 .. Len(u) : a[n] = u[n]
  BY <1>1
<1> HIDE DEF a, t
<1>3. /\ a \o t \in Seq(Chars) /\ Len(a \o t) = Len(a) + Len(t)
      /\ \A n \in 1 .. Len(a) + Len(t) : (a \o t)[n] = IF n <= Len(a) THEN a[n] ELSE t[n - Len(a)]
  BY <1>1, <1>2, ConcatProperties
<1>4. /\ u \o v \in Seq(Chars) /\ Len(u \o v) = Len(u) + Len(v)
      /\ \A n \in 1 .. Len(u) + Len(v) : (u \o v)[n] = IF n <= Len(u) THEN u[n] ELSE v[n - Len(u)]
  BY ConcatProperties
<1>5. Len(a \o t) = Len(u \o v)
  BY <1>1, <1>2, <1>3, <1>4
<1>6. ASSUME NEW n \in 1 .. Len(u) + Len(v) PROVE (a \o t)[n] = (u \o v)[n]
  <2>1. n \in 1 .. Len(a) + Len(t) /\ n \in Nat
    BY <1>1, <1>2
  <2>2. CASE n <= Len(u)
    BY <1>2, <1>3, <1>4, <2>1, <2>2
  <2>3. CASE n = Len(u) + 1
    BY <1>1, <1>2, <1>3, <1>4, <2>1, <2>3
  <2>4. CASE n > Len(u) + 1
    <3>1. n - Len(a) \in 1 .. Len(t) /\ n - Len(a) + 1 = n - Len(u) /\ ~ (n <= Len(a))
      BY <1>1, <1>2, <2>1, <2>4
    <3>2. t[n - Len(a)] = v[n - Len(u)]
      BY <1>1, <3>1
    <3> QED
      BY <1>2, <1>3, <1>4, <2>1, <2>4, <3>1, <3>2
  <2> QED
    BY <1>2, <2>1, <2>2, <2>3, <2>4
<1>7. a \o t = u \o v
  BY <1>3, <1>4, <1>5, <1>6, SeqEqual
<1>8. \A w \in Seq(Chars) : w \o <<>> = w
  OBVIOUS
<1> QED
  BY <1>1, <1>2, <1>3, <1>4, <1>7, <1>8 DEF a, t

LEMMA TakeFirst ==
  ASSUME NEW u \in Seq(Chars), NEW v \in Seq(Chars), NEW w \in Seq(Chars), u # <<>>
  PROVE  /\ u \o v \o w \in Seq(Chars) /\ u \o v \o w # <<>>
         /\ Head(u \o v \o w) = Head(u)
         /\ Tail(u \o v \o w) = Tail(u) \o v \o w
         /\ Len(Tail(u \o v \o w)) = Len(u \o v \o w) - 1
  OBVIOUS

(* All that will have been read when nothing is on its way. *)
Whole == Reading(Begin(Now), Pending)

Alone ==
  /\ \A s, t \in Sources : left[s] # <<>> /\ left[t] # <<>> => s = t
  /\ pc = "script" => \A s \in Sources : left[s] = <<>>
  /\ pc = "read" => rest = <<>>
  /\ pc # "overrun"

Room == Len(Pending) <= QueueSize

Told ==
  /\ Whole.e.line = <<>> /\ Whole.e.head = 0
  /\ \A n \in 1 .. Len(Whole.out) : /\ Whole.out[n] \in Meant
                                    /\ Whole.out[n] = ScriptCmd => OnlyLast(Pending)

Kept ==
  /\ Len(ed.history) = Len(ran)
  /\ \A n \in 1 .. Len(ran) : ed.history[n] = ran[Len(ran) + 1 - n]
  /\ \A n \in 1 .. Len(ran) : ran[n] \in Meant

Orderly == Alone /\ Room /\ Told /\ Kept

LEMMA PendingTyped ==
  ASSUME TypeOK
  PROVE  /\ Pending = queue \o rest \o From(left) /\ Pending \in Seq(Chars)
         /\ From(left) \in Seq(Chars) /\ queue \in Seq(Chars) /\ rest \in Seq(Chars)
         /\ Pending' = queue' \o rest' \o From(left')
<1>1. From(left) \in Seq(Chars)
  BY FromTyped DEF TypeOK
<1> QED
  BY <1>1 DEF TypeOK, Pending, Coming, From

LEMMA NowFits ==
  ASSUME Seen
  PROVE  /\ Fits(Now) /\ Now.history = ed.history
         /\ pc = "read" => Now = ed
         /\ pc = "script" => Now = [ed EXCEPT !.line = <<>>]
<1>1. Fits(ed) /\ ed \in Editor
  BY DEF Seen, Fits
<1>2. Fits([ed EXCEPT !.line = <<>>])
  <2>1. <<>> \in Seq(Chars) /\ Len(<<>>) < LineSize
    BY Sizes
  <2> QED
    BY <1>1, <2>1, Blanked
<1>3. [ed EXCEPT !.line = <<>>].history = ed.history
  BY <1>1 DEF Editor
<1> QED
  BY <1>1, <1>2, <1>3 DEF Now

(* A history that is kept holds lines that were meant. *)
LEMMA KeptReady ==
  ASSUME Kept, NEW e, Fits(e), e.line = <<>>, e.head = 0, e.history = ed.history, TypeOK
  PROVE  Ready(e)
<1>1. ASSUME NEW n \in 1 .. Len(e.history) PROVE e.history[n] \in Meant
  <2>1. Len(ran) \in Nat /\ n \in 1 .. Len(ran) /\ Len(ran) + 1 - n \in 1 .. Len(ran)
    BY <1>1 DEF Kept, TypeOK
  <2> QED
    BY <2>1 DEF Kept
<1> QED
  BY <1>1 DEF Ready

LEMMA KeptLonger ==
  ASSUME NEW h \in Seq(Seq(Chars)), NEW r \in Seq(Seq(Chars)), NEW l \in Seq(Chars),
         Len(h) = Len(r), \A n \in 1 .. Len(r) : h[n] = r[Len(r) + 1 - n]
  PROVE  /\ Len(<<l>> \o h) = Len(Append(r, l))
         /\ \A n \in 1 .. Len(Append(r, l)) :
              (<<l>> \o h)[n] = Append(r, l)[Len(Append(r, l)) + 1 - n]
<1> DEFINE H == <<l>> \o h
           R == Append(r, l)
<1>1. Len(h) \in Nat /\ Len(r) \in Nat
  OBVIOUS
<1>2. /\ Len(H) = 1 + Len(h)
      /\ H[1] = l /\ \A n \in 2 .. 1 + Len(h) : H[n] = h[n - 1]
  <2>1. <<l>> \in Seq(Seq(Chars)) /\ Len(<<l>>) = 1 /\ <<l>>[1] = l
    OBVIOUS
  <2>2. /\ Len(H) = 1 + Len(h)
        /\ \A n \in 1 .. 1 + Len(h) : H[n] = IF n <= 1 THEN <<l>>[n] ELSE h[n - 1]
    BY <2>1, ConcatProperties
  <2> HIDE DEF H
  <2> QED
    BY <1>1, <2>1, <2>2
<1>3. Len(R) = Len(r) + 1 /\ R[Len(r) + 1] = l /\ \A n \in 1 .. Len(r) : R[n] = r[n]
  OBVIOUS
<1> HIDE DEF H, R
<1>4. ASSUME NEW n \in 1 .. Len(R) PROVE H[n] = R[Len(R) + 1 - n]
  <2>1. CASE n = 1
    BY <1>1, <1>2, <1>3, <2>1
  <2>2. CASE n # 1
    <3>1. n \in 2 .. 1 + Len(h) /\ n - 1 \in 1 .. Len(r)
      BY <1>1, <1>3, <2>2
    <3>2. Len(r) + 1 - (n - 1) \in 1 .. Len(r) /\ Len(R) + 1 - n = Len(r) + 1 - (n - 1)
      BY <1>1, <1>3, <3>1
    <3> QED
      BY <1>2, <1>3, <3>1, <3>2
  <2> QED
    BY <2>1, <2>2
<1> QED
  BY <1>1, <1>2, <1>3, <1>4 DEF H, R

-----------------------------------------------------------------------------
(* Each step keeps the order, and is a step of the shell, or none.         *)

(* What a step leaves to be read is what there was. *)
Same == Whole' = Whole /\ (OnlyLast(Pending) => OnlyLast(Pending')) /\ Len(Pending') <= Len(Pending)

LEMMA SameTold ==
  ASSUME Told, Room, TypeOK, TypeOK', Same
  PROVE  Told' /\ Room' /\ Future' = Future
<1>1. Room'
  <2>1. Len(Pending) \in Nat /\ Len(Pending') \in Nat
    <3>1. Pending \in Seq(Chars)
      BY PendingTyped
    <3>2. Pending' \in Seq(Chars)
      <4>1. From(left') \in Seq(Chars)
        BY FromTyped DEF TypeOK
      <4>2. /\ queue' \in Seq(Chars) /\ rest' \in Seq(Chars)
            /\ Pending' = queue' \o rest' \o From(left')
        BY PendingTyped DEF TypeOK
      <4> DEFINE w == From(left')
      <4> HIDE DEF w
      <4>3. w \in Seq(Chars) => queue' \o rest' \o w \in Seq(Chars)
        BY <4>2
      <4> QED
        BY <4>1, <4>2, <4>3 DEF w
    <3> QED
      BY <3>1, <3>2
  <2> QED
    BY <2>1, Sizes DEF Room, Same
<1>2. Future' = Future
  BY DEF Same, Whole, Future
<1> QED
  BY <1>1, <1>2 DEF Told, Same

LEMMA TakeFirstOnly ==
  ASSUME NEW u \in Seq(Chars), u # <<>>, OnlyLast(u)
  PROVE  OnlyLast(Tail(u)) /\ (Head(u) = "cr" => Tail(u) = <<>>)
<1>1. /\ Len(u) \in Nat /\ Len(u) >= 1 /\ Tail(u) \in Seq(Chars) /\ Len(Tail(u)) = Len(u) - 1
      /\ \A n \in 1 .. Len(u) - 1 : Tail(u)[n] = u[n + 1]
      /\ Head(u) = u[1]
  BY EmptySeq, HeadTailProperties
<1>2. ASSUME NEW n \in 1 .. Len(Tail(u)) - 1 PROVE Tail(u)[n] # "cr"
  <2>1. n + 1 \in 1 .. Len(u) - 1 /\ n \in 1 .. Len(u) - 1
    BY <1>1
  <2> QED
    BY <1>1, <2>1 DEF OnlyLast
<1>3. ASSUME Head(u) = "cr" PROVE Tail(u) = <<>>
  <2>1. ~ (1 \in 1 .. Len(u) - 1)
    BY <1>1, <1>3 DEF OnlyLast
  <2>2. Len(Tail(u)) = 0
    BY <1>1, <2>1
  <2> QED
    BY <1>1, <2>2, EmptySeq
<1> QED
  BY <1>2, <1>3 DEF OnlyLast

LEMMA ReceiveSame ==
  ASSUME TypeOK, Seen, Orderly, NEW s \in Sources, Receive(s)
  PROVE  Alone' /\ Same /\ Kept'
<1>1. /\ left[s] # <<>> /\ left[s] \in Seq(Chars) /\ pc = "read" /\ rest = <<>>
      /\ \A t \in Sources : left[t] # <<>> => t = s
      /\ queue \in Seq(Chars) /\ Len(queue) \in Nat
      /\ left \in [Sources -> Seq(Chars)]
  <2>1. /\ queue \in Seq(Chars) /\ left \in [Sources -> Seq(Chars)]
        /\ pc \in {"read", "script", "overrun"}
    BY DEF TypeOK
  <2>2. Alone
    BY DEF Orderly
  <2>3. left[s] # <<>>
    BY DEF Receive
  <2>4. pc = "read" /\ rest = <<>> /\ \A t \in Sources : left[t] # <<>> => t = s
    BY <2>1, <2>2, <2>3 DEF Alone
  <2>5. Len(queue) \in Nat /\ left[s] \in Seq(Chars)
    BY <2>1
  <2> QED
    BY <2>1, <2>3, <2>4, <2>5
<1>2. From(left) = left[s]
  BY <1>1, FromOne
<1>3. left' = [left EXCEPT ![s] = Tail(left[s])]
  BY DEF Receive
<1>4. /\ left'[s] = Tail(left[s]) /\ \A t \in Sources : t # s => left'[t] = left[t]
  BY <1>1, <1>3
<1>5. \A t \in Sources : left'[t] # <<>> => t = s
  BY <1>1, <1>4
<1>6. From(left') = Tail(left[s])
  BY <1>4, <1>5, FromOne
<1>7. Pending = queue \o <<>> \o left[s] /\ Len(queue \o <<>> \o left[s]) = Len(queue) + Len(left[s])
  BY <1>1, <1>2, PendingTyped
<1>8. Len(left[s]) >= 1 /\ Len(left[s]) \in Nat
  BY <1>1, MoveOne
<1>9. Len(queue) < QueueSize
  BY <1>1, <1>7, <1>8, Sizes DEF Orderly, Room
<1>10. queue' = Append(queue, Head(left[s])) /\ rest' = <<>>
  BY <1>1, <1>9 DEF Receive, Enqueue
<1>11. Pending' = Append(queue, Head(left[s])) \o <<>> \o Tail(left[s])
  BY <1>6, <1>10, PendingTyped
<1>12. Pending' = Pending
  BY <1>1, <1>7, <1>11, MoveOne
<1>13. UNCHANGED <<ed, pc, ran, rest>>
  BY DEF Receive
<1>14. Now' = Now
  BY <1>13 DEF Now
<1>15. Same
  <2>1. Len(Pending) \in Nat
    BY <1>1, <1>7
  <2> QED
    BY <1>12, <1>14, <2>1 DEF Same, Whole
<1>16. Alone'
  BY <1>1, <1>5, <1>13 DEF Alone
<1>17. Kept'
  BY <1>13 DEF Orderly, Kept
<1> QED
  BY <1>15, <1>16, <1>17

LEMMA ReadFileSame ==
  ASSUME TypeOK, Seen, Orderly, ReadFile
  PROVE  Alone' /\ Same /\ Kept'
<1>1. /\ rest # <<>> /\ rest \in Seq(Chars) /\ pc = "script"
      /\ \A t \in Sources : left[t] = <<>>
      /\ queue \in Seq(Chars) /\ Len(queue) \in Nat
  BY DEF Orderly, Alone, ReadFile, TypeOK
<1>2. UNCHANGED <<left, ed, pc, ran>>
  BY DEF ReadFile
<1>3. From(left) = <<>> /\ From(left') = <<>>
  BY <1>1, <1>2, FromNone
<1>4. Pending = queue \o rest \o <<>> /\ Len(queue \o rest \o <<>>) = Len(queue) + Len(rest)
  BY <1>1, <1>3, PendingTyped
<1>5. Len(rest) >= 1 /\ Len(rest) \in Nat
  BY <1>1, MoveOne
<1>6. Len(queue) < QueueSize
  BY <1>1, <1>4, <1>5, Sizes DEF Orderly, Room
<1>7. queue' = Append(queue, Head(rest)) /\ rest' = Tail(rest)
  BY <1>6 DEF ReadFile, Enqueue
<1>8. Pending' = Append(queue, Head(rest)) \o Tail(rest) \o <<>>
  BY <1>3, <1>7, PendingTyped
<1>9. Pending' = Pending
  BY <1>1, <1>4, <1>8, MoveOne
<1>10. Now' = Now
  BY <1>2 DEF Now
<1>11. Same
  <2>1. Len(Pending) \in Nat
    BY <1>1, <1>4
  <2> QED
    BY <1>9, <1>10, <2>1 DEF Same, Whole
<1>12. Alone'
  BY <1>1, <1>2 DEF Alone
<1>13. Kept'
  BY <1>2 DEF Orderly, Kept
<1> QED
  BY <1>11, <1>12, <1>13

LEMMA EndScriptSame ==
  ASSUME TypeOK, Seen, Orderly, EndScript
  PROVE  Alone' /\ Same /\ Kept'
<1>1. /\ rest = <<>> /\ pc = "script" /\ \A t \in Sources : left[t] = <<>>
      /\ ed' = [ed EXCEPT !.line = <<>>] /\ pc' = "read"
      /\ UNCHANGED <<left, queue, rest, ran>>
  BY DEF Orderly, Alone, EndScript
<1>2. Pending' = Pending
  BY <1>1 DEF Pending, Coming
<1>3. Now' = Now /\ Now.history = ed.history
  BY <1>1, NowFits DEF Now
<1>4. ed'.history = ed.history
  BY <1>1, NowFits
<1>5. Same
  <2>1. Len(Pending) \in Nat
    BY PendingTyped
  <2> QED
    BY <1>2, <1>3, <2>1 DEF Same, Whole
<1>6. Alone'
  BY <1>1 DEF Alone
<1>7. Kept'
  BY <1>1, <1>4 DEF Orderly, Kept
<1> QED
  BY <1>5, <1>6, <1>7

(* The first character leaves the queue. *)
LEMMA Leaves ==
  ASSUME TypeOK, Seen, Orderly, TypeOK',
         pc = "read", queue # <<>>, queue' = Tail(queue), UNCHANGED left
  PROVE  /\ Pending \in Seq(Chars) /\ Pending # <<>> /\ Head(Pending) = Head(queue)
         /\ rest' = rest => Pending' = Tail(Pending)
         /\ OnlyLast(Pending) => OnlyLast(Tail(Pending))
         /\ Len(Tail(Pending)) <= Len(Pending)
         /\ Tail(Pending) = Tail(queue) \o From(left) /\ Tail(Pending) \in Seq(Chars)
<1>1. /\ Pending = queue \o rest \o From(left) /\ rest = <<>> /\ From(left) \in Seq(Chars)
      /\ queue \in Seq(Chars) /\ rest \in Seq(Chars) /\ Tail(queue) \in Seq(Chars)
      /\ Pending' = queue' \o rest' \o From(left')
  BY PendingTyped, HeadTailProperties DEF Orderly, Alone
<1>2. /\ Pending \in Seq(Chars) /\ Pending # <<>> /\ Head(Pending) = Head(queue)
      /\ Tail(Pending) = Tail(queue) \o rest \o From(left)
      /\ Len(Tail(Pending)) = Len(Pending) - 1
  <2> DEFINE u == queue
             v == rest
             w == From(left)
  <2>1. u \in Seq(Chars) /\ v \in Seq(Chars) /\ w \in Seq(Chars) /\ u # <<>>
    BY <1>1
  <2>2. Pending = u \o v \o w
    BY <1>1
  <2> HIDE DEF u, v, w
  <2>3. /\ u \o v \o w \in Seq(Chars) /\ u \o v \o w # <<>>
        /\ Head(u \o v \o w) = Head(u)
        /\ Tail(u \o v \o w) = Tail(u) \o v \o w
        /\ Len(Tail(u \o v \o w)) = Len(u \o v \o w) - 1
    BY <2>1, TakeFirst, ZenonT(30)
  <2>4. /\ Pending \in Seq(Chars) /\ Pending # <<>> /\ Head(Pending) = Head(u)
        /\ Tail(Pending) = Tail(u) \o v \o w
        /\ Len(Tail(Pending)) = Len(Pending) - 1
    BY <2>2, <2>3, Zenon
  <2> QED
    BY <2>4, Zenon DEF u, v, w
<1>3. Tail(queue) \o rest = Tail(queue)
  BY <1>1
<1>4. Tail(Pending) \in Seq(Chars) /\ Len(Pending) \in Nat
  <2> DEFINE p == Pending
  <2>1. p \in Seq(Chars) /\ p # <<>>
    BY <1>2
  <2> HIDE DEF p
  <2>2. Tail(p) \in Seq(Chars) /\ Len(p) \in Nat
    BY <2>1, HeadTailProperties
  <2> QED
    BY <2>2 DEF p
<1>5. rest' = rest => Pending' = Tail(Pending)
  <2>1. From(left') = From(left)
    BY DEF From
  <2> QED
    BY <1>1, <1>2, <2>1
<1>6. OnlyLast(Pending) => OnlyLast(Tail(Pending))
  BY <1>2, TakeFirstOnly
<1>7. Len(Tail(Pending)) <= Len(Pending)
  <2> DEFINE n == Len(Pending)
             m == Len(Tail(Pending))
  <2>1. n \in Nat /\ m = n - 1
    BY <1>2, <1>4
  <2> HIDE DEF n, m
  <2>2. m <= n
    BY <2>1
  <2> QED
    BY <2>2 DEF n, m
<1> QED
  BY <1>1, <1>2, <1>3, <1>4, <1>5, <1>6, <1>7

LEMMA TakeKeySame ==
  ASSUME TypeOK, Seen, Orderly, TypeOK', TakeKey
  PROVE  Alone' /\ Same /\ Kept'
<1>1. /\ pc = "read" /\ queue # <<>> /\ Head(queue) # "cr" /\ queue' = Tail(queue)
      /\ ed' = Key(ed, Head(queue)) /\ UNCHANGED <<left, rest, pc, ran>>
  BY DEF TakeKey
<1>2. /\ Pending \in Seq(Chars) /\ Pending # <<>> /\ Head(Pending) = Head(queue)
      /\ Pending' = Tail(Pending) /\ (OnlyLast(Pending) => OnlyLast(Pending'))
      /\ Len(Pending') <= Len(Pending)
  BY <1>1, Leaves
<1>3. Now = ed /\ Now' = ed' /\ Fits(ed)
  BY <1>1 DEF Now, Seen
<1>4. Reading(Begin(ed), Pending) = Reading(Begin(Key(ed, Head(Pending))), Tail(Pending))
  BY <1>1, <1>2, <1>3, ReadOn
<1>5. Whole' = Whole
  BY <1>1, <1>2, <1>3, <1>4 DEF Whole
<1>6. Alone'
  BY <1>1 DEF Alone, Orderly
<1>7. Kept'
  <2>1. Head(queue) \in Chars
    BY <1>1, HeadTailProperties DEF TypeOK
  <2> QED
    BY <1>1, <1>3, <2>1, KeyKeeps DEF Orderly, Kept
<1> QED
  BY <1>2, <1>5, <1>6, <1>7 DEF Same

(* Nothing is on its way: nothing is left to read, and the editor waits. *)
LEMMA QuietReady ==
  ASSUME TypeOK, Seen, Orderly, Quiet
  PROVE  /\ Future = <<>> /\ Ready(ed) /\ Now = ed /\ queue = <<>> /\ rest = <<>>
         /\ \A t \in Sources : left[t] = <<>>
<1>1. /\ pc = "read" /\ queue = <<>> /\ rest = <<>> /\ \A t \in Sources : left[t] = <<>>
  BY DEF Quiet, Orderly, Alone
<1>2. From(left) = <<>>
  BY <1>1, FromNone
<1>3. Pending = <<>>
  BY <1>1, <1>2, PendingTyped
<1>4. Now = ed /\ Fits(ed)
  BY <1>1 DEF Now, Seen
<1>5. Whole = Begin(ed)
  BY <1>3, <1>4, ReadNothing DEF Whole
<1>6. Whole.e = ed /\ Whole.out = <<>>
  BY <1>4, <1>5, Begins
<1>7. ed.line = <<>> /\ ed.head = 0
  BY <1>6 DEF Orderly, Told
<1>8. Ready(ed)
  BY <1>4, <1>7, KeptReady DEF Orderly
<1> QED
  BY <1>1, <1>4, <1>6, <1>8 DEF Future, Whole

(* From a quiet state, new characters: what they give is told. *)
LEMMA EnterStep ==
  ASSUME WellMeant, TypeOK, Seen, Orderly, NEW s \in Sources, Enter(s), polite
  PROVE  /\ Orderly' /\ Sh!Enter
<1>1. PICK i \in Inputs : Holds(ed, i.far) /\ left' = [left EXCEPT ![s] = i.keys]
  BY DEF Enter
<1>2. Quiet /\ UNCHANGED <<queue, ed, rest, pc, ran, polite>>
  BY DEF Enter
<1>3. /\ Future = <<>> /\ Ready(ed) /\ Now = ed /\ queue = <<>> /\ rest = <<>>
      /\ \A t \in Sources : left[t] = <<>>
  BY <1>2, QuietReady
<1>4. /\ i.back \in Nat /\ Len(i.keys) <= QueueSize /\ i.keys \in Seq(Chars)
      /\ i.back = 0 => i.line \in Meant
      /\ i.back # 0 \/ i.line = ScriptCmd => OnlyLast(i.keys)
  BY InputsWell
<1>5. /\ left'[s] = i.keys /\ \A t \in Sources : left'[t] # <<>> => t = s
  BY <1>1, <1>3 DEF TypeOK
<1>6. From(left') = i.keys
  BY <1>5, FromOne
<1>7. Pending' = i.keys
  <2>1. Pending' = <<>> \o <<>> \o i.keys
    BY <1>2, <1>3, <1>6, PendingTyped
  <2> QED
    BY <1>4, <2>1
<1>8. Now' = ed
  BY <1>2, <1>3 DEF Now
<1> DEFINE m == IF i.back = 0 THEN i.line ELSE ed.history[i.back]
<1>9. Len(ed.history) = Len(ran)
  BY DEF Orderly, Kept
<1>10. /\ Reading(Begin(ed), i.keys).out = <<m>>
       /\ Reading(Begin(ed), i.keys).e.line = <<>> /\ Reading(Begin(ed), i.keys).e.head = 0
       /\ i.back # 0 => i.back \in 1 .. Len(ed.history)
  BY <1>1, <1>3, <1>9, InputGives DEF Gives
<1>11. Whole' = Reading(Begin(ed), i.keys)
  BY <1>7, <1>8 DEF Whole
<1>12. i.back # 0 => i.back \in 1 .. Len(ed.history) /\ i.back \in 1 .. Len(ran)
  BY <1>9, <1>10
<1>13. m \in Meant
  BY <1>3, <1>4, <1>12 DEF Ready
<1>14. m = ScriptCmd => OnlyLast(i.keys)
  BY <1>4
<1>15. m = Sh!Meaning(i)
  BY <1>12 DEF Sh!Meaning, Orderly, Kept
<1> HIDE DEF m
<1>16. Told'
  <2>1. /\ Whole'.out = <<m>> /\ Whole'.e.line = <<>> /\ Whole'.e.head = 0
    BY <1>10, <1>11
  <2>2. \A n \in 1 .. Len(<<m>>) : <<m>>[n] = m
    OBVIOUS
  <2> QED
    BY <1>7, <1>13, <1>14, <2>1, <2>2 DEF Told
<1>17. Room'
  BY <1>4, <1>7 DEF Room
<1>18. Alone'
  BY <1>2, <1>5, <1>3 DEF Alone, Quiet
<1>19. Kept'
  BY <1>2 DEF Kept, Orderly
<1>20. Future' = <<m>>
  BY <1>10, <1>11 DEF Whole, Future
<1>21. Sh!Enter
  <2>1. i.back <= Len(ran)
    <3>1. Len(ran) \in Nat
      BY DEF TypeOK
    <3> QED
      BY <1>4, <1>12, <3>1
  <2> QED
    BY <1>1, <1>2, <1>3, <1>15, <1>20, <2>1 DEF Sh!Enter
<1> QED
  BY <1>16, <1>17, <1>18, <1>19, <1>21 DEF Orderly

(* The end of an empty line, of a line, and of the line that calls a script. *)
LEMMA EndEmptySame ==
  ASSUME WellMeant, TypeOK, Seen, Orderly, TypeOK', EndLine, ed.line = <<>>
  PROVE  Alone' /\ Same /\ Kept' /\ ran' = ran
<1>1. /\ pc = "read" /\ queue # <<>> /\ Head(queue) = "cr" /\ queue' = Tail(queue)
      /\ ran' = ran /\ ed' = Ended(ed) /\ UNCHANGED <<pc, rest, left>>
  BY FileWell DEF EndLine, Ended
<1>2. /\ Pending \in Seq(Chars) /\ Pending # <<>> /\ Head(Pending) = Head(queue)
      /\ Pending' = Tail(Pending) /\ (OnlyLast(Pending) => OnlyLast(Pending'))
      /\ Len(Pending') <= Len(Pending)
  BY <1>1, Leaves
<1>3. Now = ed /\ Now' = ed' /\ Fits(ed)
  BY <1>1 DEF Now, Seen
<1>4. Reading(Begin(ed), Pending) = Reading(Begin(Ended(ed)), Tail(Pending))
  BY <1>1, <1>2, <1>3, ReadOn
<1>5. Whole' = Whole
  BY <1>1, <1>2, <1>3, <1>4 DEF Whole
<1>6. Alone'
  BY <1>1 DEF Alone, Orderly
<1>7. Kept'
  BY <1>1, <1>3, EndedKeeps DEF Orderly, Kept
<1> QED
  BY <1>1, <1>2, <1>5, <1>6, <1>7 DEF Same

LEMMA FirstOf ==
  ASSUME NEW l, NEW w \in Seq(Seq(Chars)), l \in Seq(Chars)
  PROVE  /\ Len(<<l>> \o w) = Len(w) + 1 /\ (<<l>> \o w)[1] = l
         /\ \A n \in 1 .. Len(w) : (<<l>> \o w)[n + 1] = w[n]
         /\ <<l>> \o w # <<>> /\ Head(<<l>> \o w) = l /\ Tail(<<l>> \o w) = w
  OBVIOUS

(* A line that ends, if it fits the history or not, is the first of what   *)
(* was told.                                                               *)
LEMMA EndLineTells ==
  ASSUME TypeOK, Seen, Orderly, TypeOK', EndLine \/ Overrun, ed.line # <<>>
  PROVE  /\ Fits(ed) /\ Fits(Ended(ed)) /\ Tail(Pending) \in Seq(Chars)
         /\ Reading(Begin(Ended(ed)), Tail(Pending)).out \in Seq(Seq(Chars))
         /\ Whole.e = Reading(Begin(Ended(ed)), Tail(Pending)).e
         /\ Whole.out = <<ed.line>> \o Reading(Begin(Ended(ed)), Tail(Pending)).out
         /\ ed.line \in Meant
         /\ ed.line = ScriptCmd => Tail(Pending) = <<>>
         /\ OnlyLast(Pending) => OnlyLast(Tail(Pending))
         /\ Len(Tail(Pending)) <= Len(Pending)
         /\ rest' = rest => Pending' = Tail(Pending)
         /\ Tail(Pending) = Tail(queue) \o From(left)
<1>1. /\ pc = "read" /\ queue # <<>> /\ Head(queue) = "cr" /\ queue' = Tail(queue)
      /\ UNCHANGED left
  BY DEF EndLine, Overrun
<1>2. /\ Pending \in Seq(Chars) /\ Pending # <<>> /\ Head(Pending) = Head(queue)
      /\ rest' = rest => Pending' = Tail(Pending)
      /\ OnlyLast(Pending) => OnlyLast(Tail(Pending))
      /\ Len(Tail(Pending)) <= Len(Pending)
      /\ Tail(Pending) = Tail(queue) \o From(left) /\ Tail(Pending) \in Seq(Chars)
  BY <1>1, Leaves
<1>3. Now = ed /\ Fits(ed) /\ ed.line \in Seq(Chars)
  BY <1>1 DEF Now, Seen, Fits, Editor
<1>4. Fits(Ended(ed))
  BY <1>3, EndedKeeps
<1>5. Reading(Begin(Ended(ed)), Tail(Pending)).out \in Seq(Seq(Chars))
  BY <1>2, <1>4, ReadingSound
<1>6. /\ Whole.e = Reading(Begin(Ended(ed)), Tail(Pending)).e
      /\ Whole.out = <<ed.line>> \o Reading(Begin(Ended(ed)), Tail(Pending)).out
  BY <1>1, <1>2, <1>3, ReadOn DEF Whole
<1>7. Len(Whole.out) >= 1 /\ Whole.out[1] = ed.line /\ Len(Whole.out) \in Nat
  <2> DEFINE w == Reading(Begin(Ended(ed)), Tail(Pending)).out
             l == ed.line
  <2>1. w \in Seq(Seq(Chars)) /\ l \in Seq(Chars)
    BY <1>3, <1>5
  <2> HIDE DEF w, l
  <2>2. Len(<<l>> \o w) = Len(w) + 1 /\ (<<l>> \o w)[1] = l /\ Len(w) \in Nat
    BY <2>1, FirstOf
  <2>3. Len(<<l>> \o w) >= 1 /\ Len(<<l>> \o w) \in Nat
    BY <2>2
  <2>4. Whole.out = <<l>> \o w
    BY <1>6 DEF w, l
  <2> QED
    BY <2>2, <2>3, <2>4 DEF l
<1>8. 1 \in 1 .. Len(Whole.out)
  BY <1>7
<1>9. ed.line \in Meant /\ (ed.line = ScriptCmd => OnlyLast(Pending))
  BY <1>7, <1>8 DEF Orderly, Told
<1>10. ed.line = ScriptCmd => Tail(Pending) = <<>>
  BY <1>1, <1>2, <1>9, TakeFirstOnly
<1> QED
  BY <1>2, <1>3, <1>4, <1>5, <1>6, <1>9, <1>10

(* Its history, and the lines run, are longer by the line. *)
LEMMA EndLineKept ==
  ASSUME TypeOK, Seen, Orderly, EndLine, ed.line # <<>>, ed.line \in Meant
  PROVE  Kept' /\ ran' = Append(ran, ed.line)
<1>1. Fits(ed) /\ ed \in Editor /\ ed.line \in Seq(Chars) /\ ed.history \in Seq(Seq(Chars))
      /\ ran \in Seq(Seq(Chars))
  BY DEF Seen, Fits, Editor, TypeOK
<1>2. ran' = Append(ran, ed.line) /\ (ed' = Submit(ed) \/ ed' = Ended(ed))
  BY DEF EndLine, Ended
<1>3. ed'.history = <<ed.line>> \o ed.history
  BY <1>1, <1>2, EndedKeeps
<1> DEFINE h == ed.history
           r == ran
           l == ed.line
<1>4. /\ h \in Seq(Seq(Chars)) /\ r \in Seq(Seq(Chars)) /\ l \in Seq(Chars) /\ l \in Meant
      /\ Len(h) = Len(r) /\ \A n \in 1 .. Len(r) : h[n] = r[Len(r) + 1 - n]
      /\ \A n \in 1 .. Len(r) : r[n] \in Meant
  BY <1>1 DEF Orderly, Kept
<1>5. ed'.history = <<l>> \o h /\ ran' = Append(r, l)
  BY <1>2, <1>3
<1> HIDE DEF h, r, l
<1>6. /\ Len(<<l>> \o h) = Len(Append(r, l))
      /\ \A n \in 1 .. Len(Append(r, l)) :
           (<<l>> \o h)[n] = Append(r, l)[Len(Append(r, l)) + 1 - n]
  BY <1>4, KeptLonger
<1>7. \A n \in 1 .. Len(Append(r, l)) : Append(r, l)[n] \in Meant
  <2>1. Len(Append(r, l)) = Len(r) + 1 /\ Append(r, l)[Len(r) + 1] = l /\ Len(r) \in Nat
        /\ \A n \in 1 .. Len(r) : Append(r, l)[n] = r[n]
    BY <1>4
  <2> TAKE n \in 1 .. Len(Append(r, l))
  <2>2. CASE n = Len(r) + 1
    BY <1>4, <2>1, <2>2
  <2>3. CASE n # Len(r) + 1
    <3>1. n \in 1 .. Len(r)
      BY <2>1, <2>3
    <3> QED
      BY <1>4, <2>1, <3>1
  <2> QED
    BY <2>2, <2>3
<1>8. Kept'
  BY <1>5, <1>6, <1>7 DEF Kept
<1> QED
  BY <1>2, <1>8

LEMMA RunLine ==
  ASSUME WellMeant, TypeOK, Seen, Orderly, TypeOK', EndLine, polite,
         ed.line # <<>>, ed.line # ScriptCmd
  PROVE  Orderly' /\ Sh!Run
<1> DEFINE w == Reading(Begin(Ended(ed)), Tail(Pending))
           l == ed.line
<1>1. /\ Fits(ed) /\ w.out \in Seq(Seq(Chars))
      /\ Whole.e = w.e /\ Whole.out = <<l>> \o w.out
      /\ OnlyLast(Pending) => OnlyLast(Tail(Pending))
      /\ Len(Tail(Pending)) <= Len(Pending)
      /\ rest' = rest => Pending' = Tail(Pending)
      /\ l \in Meant /\ Tail(Pending) \in Seq(Chars)
  BY EndLineTells
<1>2. /\ ed' = Ended(ed) /\ pc = "read" /\ UNCHANGED <<pc, rest, left, polite>>
  BY DEF EndLine, Ended
<1>3. Now' = Ended(ed)
  BY <1>2 DEF Now
<1>4. Pending' = Tail(Pending)
  BY <1>1, <1>2
<1>5. Whole' = w
  BY <1>3, <1>4 DEF Whole
<1>6. Kept' /\ ran' = Append(ran, l)
  BY <1>1, EndLineKept
<1>7. Alone'
  BY <1>2 DEF Alone, Orderly
<1>8. Room'
  <2>1. Len(Pending') \in Nat /\ Len(Pending) \in Nat
    BY <1>1, <1>4, PendingTyped
  <2> QED
    BY <1>1, <1>4, <2>1, Sizes DEF Orderly, Room
<1>9. l \in Seq(Chars)
  BY <1>1 DEF Fits, Editor
<1> HIDE DEF w, l
<1>10. /\ Len(<<l>> \o w.out) = Len(w.out) + 1 /\ (<<l>> \o w.out)[1] = l
       /\ \A n \in 1 .. Len(w.out) : (<<l>> \o w.out)[n + 1] = w.out[n]
       /\ <<l>> \o w.out # <<>> /\ Head(<<l>> \o w.out) = l /\ Tail(<<l>> \o w.out) = w.out
       /\ Len(w.out) \in Nat
  <2> DEFINE v == w.out
  <2>1. v \in Seq(Seq(Chars))
    BY <1>1
  <2> HIDE DEF v
  <2>2. /\ Len(<<l>> \o v) = Len(v) + 1 /\ (<<l>> \o v)[1] = l
        /\ \A n \in 1 .. Len(v) : (<<l>> \o v)[n + 1] = v[n]
        /\ <<l>> \o v # <<>> /\ Head(<<l>> \o v) = l /\ Tail(<<l>> \o v) = v
        /\ Len(v) \in Nat
    BY <1>9, <2>1, FirstOf
  <2> QED
    BY <2>2 DEF v
<1>11. Told'
  <2>1. ASSUME NEW n \in 1 .. Len(w.out)
        PROVE  w.out[n] \in Meant /\ (w.out[n] = ScriptCmd => OnlyLast(Pending'))
    <3>1. n + 1 \in 1 .. Len(Whole.out) /\ Whole.out[n + 1] = w.out[n]
      BY <1>1, <1>10
    <3> QED
      BY <1>1, <1>4, <3>1 DEF Orderly, Told
  <2>2. w.e.line = <<>> /\ w.e.head = 0
    BY <1>1 DEF Orderly, Told
  <2> QED
    BY <1>5, <2>1, <2>2 DEF Told
<1>12. Future = <<l>> \o w.out /\ Future' = w.out
  BY <1>1, <1>5 DEF Whole, Future
<1>13. Sh!Run
  BY <1>2, <1>6, <1>10, <1>12 DEF Sh!Run, l
<1> QED
  BY <1>6, <1>7, <1>8, <1>11, <1>13 DEF Orderly

LEMMA RunScript ==
  ASSUME WellMeant, TypeOK, Seen, Orderly, TypeOK', EndLine, polite, ed.line = ScriptCmd
  PROVE  Orderly' /\ Sh!Run
<1> DEFINE l == ed.line
<1>1. l # <<>> /\ File \in Seq(Chars) /\ Len(File) <= QueueSize /\ FileLines \in Seq(Seq(Chars))
  BY FileWell
<1>2. /\ Fits(ed) /\ Fits(Ended(ed)) /\ l \in Meant /\ Tail(Pending) = <<>>
      /\ Whole.e = Reading(Begin(Ended(ed)), <<>>).e
      /\ Whole.out = <<l>> \o Reading(Begin(Ended(ed)), <<>>).out
      /\ Tail(Pending) = Tail(queue) \o From(left)
  BY <1>1, EndLineTells
<1>3. Whole.out = <<l>>
  <2>1. Reading(Begin(Ended(ed)), <<>>).out = <<>>
    BY ReadNothing DEF Begin
  <2>2. l \in Seq(Chars)
    BY <1>2 DEF Fits, Editor
  <2> HIDE DEF l
  <2>3. <<l>> \o <<>> = <<l>>
    BY <2>2
  <2> QED
    BY <1>2, <2>1, <2>3
<1>4. /\ queue # <<>> /\ queue' = Tail(queue) /\ rest' = File /\ pc = "read" /\ pc' = "script"
      /\ ed' = Submit(ed) /\ UNCHANGED <<left, polite>>
  BY DEF EndLine
<1>5. Tail(queue) = <<>> /\ From(left) = <<>>
  <2> DEFINE u == Tail(queue)
             v == From(left)
  <2>1. u \in Seq(Chars) /\ v \in Seq(Chars)
    BY <1>4, PendingTyped, HeadTailProperties
  <2>2. u \o v = <<>>
    BY <1>2
  <2> HIDE DEF u, v
  <2>3. u = <<>> /\ v = <<>>
    BY <2>1, <2>2
  <2> QED
    BY <2>3 DEF u, v
<1>6. Pending' = File
  <2>1. From(left') = <<>>
    BY <1>4, <1>5
  <2>2. Pending' = <<>> \o File \o <<>>
    BY <1>4, <1>5, <2>1, PendingTyped
  <2> QED
    BY <1>1, <2>2
<1>7. Now' = Ended(ed)
  BY <1>4 DEF Now, Ended
<1>8. Kept' /\ ran' = Append(ran, l)
  BY <1>1, <1>2, EndLineKept
<1>9. Ready(Ended(ed))
  <2>1. ed'.history = Ended(ed).history
    BY <1>2, <1>4, EndedKeeps
  <2>2. Ended(ed).line = <<>> /\ Ended(ed).head = 0
    BY <1>1, <1>2, EndedKeeps
  <2>3. ASSUME NEW n \in 1 .. Len(Ended(ed).history) PROVE Ended(ed).history[n] \in Meant
    <3>1. Len(ran') \in Nat /\ n \in 1 .. Len(ran') /\ Len(ran') + 1 - n \in 1 .. Len(ran')
      BY <1>8, <2>1, <2>3 DEF Kept, TypeOK
    <3> QED
      BY <1>8, <2>1, <3>1 DEF Kept
  <2> QED
    BY <1>2, <2>2, <2>3 DEF Ready
<1>10. /\ Whole'.out = FileLines /\ Whole'.e.line = <<>> /\ Whole'.e.head = 0
  BY <1>6, <1>7, <1>9, FileGives DEF Whole, Gives
<1>11. Told'
  BY <1>10, FileWell DEF Told
<1>12. Room'
  BY <1>1, <1>6 DEF Room
<1>13. Alone'
  <2>1. \A t \in Sources : left[t] = <<>>
    BY <1>5, FromNone
  <2> QED
    BY <1>4, <2>1 DEF Alone
<1>14. Future = <<l>> /\ Future' = FileLines
  BY <1>3, <1>10 DEF Whole, Future
<1>15. <<l>> # <<>> /\ Head(<<l>>) = l /\ Tail(<<l>>) \o FileLines = FileLines
  BY <1>1
<1>16. Sh!Run
  <2>1. polite /\ polite'
    BY <1>4
  <2>2. l = ScriptCmd
    OBVIOUS
  <2> HIDE DEF l
  <2> QED
    BY <1>8, <1>14, <1>15, <2>1, <2>2 DEF Sh!Run
<1> QED
  BY <1>8, <1>11, <1>12, <1>13, <1>16 DEF Orderly

(* A line that was meant does not overrun the history. *)
LEMMA NoOverrun ==
  ASSUME WellMeant, TypeOK, Seen, Orderly, TypeOK', Overrun
  PROVE  FALSE
<1>1. Len(ed.line) >= HistorySize /\ Len(<<>>) = 0
  BY DEF Overrun
<1>2. ed.line # <<>>
  BY <1>1, Sizes
<1>3. ed.line \in Meant
  BY <1>2, EndLineTells
<1>4. ed.line \in Seq(Chars) /\ Len(ed.line) < HistorySize
  BY <1>3 DEF WellMeant
<1>5. Len(ed.line) \in Nat
  BY <1>4
<1> QED
  BY <1>1, <1>4, <1>5, Sizes

-----------------------------------------------------------------------------
LEMMA StartsOrderly == WellMeant /\ Init => Orderly /\ Future = <<>>
<1> SUFFICES ASSUME WellMeant, Init PROVE Orderly /\ Future = <<>>
  OBVIOUS
<1>1. TypeOK /\ Seen
  BY Starts
<1>2. /\ ed = Fresh /\ pc = "read" /\ queue = <<>> /\ rest = <<>> /\ ran = <<>>
      /\ \A s \in Sources : left[s] = <<>>
  BY DEF Init
<1>3. Pending = <<>>
  BY <1>1, <1>2, FromNone, PendingTyped
<1>4. Now = ed
  BY <1>2 DEF Now
<1>5. Whole = Begin(ed)
  BY <1>3, <1>4, ReadNothing DEF Whole
<1>6. Whole.e = ed /\ Whole.out = <<>>
  BY <1>1, <1>5, Begins DEF Seen
<1>7. Told
  <2>1. Len(Whole.out) = 0
    BY <1>6
  <2>2. \A n \in 1 .. Len(Whole.out) : FALSE
    BY <2>1
  <2> QED
    BY <1>2, <1>6, <2>2 DEF Told, Fresh
<1>8. Room
  BY <1>3, Sizes DEF Room
<1>9. Alone
  BY <1>2 DEF Alone
<1>10. Kept
  BY <1>2 DEF Kept, Fresh
<1> QED
  BY <1>6, <1>7, <1>8, <1>9, <1>10 DEF Orderly, Whole, Future

LEMMA OrderlyStep ==
  ASSUME WellMeant, TypeOK, Seen, TypeOK', polite, Orderly, [Next]_vars
  PROVE  Orderly' /\ (Sh!Next \/ (Future' = Future /\ ran' = ran)) /\ polite'
<1>1. ASSUME Alone' /\ Same /\ Kept' PROVE Orderly' /\ Future' = Future
  BY <1>1, SameTold DEF Orderly
<1>2. CASE TakeKey
  BY <1>1, <1>2, TakeKeySame DEF TakeKey
<1>3. CASE EndLine
  <2>1. CASE ed.line = <<>>
    BY <1>1, <1>3, <2>1, EndEmptySame DEF EndLine
  <2>2. CASE ed.line # <<>> /\ ed.line # ScriptCmd
    BY <1>3, <2>2, RunLine DEF EndLine, Sh!Next
  <2>3. CASE ed.line = ScriptCmd
    BY <1>3, <2>3, RunScript DEF EndLine, Sh!Next
  <2> QED
    BY <2>1, <2>2, <2>3
<1>4. CASE ReadFile
  BY <1>1, <1>4, ReadFileSame DEF ReadFile
<1>5. CASE EndScript
  BY <1>1, <1>5, EndScriptSame DEF EndScript
<1>6. ASSUME NEW s \in Sources, Enter(s) PROVE Orderly' /\ Sh!Next /\ polite'
  BY <1>6, EnterStep DEF Enter, Sh!Next
<1>7. ASSUME NEW s \in Sources, Receive(s)
      PROVE Orderly' /\ Future' = Future /\ ran' = ran /\ polite'
  BY <1>1, <1>7, ReceiveSame DEF Receive
<1>8. CASE UNCHANGED vars
  <2>1. UNCHANGED <<left, queue, ed, rest, pc, ran, polite>>
    BY <1>8 DEF vars
  <2>2. Pending' = Pending /\ Now' = Now
    BY <2>1 DEF Pending, Coming, Now
  <2>3. Whole' = Whole /\ Future' = Future
    BY <2>2 DEF Whole, Future
  <2>4. Alone' /\ Kept' /\ Room' /\ Told'
    BY <2>1, <2>2, <2>3 DEF Orderly, Alone, Kept, Room, Told
  <2> QED
    BY <2>1, <2>3, <2>4 DEF Orderly
<1>9. ~Overrun /\ ~ReadFails
  BY NoOverrun DEF ReadFails
<1> QED
  BY <1>2, <1>3, <1>4, <1>5, <1>6, <1>7, <1>8, <1>9 DEF Next, Task

LEMMA PoliteStep ==
  ASSUME WellMeant, TypeOK, Seen, TypeOK', polite => Orderly, [Next]_vars
  PROVE  /\ (polite => Orderly)'
         /\ [Sh!Next]_<<IF polite THEN Future ELSE <<>>, IF polite THEN ran ELSE <<>>>>
<1>1. CASE polite
  BY <1>1, OrderlyStep
<1>2. CASE ~polite
  <2>1. polite' = polite
    BY DEF Next, Task, TakeKey, EndLine, Overrun, ReadFile, ReadFails, EndScript,
       Enter, Receive, vars
  <2> QED
    BY <1>2, <2>1
<1> QED
  BY <1>1, <1>2

(* One operator who waits for his commands, whose lines fit the history    *)
(* and who recalls those that are whole in it, and whose scripts are read  *)
(* without error and end with an end of line, has a Shell                  *)
(* (cli.c:341-572, rflan_cli.c:788-826): for any inputs, scripts and       *)
(* buffers that keep to WellMeant.                                         *)
THEOREM ShellImplemented ==
  ASSUME WellMeant
  PROVE  Spec => ImplementsShell
<1>1. Init => Sh!Init
  BY StartsOrderly DEF Sh!Init, Init
<1>2. Init => TypeOK /\ Seen /\ (polite => Orderly)
  BY Starts, StartsOrderly
<1>3. TypeOK /\ Seen /\ TypeOK' /\ (polite => Orderly) /\ [Next]_vars
        => /\ (polite => Orderly)'
           /\ [Sh!Next]_<<IF polite THEN Future ELSE <<>>, IF polite THEN ran ELSE <<>>>>
  BY PoliteStep
<1>4. Spec => [](TypeOK /\ Seen)
  BY Starts, SeenStep, PTL DEF Spec
<1> QED
  BY <1>1, <1>2, <1>3, <1>4, PTL DEF Spec, ImplementsShell, Sh!Spec

(* And so nothing is run that nobody entered (cli.c:647-656,               *)
(* rflan_cli.c:788-826): it takes a script whose last line is not ended or *)
(* not read, a line that HistoryBuf has cut, or one that overruns it.      *)
THEOREM RunsWhatWasSent ==
  ASSUME WellMeant
  PROVE  Spec => []RunsOnlyWhatWasSent
<1>1. Init => TypeOK /\ Seen /\ (polite => Orderly)
  BY Starts, StartsOrderly
<1>2. TypeOK /\ Seen /\ TypeOK' /\ (polite => Orderly) /\ [Next]_vars => (polite => Orderly)'
  BY PoliteStep
<1>3. Spec => [](TypeOK /\ Seen)
  BY Starts, SeenStep, PTL DEF Spec
<1>4. TypeOK /\ (polite => Orderly) => RunsOnlyWhatWasSent
  BY DEF TypeOK, Orderly, Kept, RunsOnlyWhatWasSent
<1> QED
  BY <1>1, <1>2, <1>3, <1>4, PTL DEF Spec
=============================================================================
