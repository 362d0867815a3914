--------------------------------- MODULE Cli ---------------------------------
(***************************************************************************)
(* The command line: characters from the serial port, from the Ethernet    *)
(* socket and from scripts go through one queue to one task, which edits   *)
(* one line, completes it, recalls earlier ones and runs it.               *)
(*                                                                         *)
(* The serial interrupt and the socket's task put characters into the      *)
(* queue at any time.  ExecuteScript runs on the task that empties the     *)
(* queue: it only fills it, and its lines run once it has returned.        *)
(***************************************************************************)
EXTENDS Integers, Sequences, SequencesExt

CONSTANTS
  Chars,       (* what a terminal or a file sends                          *)
  Sources,     (* the interfaces in use                                    *)
  Inputs,      (* what may be entered on one: see Shell, and the           *)
               (* characters by which it is entered, keys                  *)
  Commands,    (* CmdList                                                  *)
  ScriptCmd,   (* the command line "ExecuteScript file"                    *)
  File,        (* the characters of that file                              *)
  FileLines,   (* its lines, for Shell                                     *)
  QueueSize,   (* CLI_RX_QUEUE_SIZE: 32768                                 *)
  LineSize,    (* CLI_CMD_BUF_SIZE: 1024                                   *)
  HistorySize, (* CLI_HISTORY_BUF_SIZE: 256                                *)
  MaxInputs,   (* bound: the lines entered in a session, by one operator   *)
  BusyInputs,  (* those entered by several operators at once               *)
  MaxBusy      (* bound: and how many                                      *)

ASSUME CliAssumption ==
  /\ QueueSize \in Nat \ {0} /\ LineSize \in Nat \ {0} /\ HistorySize \in Nat \ {0}
  /\ MaxInputs \in Nat /\ MaxBusy \in Nat
  /\ File \in Seq(Chars)
  /\ \A i \in Inputs \cup BusyInputs : i.keys \in Seq(Chars)
  /\ \A c \in Commands : c \in Seq(Chars) /\ Len(c) < LineSize

VARIABLES
  left,        (* per source, characters entered and not yet received      *)
  queue,       (* RxCharQueue                                              *)
  ed,          (* the line editor: see Editor                              *)
  rest,        (* what ExecuteScript has yet to read of the file           *)
  pc,          (* the task: "read", "script" in ExecuteScript, or          *)
               (* "overrun" once it has written past the history           *)
  ran,         (* lines given to Cli_ProcessCommand (history)              *)
  inputs,      (* lines entered so far                                     *)
  polite       (* whether one operator uses one interface at a time, waits *)
               (* until his last line has run, recalls what the history    *)
               (* holds whole, and has a card that is read without error   *)

vars == <<left, queue, ed, rest, pc, ran, inputs, polite>>

Fresh == [line |-> <<>>, screen |-> <<>>, echo |-> "plain",
          history |-> <<>>, head |-> 0, at |-> 0]

Init ==
  /\ left = [s \in Sources |-> <<>>]
  /\ queue = <<>> /\ ed = Fresh
  /\ rest = <<>> /\ pc = "read" /\ ran = <<>> /\ inputs = 0
  /\ polite \in BOOLEAN

-----------------------------------------------------------------------------
(* The editor: line is CmdBuf, screen what the echo has made of the        *)
(* terminal's line, history the lines run, latest first, head the entry    *)
(* that HistoryHead points to, 0 for none, and at where that begins in     *)
(* HistoryBuf.  HistoryBuf is the first HistorySize characters of the      *)
(* history, a zero after each line, and zeros after the last one.          *)
(*                                                                         *)
(* The line is printed as a format: a % shows nothing, or what it and the  *)
(* rest of the line make of arguments nobody passed.  Then echo is         *)
(* "formatted" (history), and the screen says nothing, until the line has  *)
(* ended or is drawn whole.                                                *)

(* Mutated definitions, each placed before the one it replaces, are named  *)
(* <definition>_<what is wrong>; no behaviour of this module uses them.    *)
Save_EchoFirst(e, c) ==
  IF Len(e.line) < LineSize - 1
  THEN [e EXCEPT !.line = Append(@, c), !.screen = Append(@, c)]
  ELSE [e EXCEPT !.screen = Append(@, c)]

Save(e, c) ==
  IF Len(e.line) >= LineSize - 1 THEN e
  ELSE IF c = "%" THEN [e EXCEPT !.line = Append(@, c), !.echo = "formatted"]
  ELSE [e EXCEPT !.line = Append(@, c), !.screen = Append(@, c)]

Erase(e) ==
  IF e.line = <<>> THEN e
  ELSE [e EXCEPT !.line = Front(@), !.screen = IF @ = <<>> THEN @ ELSE Front(@)]

(* The line is set to a text and drawn anew.                               *)
Redraw(e, text) ==
  IF \A n \in 1 .. Len(text) : text[n] # "%"
  THEN [e EXCEPT !.line = text, !.screen = text, !.echo = "plain"]
  ELSE [e EXCEPT !.line = text, !.screen = <<>>, !.echo = "formatted"]

Matches(line) == { c \in Commands : IsStrictPrefix(line, c) }

(* The longest prefix that all matches share.  The list of matches that a  *)
(* second tab should print never is: a tab is not kept in the line.        *)
Complete(e) ==
  IF e.line = <<>> \/ Matches(e.line) = {} THEN e
  ELSE Redraw(e, LongestCommonPrefix(Matches(e.line)))

Entry(e, n) == IF n <= Len(e.history) THEN e.history[n] ELSE <<>>

(* HistoryHead moves one line back if the zero after its own is still in   *)
(* HistoryBuf, or one line forth.                                          *)
Older(e) ==
  LET zero == e.at + Len(Entry(e, e.head))
  IN  IF zero <= HistorySize THEN [e EXCEPT !.head = @ + 1, !.at = zero + 1] ELSE e

Newer(e) ==
  IF e.head > 1
  THEN [e EXCEPT !.head = @ - 1, !.at = @ - 1 - Len(Entry(e, e.head - 1))]
  ELSE e

(* What HistoryBuf has of the line there.  The byte after HistoryBuf is    *)
(* the allocator's, and zero.                                              *)
Remembered(e) ==
  LET line == Entry(e, e.head)
      room == HistorySize + 1 - e.at
  IN  IF Len(line) <= room THEN line ELSE SubSeq(line, 1, room)

(* The first arrow, whichever it is, recalls the latest line; then up goes *)
(* back and down forth, and any other key does nothing.                    *)
Recall(e, c) ==
  LET f == CASE e.head = 0 -> [e EXCEPT !.head = 1, !.at = 1]
             [] e.head > 0 /\ c = "A" -> Older(e)
             [] e.head > 0 /\ c # "A" -> Newer(e)
  IN  IF e.head > 0 /\ c \notin {"A", "B"} THEN e ELSE Redraw(f, Remembered(f))

Escaped(line) == IsSuffix(<<"esc", "[">>, line)

Key(e, c) ==
  CASE c = "tab" -> Complete(e)
    [] c = "bs"  -> Erase(e)
    [] c \notin {"tab", "bs"} /\ Escaped(e.line)  -> Recall(e, c)
    [] c \notin {"tab", "bs"} /\ ~Escaped(e.line) -> Save(e, c)

(* The end of a line: what HistoryBuf holds moves back, and the line comes *)
(* first.                                                                  *)
Submit(e) ==
  IF e.line = <<>> THEN [e EXCEPT !.screen = <<>>, !.echo = "plain"]
  ELSE [e EXCEPT !.screen = <<>>, !.echo = "plain",
                 !.history = <<e.line>> \o @, !.head = 0, !.at = 0]

-----------------------------------------------------------------------------
(* The sources.                                                            *)

Quiet == pc = "read" /\ queue = <<>> /\ \A s \in Sources : left[s] = <<>>

(* HistoryBuf holds the last lines whole, each with its zero: they begin   *)
(* at pos.                                                                 *)
Laid(e, pos) ==
  /\ pos[1] = 1
  /\ \A n \in DOMAIN pos : n + 1 \in DOMAIN pos => pos[n + 1] = pos[n] + Len(Entry(e, n)) + 1

Holds(e, lines) ==
  /\ lines <= Len(e.history)
  /\ \E pos \in [1 .. lines + 1 -> 1 .. HistorySize + 1] : Laid(e, pos)

Enter(s) ==
  /\ left[s] = <<>>
  /\ IF polite THEN Quiet /\ inputs < MaxInputs ELSE inputs < MaxBusy
  /\ \E i \in IF polite THEN Inputs ELSE BusyInputs :
       /\ polite => Holds(ed, i.far)
       /\ left' = [left EXCEPT ![s] = i.keys]
  /\ inputs' = inputs + 1
  /\ UNCHANGED <<queue, ed, rest, pc, ran, polite>>

(* Cli_ProcessRxChar: a character that finds the queue full is lost. *)
Enqueue_NoLimit(c) == queue' = Append(queue, c)

Enqueue(c) == queue' = IF Len(queue) < QueueSize THEN Append(queue, c) ELSE queue

Receive(s) ==
  /\ left[s] # <<>>
  /\ Enqueue(Head(left[s]))
  /\ left' = [left EXCEPT ![s] = Tail(@)]
  /\ UNCHANGED <<ed, rest, pc, ran, inputs, polite>>

-----------------------------------------------------------------------------
(* The task.                                                               *)

TakeKey ==
  /\ pc = "read" /\ queue # <<>> /\ Head(queue) # "cr"
  /\ queue' = Tail(queue)
  /\ ed' = Key(ed, Head(queue))
  /\ UNCHANGED <<left, rest, pc, ran, inputs, polite>>

EndLine_KeepsLine ==
  /\ pc = "read" /\ queue # <<>> /\ Head(queue) = "cr" /\ Len(ed.line) < HistorySize
  /\ queue' = Tail(queue)
  /\ ran' = IF ed.line = <<>> THEN ran ELSE Append(ran, ed.line)
  /\ ed' = Submit(ed)
  /\ IF ed.line = ScriptCmd
     THEN pc' = "script" /\ rest' = File
     ELSE UNCHANGED <<pc, rest>>
  /\ UNCHANGED <<left, inputs, polite>>

(* The line is cleared when its command has returned. *)
EndLine ==
  /\ pc = "read" /\ queue # <<>> /\ Head(queue) = "cr" /\ Len(ed.line) < HistorySize
  /\ queue' = Tail(queue)
  /\ ran' = IF ed.line = <<>> THEN ran ELSE Append(ran, ed.line)
  /\ IF ed.line = ScriptCmd
     THEN pc' = "script" /\ rest' = File /\ ed' = Submit(ed)
     ELSE ed' = [Submit(ed) EXCEPT !.line = <<>>] /\ UNCHANGED <<pc, rest>>
  /\ UNCHANGED <<left, inputs, polite>>

(* A line that does not fit HistoryBuf is copied past its end, over what   *)
(* the allocator put there.  What comes after is undefined, and nothing is *)
(* said of it.                                                             *)
Overrun ==
  /\ pc = "read" /\ queue # <<>> /\ Head(queue) = "cr" /\ Len(ed.line) >= HistorySize
  /\ queue' = Tail(queue)
  /\ pc' = "overrun"
  /\ UNCHANGED <<left, ed, rest, ran, inputs, polite>>

ReadFile_NoEof ==
  /\ pc = "script" /\ rest # <<>>
  /\ Enqueue(Head(rest))
  /\ rest' = IF Len(rest) = 1 THEN rest ELSE Tail(rest)
  /\ UNCHANGED <<left, ed, pc, ran, inputs, polite>>

(* ExecuteScript, a character at a time.                                   *)
ReadFile ==
  /\ pc = "script" /\ rest # <<>>
  /\ Enqueue(Head(rest))
  /\ rest' = Tail(rest)
  /\ UNCHANGED <<left, ed, pc, ran, inputs, polite>>

(* The file does not open, or a read fails: what has been read of it will  *)
(* run, and the line that it ends in waits in the queue for its end.       *)
ReadFails ==
  /\ pc = "script" /\ rest # <<>> /\ ~polite
  /\ rest' = <<>>
  /\ UNCHANGED <<left, queue, ed, pc, ran, inputs, polite>>

EndScript ==
  /\ pc = "script" /\ rest = <<>>
  /\ pc' = "read"
  /\ ed' = [ed EXCEPT !.line = <<>>]
  /\ UNCHANGED <<left, queue, rest, ran, inputs, polite>>

-----------------------------------------------------------------------------
Task == TakeKey \/ EndLine \/ Overrun \/ ReadFile \/ ReadFails \/ EndScript

Next == Task \/ \E s \in Sources : Enter(s) \/ Receive(s)

(* Characters arrive, and the task has nothing above it that does not end. *)
Spec == Init /\ [][Next]_vars /\ WF_vars(Task) /\ \A s \in Sources : WF_vars(Receive(s))

-----------------------------------------------------------------------------
Editor == [line : Seq(Chars), screen : Seq(Chars), echo : {"plain", "formatted"},
           history : Seq(Seq(Chars)), head : Nat, at : Int]

(* Types; the queue and the line stay within their buffers (cli.c:552,651),*)
(* and HistoryHead within its own, or just behind it (cli.c:475-536).      *)
TypeOK ==
  /\ left \in [Sources -> Seq(Chars)]
  /\ queue \in Seq(Chars) /\ Len(queue) <= QueueSize
  /\ ed \in Editor /\ Len(ed.line) < LineSize
  /\ ed.head > 0 => ed.at \in 1 .. HistorySize + 1
  /\ rest \in Seq(Chars) /\ pc \in {"read", "script", "overrun"}
  /\ ran \in Seq(Seq(Chars)) /\ inputs \in Nat
  /\ inputs <= IF polite THEN MaxInputs ELSE MaxBusy
  /\ polite \in BOOLEAN

(* What the editor has echoed of the line is what it holds and will run,   *)
(* whatever is typed, erased, completed or recalled, by several sources at *)
(* once, also when the line is full and when the history has cut what is   *)
(* recalled; unless a % has come into the line since it was begun or drawn *)
(* whole (cli.c:350-564).                                                  *)
SeenIsHeld == pc = "read" /\ ed.echo = "plain" => ed.screen = ed.line

(* The lines that an operator or a file meant. *)
Meant == { i.line : i \in { j \in Inputs : j.back = 0 } } \cup ToSet(FileLines)

(* Nothing is run that nobody entered: a line run is a whole line of one   *)
(* source, and a script's last line is a line (cli.c:647-656,              *)
(* rflan_cli.c:788-826, src/rflan_dpd/README.md:85-87).                    *)
RunsOnlyWhatWasSent == polite => \A n \in DOMAIN ran : ran[n] \in Meant

(* What the editor makes of a character: e is the editor, out the lines it *)
(* has handed on.                                                          *)
Read(f, c) ==
  IF c # "cr" THEN [f EXCEPT !.e = Key(@, c)]
  ELSE [e   |-> [Submit(f.e) EXCEPT !.line = <<>>],
        out |-> IF f.e.line = <<>> THEN f.out ELSE Append(f.out, f.e.line)]

Reading(f, chars) ==
  LET h[n \in 0 .. Len(chars)] == IF n = 0 THEN f ELSE Read(h[n - 1], chars[n])
  IN  h[Len(chars)]

(* The characters on their way, if they are from one source, and the lines *)
(* that the editor will read in them.                                      *)
Coming ==
  IF \E s \in Sources : left[s] # <<>> THEN left[CHOOSE s \in Sources : left[s] # <<>>]
  ELSE <<>>
Pending == queue \o rest \o Coming
Begin(e) == [e |-> e, out |-> <<>>]
Now     == IF pc = "script" THEN [ed EXCEPT !.line = <<>>] ELSE ed
Future  == Reading(Begin(Now), Pending).out

(* What the operator and the author of a script keep to.  A line is not    *)
(* empty, fits the history, and leaves room for the two keys that begin a  *)
(* recall.  The keys for it, read by a fresh editor, give that line and    *)
(* nothing else, and so does the file with its lines, the last one ended.  *)
(* To recall a line is to press the arrows that lead to it, by way of      *)
(* lines no further back than far, and enter.  After a script's name       *)
(* nothing is typed before the script has run, and it calls no other.      *)
Plain(chars)    == \A n \in 1 .. Len(chars) : chars[n] # "esc"
OnlyLast(chars) == \A n \in 1 .. Len(chars) - 1 : chars[n] # "cr"

Spells(chars, lines) ==
  /\ Plain(chars)
  /\ Reading(Begin(Fresh), chars).out = lines
  /\ Reading(Begin(Fresh), chars).e.line = <<>>

Reaches(chars, arrows, back, far) ==
  \E at \in [0 .. arrows -> 0 .. far] :
    /\ at[0] = 0 /\ at[arrows] = back
    /\ \A n \in 1 .. arrows :
         at[n] = IF at[n - 1] = 0 THEN 1
                 ELSE IF chars[3 * n] = "A" THEN at[n - 1] + 1
                 ELSE IF at[n - 1] > 1 THEN at[n - 1] - 1 ELSE at[n - 1]

ArrowKeys(chars, back, far) ==
  \E arrows \in 1 .. Len(chars) :
    /\ Len(chars) = 3 * arrows + 1 /\ chars[3 * arrows + 1] = "cr"
    /\ \A n \in 1 .. arrows : /\ chars[3 * n - 2] = "esc" /\ chars[3 * n - 1] = "["
                              /\ chars[3 * n] \in {"A", "B"}
    /\ Reaches(chars, arrows, back, far)

WellMeant ==
  /\ ScriptCmd \notin ToSet(FileLines) /\ ScriptCmd # <<>>
  /\ Len(File) <= QueueSize /\ Spells(File, FileLines)
  /\ \A c \in Commands : Plain(c)
  /\ \A l \in Meant : /\ l \in Seq(Chars) /\ l # <<>> /\ Plain(l)
                       /\ Len(l) + 2 < LineSize /\ Len(l) < HistorySize
  /\ \A i \in Inputs :
       /\ i.back \in Nat /\ i.far \in Nat /\ Len(i.keys) <= QueueSize
       /\ i.line = ScriptCmd => OnlyLast(i.keys)
       /\ IF i.back = 0 THEN Spells(i.keys, <<i.line>>) ELSE ArrowKeys(i.keys, i.back, i.far)

Sh == INSTANCE Shell WITH
  todo <- IF polite THEN Future ELSE <<>>, ran <- IF polite THEN ran ELSE <<>>

(* One operator who waits for his commands to run, whose lines fit the     *)
(* history, and whose scripts are read without error and end with an end   *)
(* of line, has a Shell: what he enters, by whatever keys, and every line  *)
(* of his scripts is run once, in order, before he enters more             *)
(* (cli.c:341-572, rflan_cli.c:788-826).                                   *)
ImplementsShell == Sh!Spec

(* Whatever was entered that does not overrun the history, the task comes  *)
(* back to wait for a character with the queue empty, though a script that *)
(* is longer than the queue fills it.  This is of scripts that call no     *)
(* script (cli.c:348, rflan_cli.c:806-813).                                *)
Settles == []<>(Quiet \/ pc = "overrun")
=============================================================================
