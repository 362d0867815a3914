-------------------------------- MODULE Shell --------------------------------
(***************************************************************************)
(* What the command line promises its operator: the line he enters is run, *)
(* as he meant it, before he enters the next; and a script's lines are run *)
(* after the command that names it, in the file's order, each once.        *)
(***************************************************************************)
EXTENDS Naturals, Sequences

CONSTANTS
  Inputs,      (* what an operator may enter: a line, or the line he ran   *)
               (* so many lines back                                       *)
  ScriptCmd,   (* the line "ExecuteScript file"                            *)
  FileLines    (* the lines of that file that are not empty                *)

VARIABLES
  todo,        (* lines entered and not run yet                            *)
  ran          (* lines run                                                *)

Init == todo = <<>> /\ ran = <<>>

(* An input is [line |-> l, back |-> 0], or [line |-> <<>>, back |-> n]. *)
Meaning(input) ==
  IF input.back = 0 THEN input.line ELSE ran[Len(ran) + 1 - input.back]

Enter ==
  /\ todo = <<>>
  /\ \E input \in Inputs :
       /\ input.back <= Len(ran)
       /\ todo' = <<Meaning(input)>>
  /\ UNCHANGED ran

Run ==
  /\ todo # <<>>
  /\ ran' = Append(ran, Head(todo))
  /\ todo' = IF Head(todo) = ScriptCmd THEN Tail(todo) \o FileLines ELSE Tail(todo)

Next == Enter \/ Run

Spec == Init /\ [][Next]_<<todo, ran>>
=============================================================================
