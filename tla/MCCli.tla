-------------------------------- MODULE MCCli --------------------------------
(* Model-checking instances of Cli.  The commands are "ab" and "bab", which *)
(* executes a script, and "baa".  Each line may be entered by the keys that *)
(* spell it, with a correction, by completion, or by recalling it.          *)
EXTENDS Cli

MCChars     == {"a", "b", "/", "%", "cr", "bs", "tab", "esc", "[", "A", "B"}
MCLong      == <<"/", "a", "/", "a", "/">>
MCCommands  == { <<"a", "b">>, <<"b", "a", "b">>, <<"b", "a", "a">>, MCLong }
MCScriptCmd == <<"b", "a", "b">>

Typed(l, keys)     == [line |-> l, back |-> 0, far |-> 0, keys |-> keys]
Back(n, far, keys) == [line |-> <<>>, back |-> n, far |-> far, keys |-> keys]

Up   == <<"esc", "[", "A">>
Down == <<"esc", "[", "B">>

MCInputs ==
  { Typed(<<"a">>, <<"a", "b", "bs", "cr">>),
    Typed(<<"b", "a", "a">>, <<"b", "tab", "a", "cr", "cr">>),
    Typed(<<"b", "a", "b">>, <<"b", "tab", "b", "cr">>),
    Back(1, 1, Up \o <<"cr">>),
    Back(1, 2, Up \o Up \o Down \o <<"cr">>),
    Back(2, 2, Up \o Up \o <<"cr">>) }

(* A script of a comment and a command, with and without the last end of   *)
(* line.                                                                   *)
MCFileLines  == << <<"a", "b">>, <<"/", "/">> >>
MCFile       == <<"a", "b", "cr", "cr", "/", "/", "cr">>
MCFileCut    == <<"a", "b", "cr", "cr", "/", "/">>

(* What several operators at once enter is of five characters at most, a   *)
(* line with a %, a line that fits neither its buffer nor the history, or  *)
(* the arrows to a line that the history has cut.                          *)
MCBusyInputs ==
  { i \in MCInputs : Len(i.keys) <= 5 }
    \cup { Typed(<<"%", "b">>, <<"%", "b", "cr">>),
           Typed(MCLong, <<"/", "tab", "b", "cr">>),
           Back(2, 2, Up \o Up \o <<"cr">>) }

(* The script whose last line is ended, and all inputs, are as a Shell     *)
(* expects them.                                                           *)
ASSUME FileWellMeant == File = MCFile => WellMeant
=============================================================================
