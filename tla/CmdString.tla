------------------------------ MODULE CmdString ------------------------------
(***************************************************************************)
(* appfw::CmdString (src/cmd_string.cpp): the commands of a line of text   *)
(* and back.  A text is a sequence of characters; ";" stands for a line    *)
(* feed as well.                                                           *)
(***************************************************************************)
EXTENDS Integers, Sequences, SequencesExt

Quote == "\""
End == "\\0"    \* what the loop reads behind the last character
NotInArg == <<"none">>
Blank == {" ", End}

\* The commands that are complete, the arguments of the one that is not, and the argument
\* that has begun.
Begun == [cmds |-> <<>>, args |-> <<>>, arg |-> NotInArg, isInQuotes |-> FALSE]

EndCommand(p) ==
    IF p.args = <<>> THEN p ELSE [p EXCEPT !.cmds = Append(@, p.args), !.args = <<>>]

\* An argument without a character is none.
EndArg(p) ==
    [p EXCEPT !.args = IF p.arg = <<>> THEN @ ELSE Append(@, p.arg),
              !.arg = NotInArg, !.isInQuotes = FALSE]

\* Mutant: a semicolon in quotes ends the argument.
NextInArgUnquoted(p, c) ==
    CASE c \in Blank -> EndArg(p)
      [] c = ";" -> EndCommand(EndArg(p))
      [] c = Quote -> IF p.isInQuotes THEN EndArg(p) ELSE [p EXCEPT !.isInQuotes = TRUE, !.arg = <<>>]
      [] OTHER -> [p EXCEPT !.arg = Append(@, c)]

\* A quotation mark inside of an argument begins another one: what was before it is lost.
NextInArg(p, c) ==
    CASE p.isInQuotes /\ c \in {Quote, End} -> EndArg(p)
      [] ~p.isInQuotes /\ c \in Blank -> EndArg(p)
      [] ~p.isInQuotes /\ c = ";" -> EndCommand(EndArg(p))
      [] ~p.isInQuotes /\ c = Quote -> [p EXCEPT !.isInQuotes = TRUE, !.arg = <<>>]
      [] OTHER -> [p EXCEPT !.arg = Append(@, c)]

NextChar(p, c) ==
    CASE p.arg = NotInArg /\ c \in Blank -> p
      [] p.arg = NotInArg /\ c = ";" -> EndCommand(p)
      [] p.arg = NotInArg /\ c \notin Blank \cup {";"} -> NextInArg([p EXCEPT !.arg = <<>>], c)
      [] OTHER -> NextInArg(p, c)

ParseCmds(text) == EndCommand(FoldLeft(NextChar, Begun, Append(text, End))).cmds

ArgToString(arg) == <<Quote>> \o arg \o <<Quote>>

CmdToString(cmd) ==
    FoldLeft(LAMBDA s, arg : s \o (IF s = <<>> THEN <<>> ELSE <<" ">>) \o ArgToString(arg), <<>>, cmd)

CmdsToString(cmds) == FoldLeft(LAMBDA s, cmd : s \o CmdToString(cmd) \o <<";", " ">>, <<>>, cmds)
-----------------------------------------------------------------------------
Args(cmds) == FlattenSeq(cmds)

\* What of a sequence is in a set.
KeepIn(S, seq) == FoldLeft(LAMBDA s, x : IF x \in S THEN Append(s, x) ELSE s, <<>>, seq)

\* What parse() makes of a text, toString() turns into a text of which parse() makes the
\* same: no argument is empty or has a quotation mark, and any text without one comes back
\* as the one argument that it was.  Of a text without quotation marks every character but
\* the separators is in an argument, in its order.
CmdsRightOf(text) ==
    LET cmds == ParseCmds(text) IN
    /\ ParseCmds(CmdsToString(cmds)) = cmds
    /\ \A arg \in Range(Args(cmds)) : arg /= <<>> /\ Quote \notin Range(arg)
    /\ Quote \notin Range(text) =>
         /\ FlattenSeq(Args(cmds)) = KeepIn(Range(text) \ {" ", ";"}, text)
         /\ text /= <<>> => ParseCmds(CmdToString(<<text>>)) = << <<text>> >>
=============================================================================
