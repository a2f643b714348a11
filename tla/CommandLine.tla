----------------------------- MODULE CommandLine -----------------------------
(***************************************************************************)
(* appfw::CommandLine (src/command_line.cpp): what the arguments of main() *)
(* are taken for.  An argument is a sequence of characters.                *)
(***************************************************************************)
EXTENDS CmdString, FiniteSets

Starts(arg, prefix) == IsPrefix(prefix, arg)
IsValue(arg) == ~Starts(arg, <<"-">>) /\ ~Starts(arg, <<"+">>)

NothingParsed ==
    [args |-> [t \in {} |-> t], flagList |-> {}, shortFlagList |-> {}, execCmds |-> <<>>,
     posArgs |-> <<>>, areNextArgsPositional |-> FALSE, isValue |-> FALSE, thrown |-> FALSE]

\* Mutant: a value that begins with a dash is a value.
HasValueAny(argv, i) == i < Len(argv)

HasValue(argv, i) == i < Len(argv) /\ IsValue(argv[i + 1])

\* The next argument, which the one before it may have taken for its value.
ParseArg(argv, p, i) ==
    LET arg == argv[i] IN
    CASE p.thrown -> p
      [] ~p.thrown /\ p.isValue -> [p EXCEPT !.isValue = FALSE]
      [] OTHER ->
           CASE p.areNextArgsPositional -> [p EXCEPT !.posArgs = Append(@, arg)]
             [] ~p.areNextArgsPositional /\ arg = <<"-", "-">> ->
                  [p EXCEPT !.areNextArgsPositional = TRUE]
             [] ~p.areNextArgsPositional /\ arg /= <<"-", "-">> ->
                  CASE Starts(arg, <<"-", "-">>) /\ ~HasValue(argv, i) ->
                         [p EXCEPT !.flagList = @ \cup {arg}]
                    [] Starts(arg, <<"-", "-">>) /\ HasValue(argv, i) ->
                         IF arg \in DOMAIN p.args THEN [p EXCEPT !.thrown = TRUE]
                         ELSE [p EXCEPT !.args = [t \in DOMAIN @ \cup {arg} |->
                                                    IF t = arg THEN argv[i + 1] ELSE @[t]],
                                        !.isValue = TRUE]
                    [] Starts(arg, <<"-">>) /\ ~Starts(arg, <<"-", "-">>) ->
                         [p EXCEPT !.shortFlagList = @ \cup Range(Tail(arg))]
                    [] Starts(arg, <<"+">>) -> [p EXCEPT !.execCmds = @ \o ParseCmds(Tail(arg))]
                    [] OTHER -> [p EXCEPT !.posArgs = Append(@, arg)]

\* Without the name of the command, argv[0].
ParseCommandLine(argv) ==
    FoldLeft(LAMBDA p, i : ParseArg(argv, p, i), NothingParsed, [i \in DOMAIN argv |-> i])

DoesArgHaveValue(p, tag) == tag \in DOMAIN p.args
GetArgString(p, tag, defval) == IF DoesArgHaveValue(p, tag) THEN p.args[tag] ELSE defval
-----------------------------------------------------------------------------
\* The reference: what an argument is follows from its place alone.
First(argv) == CHOOSE d \in 1..Len(argv) + 1 :
    /\ d <= Len(argv) => argv[d] = <<"-", "-">>
    /\ \A i \in 1..d - 1 : argv[i] /= <<"-", "-">>
Tagged(argv, i) == i < First(argv) /\ Starts(argv[i], <<"-", "-">>)
Valued(argv, i) == i \in 2..First(argv) - 1 /\ Tagged(argv, i - 1) /\ IsValue(argv[i])
Lettered(argv, i) ==
    i < First(argv) /\ Starts(argv[i], <<"-">>) /\ ~Starts(argv[i], <<"-", "-">>)
Twice(argv) == \E i, j \in DOMAIN argv :
    i /= j /\ Valued(argv, i) /\ Valued(argv, j) /\ argv[i - 1] = argv[j - 1]
Indices(argv, S) == KeepIn(S, [i \in DOMAIN argv |-> i])

\* Every argument is taken for what its place says, and nothing is found that no argument
\* says: a tag with the value after it or a flag, letters, each of which is a short flag,
\* commands in their order or a positional argument, as all are after "--"; the call throws
\* exactly if a tag has two values.
ArgumentsRightOf(argv) ==
    LET p == ParseCommandLine(argv)
        positional == Indices(argv, {i \in DOMAIN argv :
            i > First(argv) \/ (i < First(argv) /\ IsValue(argv[i]) /\ ~Valued(argv, i))})
        commands == Indices(argv, {i \in DOMAIN argv : i < First(argv) /\ Starts(argv[i], <<"+">>)})
        flags == {i \in DOMAIN argv : Tagged(argv, i) /\ ~Valued(argv, i + 1)}
        valued == {i \in DOMAIN argv : Valued(argv, i + 1)}
        lettered == {i \in DOMAIN argv : Lettered(argv, i)} IN
    /\ p.thrown <=> Twice(argv)
    /\ ~p.thrown =>
         /\ p.posArgs = [k \in DOMAIN positional |-> argv[positional[k]]]
         /\ p.execCmds = FlattenSeq([k \in DOMAIN commands |-> ParseCmds(Tail(argv[commands[k]]))])
         /\ p.flagList = {argv[i] : i \in flags}
         /\ p.shortFlagList = UNION {Range(Tail(argv[i])) : i \in lettered}
         /\ DOMAIN p.args = {argv[i] : i \in valued}
         /\ \A i \in valued : GetArgString(p, argv[i], <<>>) = argv[i + 1]
=============================================================================
