---------------------------- MODULE MCApplication ----------------------------
(***************************************************************************)
(* Small instances of AppLoop and of what its program calls beside it: the *)
(* file system, the profiler, and the pure functions, whose inputs are     *)
(* chosen in the beginning.  A behaviour is about one part.                *)
(***************************************************************************)
EXTENDS AppLoop, CommandLine, ExtconProtocol, TLC

CONSTANTS
    Parts,          \* what is checked
    Main,           \* the main thread, when it calls the file system
    WritersFirst

VARIABLES part, input

--------------------------- (* The main loop. *) ---------------------------
MCItems == {"v", "w", "k", "h"}
MCName == [i \in MCItems |-> IF i = "w" THEN "v" ELSE i]
MCKind == [i \in MCItems |-> CASE i \in {"v", "w"} -> "cvar" [] i = "k" -> "lock" [] OTHER -> "handled"]
Cmd(n, a) == [name |-> n, arg |-> a]
MCLines == {<<>>, <<Cmd("v", "1"), Cmd("h", "none")>>, <<Cmd("k", "v")>>}

\* A program that makes a call of every kind, and one that constructs and destroys more
\* items and has one line to execute.
LoopBounds == [posts |-> 1, typed |-> 1, calls |-> 1, throws |-> 1, items |-> 1]
ItemBounds == [posts |-> 1, typed |-> 0, calls |-> 0, throws |-> 0, items |-> 4]
MCBounds == {LoopBounds, ItemBounds}

--------------------------- (* The file system. *) ---------------------------
VARIABLES groups, readers, writer, call, result, failed, calls
fileVars == <<groups, readers, writer, call, result, failed, calls>>

\* Two directories; the second has the file f and more in the directory s.
MCFileNames == {<<"g", ":", "f">>, <<"g", ":">>, <<"g", ":", "s">>, <<"f">>}
MCFiles == [d \in {"d1", "d2"} |-> IF d = "d1" THEN {} ELSE {<<"f">>}]
MCListing ==
    [d \in {"d1", "d2"} |->
        IF d = "d1" THEN <<>> :> {"s"} @@ <<"s">> :> {"x"}
        ELSE <<>> :> {"f"} @@ <<"s">> :> {"x", "y"}]

FileSystem == INSTANCE FileSystem WITH
    Threads <- Posters \cup {Main}, NoThread <- NoItem, MaxCalls <- 3,
    Names <- MCFileNames, Tags <- {<<"g">>}, Dirs <- {"d1", "d2", "no"},
    Files <- MCFiles, Listing <- MCListing

---------------------------- (* The profiler. *) ----------------------------
VARIABLES active, frame, sections, tree, prevTree, curNode, curHash, profs, spoiled
profVars == <<active, frame, sections, tree, prevTree, curNode, curHash, profs, spoiled>>

CONSTANTS RootName, SectionNames, NoSection, MaxFrames, MaxDepth, MaxNodes

Prof == INSTANCE Prof

-------------------------- (* The pure functions. *) --------------------------
CONSTANTS Width, MaxDigits

MCWidth == [t \in {"short", "ushort", "int", "uint", "long", "ulong"} |->
               CASE t \in {"short", "ushort"} -> 3 [] t \in {"int", "uint"} -> 4 [] OTHER -> 6]
Conversions == INSTANCE Conversions

\* On every platform a short is not longer than an int, nor an unsigned type than the next one.
ASSUME WidthAssumption ==
    /\ Width \in [{"short", "ushort", "int", "uint", "long", "ulong"} -> Nat \ {0}]
    /\ Width["short"] <= Width["int"] /\ Width["int"] > 1
    /\ Width["ushort"] <= Width["uint"] /\ Width["uint"] <= Width["ulong"]

\* The bytes of the items and of the messages have four values at least.
ASSUME ByteAssumption == Base > 3
MCMagic == <<1, 2>>

Arguments == {<<"v">>, <<"-", "-">>, <<"-", "-", "a">>, <<"-", "-", "b">>, <<"-", "f", "g">>,
              <<"-">>, <<"+", "c", ";", "d">>}
StreamItems ==
    {StreamItem("uint", 1, <<2>>), StreamItem("uint", 2, <<7>>),
     StreamItem("uint", 8, <<9999>>), StreamItem("string", 0, <<1, 2>>),
     StreamItem("object", 3, <<1, 2, 3>>), StreamItem("array", 2, <<1, 3, 2, 0>>)}
ItemNames == {<<>>, <<1, 2, 3>>, [i \in 1..15 |-> 2], [i \in 1..21 |-> 3]}
OutputLines == [type : {2}, color : {3}, time : {9999}, tag : {<<>>, <<1, 3>>},
                text : {[i \in 1..n |-> 2] : n \in 0..20}]

Inputs(p) ==
    CASE p = "text" -> SeqOf({"a", " ", ";", Quote}, 6)
      [] p = "argv" -> SeqOf(Arguments, 4)
      [] p = "number" -> Conversions!Written
      [] p = "stream" -> {0, 6, 13, 30} \X SeqOf(StreamItems, 3) \X BOOLEAN \X BOOLEAN
      [] p = "names" -> SeqOf(ItemNames, 5) \X BOOLEAN
      [] p = "output" -> OutputLines \X BOOLEAN
      [] OTHER -> {{}}
-----------------------------------------------------------------------------
OfLoop == part \in {"loop", "items"} /\ UNCHANGED <<part, input, fileVars, profVars>>
OfFiles == part = "files" /\ UNCHANGED <<part, input, vars, profVars>>
OfProf == part = "prof" /\ UNCHANGED <<part, input, vars, fileVars>>
allVars == <<part, input, vars, fileVars, profVars>>

ThreadStep(p) == (OfLoop /\ Post(p)) \/ (OfFiles /\ FileSystem!Step(p))
MainThreadStep == (OfLoop /\ MainStep) \/ (OfFiles /\ FileSystem!Step(Main))

AppInit ==
    /\ part \in Parts /\ input \in Inputs(part)
    /\ Init /\ counts = (IF part = "items" THEN ItemBounds ELSE LoopBounds)
    /\ FileSystem!Init /\ Prof!Init
AppNext ==
    \/ OfLoop /\ Next
    \/ OfFiles /\ FileSystem!Next
    \/ OfProf /\ Prof!Next

\* The fairness of each in its own behaviours.
AppSpec ==
    /\ AppInit /\ [][AppNext]_allVars
    /\ SF_allVars(MainThreadStep)
    /\ \A p \in Posters : SF_allVars(ThreadStep(p))
    /\ \A g \in Generations : WF_allVars(OfLoop /\ ReaderStep(g))
-----------------------------------------------------------------------------
\* The variables of all parts have their types.
AppTypes == TypeOK /\ FileSystem!TypeOK /\ Prof!TypeOK

\* What is found is right for the search paths at the moment a call returns.
LookupsRight == part = "files" => FileSystem!LookupsRight

\* Every call of the file system returns.
LookupsReturn == FileSystem!LookupsReturn

\* The current node is the one of the open sections, and the nodes of this frame and of the
\* last one have their sections once there are such frames.
ProfileTree == part = "prof" => Prof!ProfileTree

\* Commands and their arguments are found in a text, and a text is made of them.
CmdsRight == part = "text" => CmdsRightOf(input)

\* The arguments of main() are taken for what their places say.
ArgumentsRight == part = "argv" => ArgumentsRightOf(input)

\* A number is converted to the types that have it and back, and no text without a number to any.
ConversionsRight == part = "number" => Conversions!ConversionsRight(input)

\* What was written on one platform is read on another, also where writes have failed.
ReadsMirrorWrites ==
    part = "stream" => ReadsMirrorWritesOf(input[1], input[2], input[3], input[4])

\* The list of commands and a line of output are read from the messages that they are put into,
\* and these are within the limit if the list or the line is.
MessagesReceived ==
    /\ part = "names" => ListReceived(input[1], input[2])
    /\ part = "output" => PrintReceived(input[1], input[2])
=============================================================================
