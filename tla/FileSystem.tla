----------------------------- MODULE FileSystem -----------------------------
(***************************************************************************)
(* appfw::FileSystem (src/filesystem.cpp): groups of search paths behind a *)
(* shared mutex, called from any thread.  What is on the disk is given and *)
(* does not change.  Names are sequences of characters; a virtual name is  *)
(* tag:path.                                                               *)
(***************************************************************************)
EXTENDS Integers, Sequences, FiniteSets, SequencesExt

CONSTANTS
    Threads, NoThread,
    Names,          \* the virtual names that are looked up
    Tags,           \* those that search paths are added to
    Dirs,           \* the search paths that may be added
    Files,          \* for a path that is a directory, the files that it has, by relative name ...
    Listing,        \* ... and the entries of its subdirectories, by relative name
    WritersFirst,   \* whether a thread that waits for the mutex alone keeps readers out
    MaxCalls        \* bound

VARIABLES
    groups,         \* m_Groups: the search paths of each tag
    readers,        \* how often each thread has m_Mutex shared
    writer,         \* the thread that has it alone
    call,           \* what each thread is doing
    result,         \* what its call found
    failed,         \* history: the tags whose addSearchPath() has failed
    calls

fsVars == <<groups, readers, writer, call, result, failed, calls>>

Reads == {"getFilePath", "findExistingFile", "getFileList", "getDirEntries"}
Writes == {"addSearchPath", "addSearchPathToFront"}
NoCall == [op |-> "none", at |-> "idle", tag |-> <<>>, path |-> <<>>, dir |-> "none", k |-> 0]
NoResult == [kind |-> "none", entries |-> [n \in {} |-> n]]

Init ==
    /\ groups = [t \in {} |-> <<>>]
    /\ readers = [t \in Threads |-> 0] /\ writer = NoThread
    /\ call = [t \in Threads |-> NoCall] /\ result = [t \in Threads |-> NoResult]
    /\ failed = {} /\ calls = 0
-----------------------------------------------------------------------------
\* The first colon ends the tag; a path does not begin with a slash.
ParseVirtualName(name) ==
    LET delim == SelectInSeq(name, LAMBDA c : c = ":")
        path == SubSeq(name, delim + 1, Len(name)) IN
    [valid |-> delim > 1 /\ (path = <<>> \/ path[1] /= "/"),
     tag |-> SubSeq(name, 1, delim - 1), path |-> path]

Subdirs(dir) == DOMAIN Listing[dir]
IsDirectory(dir) == dir \in DOMAIN Files
Exists(dir, path) == path \in Files[dir] \cup Subdirs(dir)

Moves(t, at) == call' = [call EXCEPT ![t].at = at]
Finds(t, kind) ==
    /\ result' = [result EXCEPT ![t].kind = kind]
    /\ Moves(t, "done")

(* The mutex. *)

\* Mutant: the mutex is not a shared one.
SharedByNone == writer = NoThread /\ \A t \in Threads : readers[t] = 0

\* A waiting writer keeps out even a thread that reads already.
SharedFree ==
    /\ writer = NoThread
    /\ WritersFirst => \A t \in Threads : ~ (call[t].at = "lock" /\ call[t].op \in Writes)

\* Mutant: readers are not waited for.
AloneAmongWriters == writer = NoThread

AloneFree == writer = NoThread /\ \A t \in Threads : readers[t] = 0
-----------------------------------------------------------------------------
\* findExistingFile() parses the name before it locks, the others do so afterwards.
CallRead(t) ==
    /\ call[t] = NoCall /\ calls < MaxCalls
    /\ calls' = calls + 1
    /\ \E op \in Reads, name \in Names :
         LET parsed == ParseVirtualName(name)
             wrong == ~parsed.valid \/ (op = "getFilePath" /\ parsed.path = <<>>) IN
         call' = [call EXCEPT ![t] =
             [NoCall EXCEPT !.op = op, !.tag = parsed.tag, !.path = parsed.path,
                            !.at = IF ~wrong THEN "lock"
                                   ELSE IF op = "findExistingFile" THEN "throw" ELSE "lockToThrow"]]
    /\ UNCHANGED <<groups, readers, writer, result, failed>>

CallWrite(t) ==
    /\ call[t] = NoCall /\ calls < MaxCalls
    /\ calls' = calls + 1
    /\ \E op \in Writes, tag \in Tags, dir \in Dirs :
         call' = [call EXCEPT ![t] = [NoCall EXCEPT !.op = op, !.tag = tag, !.dir = dir, !.at = "lock"]]
    /\ UNCHANGED <<groups, readers, writer, result, failed>>

LockShared(t) ==
    /\ call[t].at \in {"lock", "lockToThrow"} /\ call[t].op \in Reads
    /\ SharedFree
    /\ readers' = [readers EXCEPT ![t] = 1]
    /\ Moves(t, IF call[t].at = "lockToThrow" THEN "throw"
                ELSE IF call[t].op = "getFilePath" THEN "lockAgain" ELSE "findGroup")
    /\ UNCHANGED <<groups, writer, result, failed, calls>>

\* findExistingFile(), called by getFilePath(), locks what its caller has locked.
LockAgain(t) ==
    /\ call[t].at = "lockAgain"
    /\ SharedFree
    /\ readers' = [readers EXCEPT ![t] = 2]
    /\ Moves(t, "findGroup")
    /\ UNCHANGED <<groups, writer, result, failed, calls>>

FindGroup(t) ==
    /\ call[t].at = "findGroup"
    /\ IF call[t].tag \in DOMAIN groups
       THEN /\ call' = [call EXCEPT ![t].at = "search", ![t].k = 1]
            /\ UNCHANGED result
       ELSE Finds(t, "noGroup")
    /\ UNCHANGED <<groups, readers, writer, failed, calls>>

\* The next search path of findExistingFile().
SearchFile(t) ==
    /\ call[t].at = "search" /\ call[t].op \in {"getFilePath", "findExistingFile"}
    /\ call[t].k <= Len(groups[call[t].tag])
    /\ LET dir == groups[call[t].tag][call[t].k] IN
         IF Exists(dir, call[t].path)
         THEN /\ call' = [call EXCEPT ![t].dir = dir, ![t].at = "done"]
              /\ result' = [result EXCEPT ![t].kind = "found"]
         ELSE call' = [call EXCEPT ![t].k = @ + 1] /\ UNCHANGED result
    /\ UNCHANGED <<groups, readers, writer, failed, calls>>

\* None has it: getFilePath() takes the first path after the nested lock is released.
NoFile(t) ==
    /\ call[t].at = "search" /\ call[t].op \in {"getFilePath", "findExistingFile"}
    /\ LET paths == groups[call[t].tag] IN
         /\ call[t].k > Len(paths)
         /\ IF call[t].op = "findExistingFile" THEN Finds(t, "nothing") /\ UNCHANGED readers
            ELSE /\ readers' = [readers EXCEPT ![t] = 1]
                 /\ IF paths = <<>> THEN Finds(t, "emptyGroup")
                    ELSE /\ call' = [call EXCEPT ![t].dir = paths[1], ![t].at = "done"]
                         /\ result' = [result EXCEPT ![t].kind = "new"]
    /\ UNCHANGED <<groups, writer, failed, calls>>

\* The next search path of getFileList() and getDirEntries(): without that directory in it
\* the first throws and the second goes on.  The first entry of a name is kept.
ListDirectory(t) ==
    /\ call[t].at = "search" /\ call[t].op \in {"getFileList", "getDirEntries"}
    /\ LET paths == groups[call[t].tag]  k == call[t].k  path == call[t].path IN
         IF k > Len(paths) THEN Finds(t, "list")
         ELSE IF path \in Subdirs(paths[k])
         THEN /\ result' = [result EXCEPT ![t].entries =
                   [n \in DOMAIN @ \cup Listing[paths[k]][path] |->
                        IF n \in DOMAIN @ THEN @[n] ELSE paths[k]]]
              /\ call' = [call EXCEPT ![t].k = k + 1]
         ELSE IF call[t].op = "getFileList" THEN Finds(t, "notAll")
         ELSE call' = [call EXCEPT ![t].k = k + 1] /\ UNCHANGED result
    /\ UNCHANGED <<groups, readers, writer, failed, calls>>

\* The group is there before the path is looked at.
FindOrAddGroup(t) ==
    /\ call[t].at = "lock" /\ call[t].op \in Writes
    /\ AloneFree
    /\ writer' = t
    /\ groups' = IF call[t].tag \in DOMAIN groups THEN groups
                 ELSE [g \in DOMAIN groups \cup {call[t].tag} |->
                          IF g = call[t].tag THEN <<>> ELSE groups[g]]
    /\ Moves(t, "add")
    /\ UNCHANGED <<readers, result, failed, calls>>

AddSearchPath(t) ==
    /\ call[t].at = "add"
    /\ LET tag == call[t].tag  dir == call[t].dir IN
         IF ~IsDirectory(dir) THEN failed' = failed \cup {tag} /\ UNCHANGED groups
         ELSE /\ groups' = [groups EXCEPT ![tag] =
                   IF call[t].op = "addSearchPath" THEN Append(@, dir) ELSE <<dir>> \o @]
              /\ UNCHANGED failed
    /\ Moves(t, "done")
    /\ UNCHANGED <<readers, writer, result, calls>>

Return(t) ==
    /\ call[t].at \in {"done", "throw"}
    /\ call' = [call EXCEPT ![t] = NoCall]
    /\ result' = [result EXCEPT ![t] = NoResult]
    /\ readers' = [readers EXCEPT ![t] = 0]
    /\ writer' = IF writer = t THEN NoThread ELSE writer
    /\ UNCHANGED <<groups, failed, calls>>
-----------------------------------------------------------------------------
Step(t) ==
    \/ LockShared(t) \/ LockAgain(t) \/ FindOrAddGroup(t)
    \/ FindGroup(t) \/ SearchFile(t) \/ NoFile(t) \/ ListDirectory(t) \/ AddSearchPath(t)
    \/ Return(t)

Next == \E t \in Threads : CallRead(t) \/ CallWrite(t) \/ Step(t)

Spec == Init /\ [][Next]_fsVars

\* A thread runs on, and one that waits gets the mutex if it is free again and again.
FairSpec == Spec /\ \A t \in Threads : SF_fsVars(Step(t))
-----------------------------------------------------------------------------
TypeOK ==
    /\ DOMAIN groups \subseteq Tags /\ \A g \in DOMAIN groups : groups[g] \in Seq(DOMAIN Files)
    /\ readers \in [Threads -> 0..2] /\ writer \in Threads \cup {NoThread}
    /\ failed \subseteq Tags /\ calls \in 0..MaxCalls
    /\ \A t \in Threads : call[t].at = "idle" => readers[t] = 0 /\ writer /= t

FirstWith(paths, Has(_)) == SelectInSeq(paths, Has)

\* What a lookup found is right for the search paths at the moment it returns, whoever adds
\* some meanwhile: the file is in the first path that has it, a new one would be in the first
\* path, an entry of a directory is that of the first path that has it, and a group without
\* paths is one to which adding has failed.
LookupsRight ==
    \A t \in Threads :
        LET paths == IF call[t].tag \in DOMAIN groups THEN groups[call[t].tag] ELSE <<>>
            path == call[t].path
            first == FirstWith(paths, LAMBDA d : Exists(d, path))
            kind == result[t].kind
            entries == result[t].entries IN
        /\ kind = "found" => call[t].dir = paths[first]
        /\ kind = "new" => first = 0 /\ call[t].dir = paths[1]
        /\ kind = "nothing" => first = 0
        /\ kind = "noGroup" => call[t].tag \notin DOMAIN groups
        /\ kind = "emptyGroup" => paths = <<>> /\ call[t].tag \in failed
        /\ kind = "list" =>
             /\ DOMAIN entries = UNION {Listing[d][path] : d \in {e \in Range(paths) : path \in Subdirs(e)}}
             /\ \A n \in DOMAIN entries :
                  entries[n] = paths[FirstWith(paths, LAMBDA d : path \in Subdirs(d) /\ n \in Listing[d][path])]

\* "Thread-safe." (filesystem.h): every call comes to its end, whatever the other threads
\* call.
LookupsReturn == \A t \in Threads : call[t] /= NoCall ~> call[t] = NoCall
=============================================================================
