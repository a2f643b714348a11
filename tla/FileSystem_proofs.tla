-------------------------- MODULE FileSystem_proofs --------------------------
(***************************************************************************)
(* What a lookup found is right when it returns, for all threads, paths,   *)
(* names and disks.  The heart of it is the mutex: a thread has it shared  *)
(* from the moment it looks for the group until it returns, and the groups *)
(* change only while one thread has it alone, so that what was seen of the *)
(* first search paths still holds when the last is looked at.              *)
(***************************************************************************)
EXTENDS FileSystem, TLAPS

AllTags == Tags \cup {<<>>} \cup {ParseVirtualName(name).tag : name \in Names}
AllPaths == {<<>>} \cup {ParseVirtualName(name).path : name \in Names}
AllDirs == Dirs \cup DOMAIN Files \cup {"none"}
AllEntries == UNION {UNION {Listing[d][path] : path \in Subdirs(d)} : d \in DOMAIN Files}

Places == {"idle", "lock", "lockToThrow", "throw", "lockAgain", "findGroup", "search", "add", "done"}
Kinds == {"none", "found", "new", "nothing", "noGroup", "emptyGroup", "list", "notAll"}
FileReads == {"getFilePath", "findExistingFile"}
DirReads == {"getFileList", "getDirEntries"}

Calls == [op : Reads \cup Writes \cup {"none"}, at : Places, tag : AllTags, path : AllPaths,
          dir : AllDirs, k : Nat]
Results == [kind : Kinds, entries : UNION {[S -> DOMAIN Files] : S \in SUBSET AllEntries}]

GroupTypes ==
    /\ groups \in [DOMAIN groups -> Seq(DOMAIN Files)] /\ DOMAIN groups \subseteq Tags
    /\ failed \subseteq Tags

Types ==
    /\ GroupTypes
    /\ calls \in 0..MaxCalls
    /\ readers \in [Threads -> 0..2]
    /\ writer \in Threads \cup {NoThread}
    /\ call \in [Threads -> Calls]
    /\ result \in [Threads -> Results]

\* Readers and a writer keep each other out; who has the mutex, and how, follows from where
\* a thread is.
MutexInv ==
    /\ \A t \in Threads : readers[t] > 0 => writer = NoThread
    /\ \A t \in Threads :
         /\ call[t].at \in {"lockAgain", "findGroup", "search"} => readers[t] > 0
         /\ result[t].kind /= "none" => readers[t] > 0 /\ call[t].at = "done"
         /\ call[t].at \in {"idle", "lock", "lockToThrow"} => readers[t] = 0
         /\ call[t].at = "add" => writer = t
         /\ writer = t => call[t].at \in {"add", "done"}

\* Which calls are where, and with which tags.
CallInv ==
    \A t \in Threads :
        /\ call[t].at \in {"lockToThrow", "lockAgain", "findGroup"} => call[t].op \in Reads
        /\ call[t].at = "search" =>
             call[t].op \in Reads /\ call[t].tag \in DOMAIN groups /\ call[t].k \in Nat \ {0}
        /\ call[t].at = "add" => call[t].tag \in DOMAIN groups
        /\ call[t].op \in Writes => call[t].tag \in Tags
        /\ call[t].at \in {"idle", "lock", "lockToThrow", "lockAgain", "findGroup"} => result[t] = NoResult

\* A group without paths is about to get one, or adding one has failed.
EmptyInv ==
    \A g \in DOMAIN groups :
        groups[g] = <<>> => g \in failed \/ \E t \in Threads : call[t].at = "add" /\ call[t].tag = g

Has(d, path, name) == path \in Subdirs(d) /\ name \in Listing[d][path]

\* The entries are those of the first n paths.
EntriesOf(entries, paths, path, n) ==
    /\ DOMAIN entries = {name \in AllEntries : \E j \in 1..n : Has(paths[j], path, name)}
    /\ \A name \in DOMAIN entries : \E j \in 1..n :
         /\ entries[name] = paths[j] /\ Has(paths[j], path, name)
         /\ \A i \in 1..(j - 1) : ~ Has(paths[i], path, name)

NoneHas(paths, path, n) == \A j \in 1..n : ~ Exists(paths[j], path)

\* What the paths before the next one have shown.
Searching(t) ==
    call[t].at = "search" =>
        LET paths == groups[call[t].tag]  path == call[t].path  k == call[t].k IN
        /\ k <= Len(paths) + 1
        /\ call[t].op \in FileReads => NoneHas(paths, path, k - 1)
        /\ call[t].op \in DirReads => EntriesOf(result[t].entries, paths, path, k - 1)

Paths(t) == IF call[t].tag \in DOMAIN groups THEN groups[call[t].tag] ELSE <<>>

\* The conjuncts of LookupsRight, by the places in the search paths.
Right(t) ==
    LET paths == Paths(t)  path == call[t].path  kind == result[t].kind IN
    /\ kind = "found" => \E i \in 1..Len(paths) :
         call[t].dir = paths[i] /\ Exists(paths[i], path) /\ NoneHas(paths, path, i - 1)
    /\ kind \in {"new", "nothing"} => NoneHas(paths, path, Len(paths))
    /\ kind = "new" => call[t].dir = paths[1]
    /\ kind = "noGroup" => call[t].tag \notin DOMAIN groups
    /\ kind = "emptyGroup" => paths = <<>> /\ call[t].tag \in failed
    /\ kind = "list" => EntriesOf(result[t].entries, paths, path, Len(paths))

LookupInv == \A t \in Threads : Searching(t) /\ Right(t)

IInv == Types /\ MutexInv /\ CallInv /\ EmptyInv /\ LookupInv
-----------------------------------------------------------------------------
(* Types. *)

LEMMA ParsedIsCall ==
    ASSUME NEW name \in Names
    PROVE  ParseVirtualName(name).tag \in AllTags /\ ParseVirtualName(name).path \in AllPaths
BY DEF AllTags, AllPaths

LEMMA NoResultType == NoResult \in Results
<1>1. [n \in {} |-> n] \in [{} -> DOMAIN Files]
  OBVIOUS
<1> QED BY <1>1 DEF NoResult, Results, Kinds

LEMMA TypesInit ==
    ASSUME NoThread \notin Threads, MaxCalls \in Nat, Init
    PROVE  Types
<1>1. NoCall \in Calls
  BY DEF NoCall, Calls, Places, AllTags, AllPaths, AllDirs
<1>2. NoResult \in Results
  BY NoResultType
<1>3. 0 \in 0..MaxCalls
  OBVIOUS
<1> HIDE DEF NoCall, NoResult
<1> QED BY <1>1, <1>2, <1>3 DEF Init, Types, GroupTypes

\* What Finds() and Moves() do to the types.
LEMMA MovesType ==
    ASSUME Types, NEW t \in Threads, NEW at \in Places, Moves(t, at)
    PROVE  call' \in [Threads -> Calls]
BY DEF Types, Moves, Calls

LEMMA FindsType ==
    ASSUME Types, NEW t \in Threads, NEW kind \in Kinds, Finds(t, kind)
    PROVE  call' \in [Threads -> Calls] /\ result' \in [Threads -> Results]
<1>1. "done" \in Places
  BY DEF Places
<1> QED BY <1>1, MovesType DEF Types, Finds, Results

\* What one round of getFileList() or getDirEntries() does, case by case.
NewEntries(entries, dir, path) ==
    [n \in DOMAIN entries \cup Listing[dir][path] |->
         IF n \in DOMAIN entries THEN entries[n] ELSE dir]

LEMMA ListDirectoryCases ==
    ASSUME NEW t \in Threads, ListDirectory(t)
    PROVE  LET paths == groups[call[t].tag]  k == call[t].k  path == call[t].path IN
             /\ k > Len(paths) => Finds(t, "list")
             /\ ~(k > Len(paths)) /\ path \in Subdirs(paths[k]) =>
                  /\ call' = [call EXCEPT ![t].k = k + 1]
                  /\ result' = [result EXCEPT ![t].entries =
                                  NewEntries(result[t].entries, paths[k], path)]
             /\ ~(k > Len(paths)) /\ path \notin Subdirs(paths[k]) =>
                  \/ Finds(t, "notAll") /\ call[t].op = "getFileList"
                  \/ /\ call' = [call EXCEPT ![t].k = k + 1] /\ UNCHANGED result
                     /\ call[t].op /= "getFileList"
BY Zenon DEF ListDirectory, NewEntries

LEMMA KindType ==
    ASSUME result \in [Threads -> Results], NEW t \in Threads, NEW kind \in Kinds,
           result' = [result EXCEPT ![t].kind = kind]
    PROVE  result' \in [Threads -> Results]
BY DEF Results

LEMMA PlaceType ==
    ASSUME NEW c \in [Threads -> Calls], NEW t \in Threads, NEW at \in Places
    PROVE  [c EXCEPT ![t].at = at] \in [Threads -> Calls]
BY DEF Calls

LEMMA FoundType ==
    ASSUME call \in [Threads -> Calls], NEW t \in Threads, NEW dir \in AllDirs,
           call' = [call EXCEPT ![t].dir = dir, ![t].at = "done"]
    PROVE  call' \in [Threads -> Calls]
<1> DEFINE there == [call EXCEPT ![t].dir = dir]
<1>1. there \in [Threads -> Calls]
  BY DEF Calls
<1>2. call' = [there EXCEPT ![t].at = "done"]
  OBVIOUS
<1>3. "done" \in Places
  BY DEF Places
<1> HIDE DEF there
<1>4. [there EXCEPT ![t].at = "done"] \in [Threads -> Calls]
  BY <1>1, <1>3, PlaceType
<1> QED BY <1>2, <1>4, Zenon

LEMMA CountType ==
    ASSUME call \in [Threads -> Calls], NEW t \in Threads, NEW k \in Nat,
           call' = [call EXCEPT ![t].k = k]
    PROVE  call' \in [Threads -> Calls]
BY DEF Calls

\* A call keeps what a step does not assign.
LEMMA CallGoesOn ==
    ASSUME call \in [Threads -> Calls], NEW t \in Threads, NEW k,
           call' = [call EXCEPT ![t].k = k]
    PROVE  /\ call'[t].k = k /\ call'[t].at = call[t].at /\ call'[t].op = call[t].op
           /\ call'[t].tag = call[t].tag /\ call'[t].path = call[t].path
BY DEF Calls

LEMMA CallFinds ==
    ASSUME call \in [Threads -> Calls], NEW t \in Threads, NEW dir,
           call' = [call EXCEPT ![t].dir = dir, ![t].at = "done"]
    PROVE  call'[t].at = "done" /\ call'[t].dir = dir /\ call'[t].op = call[t].op
           /\ call'[t].tag = call[t].tag /\ call'[t].path = call[t].path
<1> DEFINE there == [call EXCEPT ![t].dir = dir]
<1>1. /\ DOMAIN there = Threads /\ there[t] = [call[t] EXCEPT !.dir = dir]
      /\ call[t] \in Calls
  OBVIOUS
<1>2. call' = [there EXCEPT ![t].at = "done"]
  OBVIOUS
<1> HIDE DEF there
<1>3. call'[t] = [there[t] EXCEPT !.at = "done"]
  BY <1>1, <1>2
<1> DEFINE c == call[t]  m == there[t]
<1>4. /\ m = [op |-> c.op, at |-> c.at, tag |-> c.tag, path |-> c.path, dir |-> dir, k |-> c.k]
  BY <1>1 DEF Calls
<1> HIDE DEF c, m
<1>5. call'[t] = [op |-> c.op, at |-> "done", tag |-> c.tag, path |-> c.path, dir |-> dir, k |-> c.k]
  BY <1>3, <1>4 DEF m
<1> QED BY <1>5 DEF c

LEMMA CallSearches ==
    ASSUME call \in [Threads -> Calls], NEW t \in Threads,
           call' = [call EXCEPT ![t].at = "search", ![t].k = 1]
    PROVE  call'[t].at = "search" /\ call'[t].k = 1 /\ call'[t].op = call[t].op
           /\ call'[t].tag = call[t].tag
<1> DEFINE there == [call EXCEPT ![t].at = "search"]
<1>1. there \in [Threads -> [op : Reads \cup Writes \cup {"none"}, at : Places \cup {"search"},
                              tag : AllTags, path : AllPaths, dir : AllDirs, k : Nat]]
      /\ there[t].at = "search" /\ there[t].op = call[t].op /\ there[t].tag = call[t].tag
  BY DEF Calls
<1>2. call' = [there EXCEPT ![t].k = 1]
  OBVIOUS
<1> HIDE DEF there
<1> QED BY <1>1, <1>2

LEMMA CallEnds ==
    ASSUME call \in [Threads -> Calls], NEW t \in Threads, Moves(t, "done")
    PROVE  call'[t].at = "done" /\ call'[t].op = call[t].op /\ call'[t].dir = call[t].dir
           /\ call'[t].tag = call[t].tag /\ call'[t].path = call[t].path
BY DEF Calls, Moves

LEMMA TypesSteps ==
    ASSUME MaxCalls \in Nat, Types, MutexInv, CallInv, [Next]_fsVars
    PROVE  Types'
<1>0. CASE UNCHANGED fsVars
  BY <1>0 DEF fsVars, Types, GroupTypes
<1> SUFFICES ASSUME NEW t \in Threads, CallRead(t) \/ CallWrite(t) \/ Step(t) PROVE Types'
  BY <1>0 DEF Next
<1>a. call[t] \in Calls /\ result[t] \in Results
  BY DEF Types
<1>b. ASSUME UNCHANGED <<groups, failed>> PROVE GroupTypes'
  BY <1>b DEF Types, GroupTypes
<1>c. ASSUME call' \in [Threads -> Calls], result' \in [Threads -> Results], calls' \in 0..MaxCalls,
             readers' \in [Threads -> 0..2], writer' \in Threads \cup {NoThread}, GroupTypes'
      PROVE  Types'
  BY <1>c DEF Types
<1>d. ASSUME call[t].at = "search" PROVE groups[call[t].tag] \in Seq(DOMAIN Files) /\ call[t].k \in Nat \ {0}
  BY <1>d DEF CallInv, Types, GroupTypes
<1>e. /\ calls \in 0..MaxCalls /\ readers \in [Threads -> 0..2] /\ writer \in Threads \cup {NoThread}
      /\ result \in [Threads -> Results] /\ call \in [Threads -> Calls] /\ GroupTypes
  BY DEF Types
<1>f. "done" \in Places /\ {"found", "new", "list", "notAll"} \subseteq Kinds
  BY DEF Places, Kinds
<1>1. CASE CallRead(t)
  <2>1. PICK op \in Reads, name \in Names :
          LET parsed == ParseVirtualName(name)
              wrong == ~parsed.valid \/ (op = "getFilePath" /\ parsed.path = <<>>) IN
          call' = [call EXCEPT ![t] =
             [NoCall EXCEPT !.op = op, !.tag = parsed.tag, !.path = parsed.path,
                            !.at = IF ~wrong THEN "lock"
                                   ELSE IF op = "findExistingFile" THEN "throw" ELSE "lockToThrow"]]
    BY <1>1 DEF CallRead
  <2>2. call' \in [Threads -> Calls]
    BY <2>1, ParsedIsCall DEF Types, Calls, NoCall, AllDirs, Places
  <2>3. calls < MaxCalls /\ calls' = calls + 1 /\ UNCHANGED <<groups, readers, writer, result, failed>>
    BY <1>1 DEF CallRead
  <2>4. calls' \in 0..MaxCalls
    BY <2>3, <1>e
  <2> QED BY <2>2, <2>3, <2>4, <1>b, <1>c, <1>e
<1>2. CASE CallWrite(t)
  <2>1. PICK op \in Writes, tag \in Tags, dir \in Dirs :
          call' = [call EXCEPT ![t] = [NoCall EXCEPT !.op = op, !.tag = tag, !.dir = dir, !.at = "lock"]]
    BY <1>2 DEF CallWrite
  <2>2. call' \in [Threads -> Calls]
    BY <2>1 DEF Types, Calls, NoCall, AllTags, AllPaths, AllDirs, Places
  <2>3. calls < MaxCalls /\ calls' = calls + 1 /\ UNCHANGED <<groups, readers, writer, result, failed>>
    BY <1>2 DEF CallWrite
  <2>4. calls' \in 0..MaxCalls
    BY <2>3, <1>e
  <2> QED BY <2>2, <2>3, <2>4, <1>b, <1>c, <1>e
<1>3. CASE LockShared(t)
  <2>1. call' \in [Threads -> Calls]
    BY <1>3, MovesType DEF LockShared, Places
  <2>2. UNCHANGED <<groups, writer, result, failed, calls>> /\ readers' \in [Threads -> 0..2]
    BY <1>3, <1>e DEF LockShared
  <2> QED BY <2>1, <2>2, <1>b, <1>c, <1>e
<1>4. CASE LockAgain(t)
  <2>1. call' \in [Threads -> Calls]
    BY <1>4, MovesType DEF LockAgain, Places
  <2>2. UNCHANGED <<groups, writer, result, failed, calls>> /\ readers' \in [Threads -> 0..2]
    BY <1>4, <1>e DEF LockAgain
  <2> QED BY <2>1, <2>2, <1>b, <1>c, <1>e
<1>5. CASE FindGroup(t)
  <2>1. call' \in [Threads -> Calls] /\ result' \in [Threads -> Results]
    <3>1. CASE call[t].tag \in DOMAIN groups
      BY <1>5, <3>1 DEF FindGroup, Types, Calls, Places
    <3>2. CASE call[t].tag \notin DOMAIN groups
      BY <1>5, <3>2, FindsType DEF FindGroup, Kinds
    <3> QED BY <3>1, <3>2
  <2>2. UNCHANGED <<groups, readers, writer, failed, calls>>
    BY <1>5 DEF FindGroup
  <2> QED BY <2>1, <2>2, <1>b, <1>c, <1>e
<1>6. CASE SearchFile(t)
  <2> DEFINE dir == groups[call[t].tag][call[t].k]
  <2>1. dir \in AllDirs
    BY <1>6, <1>d DEF SearchFile, AllDirs
  <2>2. \/ /\ call' = [call EXCEPT ![t].dir = dir, ![t].at = "done"]
           /\ result' = [result EXCEPT ![t].kind = "found"]
        \/ /\ call' = [call EXCEPT ![t].k = call[t].k + 1]
           /\ result' = result
    BY <1>6, <1>e DEF SearchFile
  <2>3. call[t].k + 1 \in Nat
    BY <1>6, <1>d DEF SearchFile
  <2>4. UNCHANGED <<groups, readers, writer, failed, calls>>
    BY <1>6 DEF SearchFile
  <2> HIDE DEF dir
  <2>5. call' \in [Threads -> Calls]
    BY <2>1, <2>2, <2>3, <1>e, FoundType, CountType
  <2>6. result' \in [Threads -> Results]
    BY <2>2, <1>e, KindType DEF Kinds
  <2> QED BY <2>4, <2>5, <2>6, <1>b, <1>c, <1>e
<1>7. CASE NoFile(t)
  <2> DEFINE paths == groups[call[t].tag]
  <2>1. paths \in Seq(DOMAIN Files)
    BY <1>7, <1>d DEF NoFile
  <2>2. \/ \E kind \in Kinds : Finds(t, kind)
        \/ /\ paths /= <<>>
           /\ call' = [call EXCEPT ![t].dir = paths[1], ![t].at = "done"]
           /\ result' = [result EXCEPT ![t].kind = "new"]
    BY <1>7 DEF NoFile, Kinds
  <2>3. UNCHANGED <<groups, writer, failed, calls>> /\ readers' \in [Threads -> 0..2]
    BY <1>7, <1>e DEF NoFile
  <2> HIDE DEF paths
  <2>4. call' \in [Threads -> Calls] /\ result' \in [Threads -> Results]
    <3>1. CASE \E kind \in Kinds : Finds(t, kind)
      BY <3>1, FindsType
    <3>2. CASE /\ paths /= <<>>
               /\ call' = [call EXCEPT ![t].dir = paths[1], ![t].at = "done"]
               /\ result' = [result EXCEPT ![t].kind = "new"]
      <4>1. paths[1] \in AllDirs
        BY <2>1, <3>2 DEF AllDirs
      <4>2. call' \in [Threads -> Calls]
        BY <3>2, <4>1, <1>e, FoundType
      <4>3. result' \in [Threads -> Results]
        BY <3>2, <1>e, KindType DEF Kinds
      <4> QED BY <4>2, <4>3
    <3> QED BY <2>2, <3>1, <3>2
  <2> QED BY <2>3, <2>4, <1>b, <1>c, <1>e
<1>8. CASE ListDirectory(t)
  <2> DEFINE paths == groups[call[t].tag]
             k == call[t].k
             listed == Listing[paths[k]][call[t].path]
             entries == result[t].entries
             new == NewEntries(entries, paths[k], call[t].path)
  <2>1. paths \in Seq(DOMAIN Files) /\ k \in Nat \ {0}
    BY <1>8, <1>d DEF ListDirectory
  <2>2. \/ \E kind \in Kinds : Finds(t, kind)
        \/ /\ k <= Len(paths) /\ call[t].path \in Subdirs(paths[k])
           /\ call' = [call EXCEPT ![t].k = k + 1]
           /\ result' = [result EXCEPT ![t].entries = new]
        \/ call' = [call EXCEPT ![t].k = k + 1] /\ UNCHANGED result
    <3>1. k > Len(paths) \/ k <= Len(paths)
      BY <2>1
    <3>2. k <= Len(paths) <=> ~(k > Len(paths))
      BY <2>1
    <3>3. {"list", "notAll"} \subseteq Kinds
      BY DEF Kinds
    <3>4. /\ k > Len(paths) => Finds(t, "list")
          /\ ~(k > Len(paths)) /\ call[t].path \in Subdirs(paths[k]) =>
               /\ call' = [call EXCEPT ![t].k = k + 1]
               /\ result' = [result EXCEPT ![t].entries = new]
          /\ ~(k > Len(paths)) /\ call[t].path \notin Subdirs(paths[k]) =>
               \/ Finds(t, "notAll")
               \/ call' = [call EXCEPT ![t].k = k + 1] /\ UNCHANGED result
      BY <1>8, ListDirectoryCases
    <3> HIDE DEF paths, k, new
    <3> QED BY <3>1, <3>2, <3>3, <3>4
  <2>3. UNCHANGED <<groups, readers, writer, failed, calls>>
    BY <1>8 DEF ListDirectory
  <2>4. ASSUME k <= Len(paths), call[t].path \in Subdirs(paths[k])
        PROVE  new \in UNION {[S -> DOMAIN Files] : S \in SUBSET AllEntries}
    <3>1. PICK S \in SUBSET AllEntries : entries \in [S -> DOMAIN Files]
      BY <1>a DEF Results
    <3>2. paths[k] \in DOMAIN Files
      BY <2>1, <2>4
    <3>3. S \cup listed \in SUBSET AllEntries
      BY <3>2, <2>4, SMTT(30) DEF AllEntries
    <3>4. new = [n \in DOMAIN entries \cup listed |->
                    IF n \in DOMAIN entries THEN entries[n] ELSE paths[k]]
      BY DEF NewEntries
    <3> HIDE DEF paths, k, listed, entries, new
    <3>5. new \in [S \cup listed -> DOMAIN Files]
      BY <3>1, <3>2, <3>4
    <3> QED BY <3>3, <3>5
  <2> HIDE DEF paths, k, new
  <2>5. call' \in [Threads -> Calls] /\ result' \in [Threads -> Results]
    <3>1. CASE \E kind \in Kinds : Finds(t, kind)
      BY <3>1, FindsType
    <3>2. ASSUME call' = [call EXCEPT ![t].k = k + 1] PROVE call' \in [Threads -> Calls]
      <4>1. k + 1 \in Nat
        BY <2>1
      <4> QED BY <3>2, <4>1, <1>e, CountType
    <3>3. ASSUME k <= Len(paths), call[t].path \in Subdirs(paths[k]),
                 result' = [result EXCEPT ![t].entries = new]
          PROVE  result' \in [Threads -> Results]
      BY <3>3, <2>4, <1>e DEF Results
    <3> QED BY <2>2, <3>1, <3>2, <3>3, <1>e
  <2> QED BY <2>3, <2>5, <1>b, <1>c, <1>e
<1>9. CASE FindOrAddGroup(t)
  <2>1. call' \in [Threads -> Calls]
    BY <1>9, MovesType DEF FindOrAddGroup, Places
  <2>2. UNCHANGED <<readers, result, failed, calls>> /\ writer' = t
    BY <1>9 DEF FindOrAddGroup
  <2>3. call[t].tag \in Tags
    BY <1>9 DEF FindOrAddGroup, CallInv
  <2>4. GroupTypes'
    <3>1. groups \in [DOMAIN groups -> Seq(DOMAIN Files)] /\ DOMAIN groups \subseteq Tags /\ failed \subseteq Tags
      BY <1>e DEF GroupTypes
    <3>2. <<>> \in Seq(DOMAIN Files)
      OBVIOUS
    <3>3. \/ groups' = groups
          \/ groups' = [g \in DOMAIN groups \cup {call[t].tag} |->
                           IF g = call[t].tag THEN <<>> ELSE groups[g]]
      BY <1>9 DEF FindOrAddGroup
    <3>4. groups' \in [DOMAIN groups' -> Seq(DOMAIN Files)] /\ DOMAIN groups' \subseteq Tags
      BY <3>1, <3>2, <3>3, <2>3
    <3> QED BY <3>1, <3>4, <2>2 DEF GroupTypes
  <2> QED BY <2>1, <2>2, <2>4, <1>c, <1>e
<1>10. CASE AddSearchPath(t)
  <2>1. call' \in [Threads -> Calls]
    BY <1>10, MovesType DEF AddSearchPath, Places
  <2>2. UNCHANGED <<readers, writer, result, calls>>
    BY <1>10 DEF AddSearchPath
  <2> DEFINE tag == call[t].tag
             dir == call[t].dir
  <2>3. tag \in DOMAIN groups
    BY <1>10 DEF AddSearchPath, CallInv
  <2>4. groups \in [DOMAIN groups -> Seq(DOMAIN Files)] /\ DOMAIN groups \subseteq Tags /\ failed \subseteq Tags
    BY <1>e DEF GroupTypes
  <2>5. CASE ~ IsDirectory(dir)
    <3>1. failed' = failed \cup {tag} /\ groups' = groups
      BY <1>10, <2>5 DEF AddSearchPath
    <3>2. GroupTypes'
      BY <2>3, <2>4, <3>1 DEF GroupTypes
    <3> QED BY <2>1, <2>2, <3>2, <1>c, <1>e
  <2>6. CASE IsDirectory(dir)
    <3>1. PICK new : /\ new \in {Append(groups[tag], dir), <<dir>> \o groups[tag]}
                     /\ groups' = [groups EXCEPT ![tag] = new] /\ failed' = failed
      BY <1>10, <2>6 DEF AddSearchPath
    <3>2. groups[tag] \in Seq(DOMAIN Files) /\ dir \in DOMAIN Files
      BY <2>3, <2>4, <2>6 DEF IsDirectory
    <3>3. new \in Seq(DOMAIN Files)
      <4> DEFINE old == groups[tag]
      <4>1. old \in Seq(DOMAIN Files) /\ dir \in DOMAIN Files /\ new \in {Append(old, dir), <<dir>> \o old}
        BY <3>1, <3>2
      <4> HIDE DEF tag, dir, old
      <4>2. Append(old, dir) \in Seq(DOMAIN Files)
        BY <4>1
      <4>3. <<dir>> \in Seq(DOMAIN Files)
        BY <4>1
      <4>4. <<dir>> \o old \in Seq(DOMAIN Files)
        BY <4>1, <4>3
      <4> QED BY <4>1, <4>2, <4>4
    <3>4. GroupTypes'
      BY <2>3, <2>4, <3>1, <3>3 DEF GroupTypes
    <3> QED BY <2>1, <2>2, <3>4, <1>c, <1>e
  <2> QED BY <2>5, <2>6
<1>11. CASE Return(t)
  <2>1. call' \in [Threads -> Calls]
    BY <1>11, <1>e DEF Return, NoCall, Calls, Places, AllTags, AllPaths, AllDirs
  <2>2. result' \in [Threads -> Results]
    <3>1. NoResult \in Results
      BY NoResultType
    <3> HIDE DEF NoResult
    <3> QED BY <1>11, <3>1, <1>e DEF Return
  <2>3. UNCHANGED <<groups, failed, calls>> /\ readers' \in [Threads -> 0..2]
        /\ writer' \in Threads \cup {NoThread}
    BY <1>11, <1>e DEF Return
  <2> QED BY <2>1, <2>2, <2>3, <1>b, <1>c, <1>e
<1> QED BY <1>1, <1>2, <1>3, <1>4, <1>5, <1>6, <1>7, <1>8, <1>9, <1>10, <1>11 DEF Step
-----------------------------------------------------------------------------
(* The mutex, and where the calls are. *)

Act(t) == CallRead(t) \/ CallWrite(t) \/ Step(t)

\* A thread's steps leave the calls of the others alone.
LEMMA OthersStay ==
    ASSUME Types, NEW t \in Threads, Act(t), NEW u \in Threads, u /= t
    PROVE  call'[u] = call[u] /\ result'[u] = result[u] /\ readers'[u] = readers[u]
<1>1. call'[u] = call[u]
  BY DEF Types, Act, CallRead, CallWrite, Step, LockShared, LockAgain, FindGroup, SearchFile,
     NoFile, ListDirectory, FindOrAddGroup, AddSearchPath, Return, Moves, Finds
<1>2. result'[u] = result[u]
  BY DEF Types, Act, CallRead, CallWrite, Step, LockShared, LockAgain, FindGroup, SearchFile,
     NoFile, ListDirectory, FindOrAddGroup, AddSearchPath, Return, Finds
<1>3. readers'[u] = readers[u]
  BY DEF Types, Act, CallRead, CallWrite, Step, LockShared, LockAgain, FindGroup, SearchFile,
     NoFile, ListDirectory, FindOrAddGroup, AddSearchPath, Return
<1> QED BY <1>1, <1>2, <1>3

\* What a step does to the thread's own place, locks and result.
Begins(t) ==
    /\ call[t].at = "idle" /\ call'[t].at \in {"lock", "lockToThrow", "throw"}
    /\ call'[t].op \in Reads \cup Writes /\ (call'[t].at = "lockToThrow" => call'[t].op \in Reads)
    /\ (call'[t].op \in Writes => call'[t].tag \in Tags)
    /\ readers'[t] = readers[t] /\ writer' = writer /\ result'[t] = result[t]
    /\ UNCHANGED groups

Locks(t) ==
    /\ \/ call[t].at \in {"lock", "lockToThrow"} /\ call'[t].at \in {"throw", "lockAgain", "findGroup"}
       \/ call[t].at = "lockAgain" /\ call'[t].at = "findGroup"
    /\ call[t].op \in Reads /\ writer = NoThread
    /\ readers'[t] > 0 /\ writer' = writer /\ result'[t] = result[t]
    /\ call'[t].op = call[t].op /\ call'[t].tag = call[t].tag
    /\ UNCHANGED groups

Looks(t) ==
    /\ call[t].at \in {"findGroup", "search"} /\ call[t].op \in Reads
    /\ \/ call'[t].at = "search" /\ call[t].tag \in DOMAIN groups /\ result'[t].kind = result[t].kind
          /\ (call'[t].k = 1 \/ call'[t].k = call[t].k + 1)
       \/ call'[t].at = "done"
    /\ readers'[t] > 0 /\ writer' = writer
    /\ call'[t].op = call[t].op /\ call'[t].tag = call[t].tag
    /\ UNCHANGED groups

LocksAlone(t) ==
    /\ call[t].at = "lock" /\ call'[t].at = "add" /\ call[t].op \in Writes
    /\ writer = NoThread /\ writer' = t /\ \A u \in Threads : readers'[u] = 0
    /\ result'[t] = result[t]
    /\ call'[t].op = call[t].op /\ call'[t].tag = call[t].tag
    /\ DOMAIN groups' = DOMAIN groups \cup {call[t].tag}

Adds(t) ==
    /\ call[t].at = "add" /\ call'[t].at = "done"
    /\ UNCHANGED <<readers, writer>> /\ result'[t] = result[t]
    /\ call'[t].op = call[t].op /\ call'[t].tag = call[t].tag
    /\ DOMAIN groups' = DOMAIN groups

Returns(t) ==
    /\ call[t].at \in {"done", "throw"}
    /\ call'[t] = NoCall /\ result'[t] = NoResult /\ readers'[t] = 0
    /\ writer' = IF writer = t THEN NoThread ELSE writer
    /\ UNCHANGED groups

LEMMA StepShapes ==
    ASSUME Types, MutexInv, CallInv, NEW t \in Threads, Act(t)
    PROVE  Begins(t) \/ Locks(t) \/ Looks(t) \/ LocksAlone(t) \/ Adds(t) \/ Returns(t)
<1>a. call[t] \in Calls /\ result[t] \in Results /\ t \in DOMAIN call /\ t \in DOMAIN result
      /\ readers \in [Threads -> 0..2] /\ call \in [Threads -> Calls]
  BY DEF Types
<1>1. CASE CallRead(t)
  <2>1. PICK op \in Reads, name \in Names :
          LET parsed == ParseVirtualName(name)
              wrong == ~parsed.valid \/ (op = "getFilePath" /\ parsed.path = <<>>) IN
          call' = [call EXCEPT ![t] =
             [NoCall EXCEPT !.op = op, !.tag = parsed.tag, !.path = parsed.path,
                            !.at = IF ~wrong THEN "lock"
                                   ELSE IF op = "findExistingFile" THEN "throw" ELSE "lockToThrow"]]
    BY <1>1 DEF CallRead
  <2>2. call'[t].op = op /\ call'[t].at \in {"lock", "lockToThrow", "throw"}
    BY <2>1, <1>a DEF NoCall
  <2>3. op \notin Writes
    BY DEF Reads, Writes
  <2>4. call[t].at = "idle" /\ UNCHANGED <<groups, readers, writer, result>>
    BY <1>1 DEF CallRead, NoCall
  <2> QED BY <2>2, <2>3, <2>4 DEF Begins
<1>2. CASE CallWrite(t)
  <2>1. PICK op \in Writes, tag \in Tags, dir \in Dirs :
          call' = [call EXCEPT ![t] = [NoCall EXCEPT !.op = op, !.tag = tag, !.dir = dir, !.at = "lock"]]
    BY <1>2 DEF CallWrite
  <2>2. call'[t].op = op /\ call'[t].at = "lock" /\ call'[t].tag = tag
    BY <2>1, <1>a DEF NoCall
  <2>4. call[t].at = "idle" /\ UNCHANGED <<groups, readers, writer, result>>
    BY <1>2 DEF CallWrite, NoCall
  <2> QED BY <2>2, <2>4 DEF Begins
<1>3. CASE LockShared(t)
  <2>1. call'[t].at \in {"throw", "lockAgain", "findGroup"} /\ call'[t].op = call[t].op
        /\ call'[t].tag = call[t].tag
    BY <1>3, <1>a DEF LockShared, Moves, Calls
  <2> QED BY <1>3, <1>a, <2>1 DEF LockShared, Locks, SharedFree
<1>4. CASE LockAgain(t)
  <2>1. call'[t].at = "findGroup" /\ call'[t].op = call[t].op /\ call'[t].tag = call[t].tag
    BY <1>4, <1>a DEF LockAgain, Moves, Calls
  <2>2. call[t].op \in Reads
    BY <1>4 DEF LockAgain, CallInv
  <2> QED BY <1>4, <1>a, <2>1, <2>2 DEF LockAgain, Locks, SharedFree
<1>5. CASE FindGroup(t)
  <2>1. call[t].op \in Reads /\ readers[t] > 0
    BY <1>5 DEF FindGroup, CallInv, MutexInv
  <2>2. CASE call[t].tag \in DOMAIN groups
    <3>1. call' = [call EXCEPT ![t].at = "search", ![t].k = 1] /\ result' = result
      BY <1>5, <2>2 DEF FindGroup
    <3>2. call'[t].at = "search" /\ call'[t].k = 1 /\ call'[t].op = call[t].op
          /\ call'[t].tag = call[t].tag
      BY <3>1, <1>a, CallSearches
    <3> QED BY <1>5, <2>1, <2>2, <3>1, <3>2 DEF FindGroup, Looks
  <2>3. CASE call[t].tag \notin DOMAIN groups
    <3>1. call'[t].at = "done" /\ call'[t].op = call[t].op /\ call'[t].tag = call[t].tag
      BY <1>5, <2>3, <1>a DEF FindGroup, Calls, Finds, Moves
    <3> QED BY <1>5, <2>1, <3>1 DEF FindGroup, Looks
  <2> QED BY <2>2, <2>3
<1>6. ASSUME SearchFile(t) \/ NoFile(t) \/ ListDirectory(t) PROVE Looks(t)
  <2>1. call[t].at = "search" /\ call[t].op \in Reads /\ readers[t] > 0 /\ call[t].tag \in DOMAIN groups
    BY <1>6 DEF SearchFile, NoFile, ListDirectory, CallInv, MutexInv
  <2>2. /\ \/ call'[t].at = "search" /\ result'[t].kind = result[t].kind /\ call'[t].k = call[t].k + 1
           \/ call'[t].at = "done"
        /\ call'[t].op = call[t].op /\ call'[t].tag = call[t].tag
    <3>1. \/ \E dir : call' = [call EXCEPT ![t].dir = dir, ![t].at = "done"]
          \/ Moves(t, "done")
          \/ /\ call' = [call EXCEPT ![t].k = call[t].k + 1]
             /\ result'[t].kind = result[t].kind
      <4>1. CASE SearchFile(t)
        BY <4>1, <1>a DEF SearchFile
      <4>2. CASE NoFile(t)
        BY <4>2 DEF NoFile, Finds
      <4>3. CASE ListDirectory(t)
        <5> DEFINE paths == groups[call[t].tag]
                   new == NewEntries(result[t].entries, paths[call[t].k], call[t].path)
        <5>1. \/ Moves(t, "done")
              \/ /\ call' = [call EXCEPT ![t].k = call[t].k + 1]
                 /\ \/ result' = [result EXCEPT ![t].entries = new]
                    \/ result' = result
          BY <4>3, ListDirectoryCases DEF Finds
        <5> HIDE DEF new
        <5> QED BY <5>1, <1>a DEF Results
      <4> QED BY <1>6, <4>1, <4>2, <4>3
    <3>2. CASE \E dir : call' = [call EXCEPT ![t].dir = dir, ![t].at = "done"]
      BY <3>2, <1>a, CallFinds, Zenon
    <3>3. CASE Moves(t, "done")
      BY <3>3, <1>a, CallEnds
    <3>4. CASE /\ call' = [call EXCEPT ![t].k = call[t].k + 1]
               /\ result'[t].kind = result[t].kind
      BY <3>4, <1>a, <2>1, CallGoesOn
    <3> QED BY <3>1, <3>2, <3>3, <3>4
  <2>3. readers'[t] > 0 /\ UNCHANGED <<writer, groups>>
    <3>1. /\ UNCHANGED <<writer, groups>>
          /\ readers' = readers \/ readers' = [readers EXCEPT ![t] = 1]
      BY <1>6 DEF SearchFile, NoFile, ListDirectory
    <3> QED BY <3>1, <1>a, <2>1
  <2> QED BY <2>1, <2>2, <2>3 DEF Looks
<1>7. CASE FindOrAddGroup(t)
  <2>1. call'[t].at = "add" /\ call'[t].op = call[t].op /\ call'[t].tag = call[t].tag
    BY <1>7, <1>a DEF FindOrAddGroup, Moves, Calls
  <2>2. DOMAIN groups' = DOMAIN groups \cup {call[t].tag}
    BY <1>7 DEF FindOrAddGroup
  <2> QED BY <1>7, <2>1, <2>2 DEF FindOrAddGroup, LocksAlone, AloneFree
<1>8. CASE AddSearchPath(t)
  <2>1. call'[t].at = "done" /\ call'[t].op = call[t].op /\ call'[t].tag = call[t].tag
    BY <1>8, <1>a DEF AddSearchPath, Moves, Calls
  <2>2. DOMAIN groups' = DOMAIN groups
    BY <1>8 DEF AddSearchPath
  <2> QED BY <1>8, <2>1, <2>2 DEF AddSearchPath, Adds
<1>9. CASE Return(t)
  BY <1>9, <1>a DEF Return, Returns
<1> QED BY <1>1, <1>2, <1>3, <1>4, <1>5, <1>6, <1>7, <1>8, <1>9 DEF Act, Step

LEMMA MutexSteps ==
    ASSUME NoThread \notin Threads, Types, MutexInv, CallInv, [Next]_fsVars
    PROVE  MutexInv' /\ CallInv'
<1>0. CASE UNCHANGED fsVars
  BY <1>0 DEF fsVars, MutexInv, CallInv
<1> SUFFICES ASSUME NEW t \in Threads, Act(t) PROVE MutexInv' /\ CallInv'
  BY <1>0 DEF Next, Act
<1>a. \A u \in Threads \ {t} :
        call'[u] = call[u] /\ result'[u] = result[u] /\ readers'[u] = readers[u]
  BY OthersStay
<1>b. readers \in [Threads -> 0..2]
  BY DEF Types
<1>c. call[t].k \in Nat /\ (call[t].k + 1 \in Nat \ {0})
  BY DEF Types, Calls
<1>1. CASE Begins(t)
  <2>1. MutexInv'
    BY <1>1, <1>a DEF MutexInv, Begins
  <2>2. CallInv'
    BY <1>1, <1>a DEF CallInv, Begins
  <2> QED BY <2>1, <2>2
<1>2. CASE Locks(t)
  <2>1. MutexInv'
    BY <1>2, <1>a DEF MutexInv, CallInv, Locks, NoResult
  <2>2. CallInv'
    BY <1>2, <1>a DEF CallInv, Locks
  <2> QED BY <2>1, <2>2
<1>3. CASE Looks(t)
  <2>1. MutexInv'
    BY <1>3, <1>a DEF MutexInv, CallInv, Looks
  <2>2. CallInv'
    BY <1>3, <1>a, <1>c DEF CallInv, Looks
  <2> QED BY <2>1, <2>2
<1>4. CASE LocksAlone(t)
  <2>1. MutexInv'
    BY <1>4, <1>a DEF MutexInv, LocksAlone
  <2>2. CallInv'
    BY <1>4, <1>a DEF CallInv, LocksAlone
  <2> QED BY <2>1, <2>2
<1>5. CASE Adds(t)
  <2>1. MutexInv'
    BY <1>5, <1>a DEF MutexInv, Adds
  <2>2. CallInv'
    BY <1>5, <1>a DEF CallInv, Adds
  <2> QED BY <2>1, <2>2
<1>6. CASE Returns(t)
  <2>1. MutexInv'
    BY <1>6, <1>a, <1>b DEF MutexInv, Returns, NoCall, NoResult
  <2>2. CallInv'
    BY <1>6, <1>a DEF CallInv, Returns, NoCall, Writes
  <2> QED BY <2>1, <2>2
<1> QED BY <1>1, <1>2, <1>3, <1>4, <1>5, <1>6, StepShapes
-----------------------------------------------------------------------------
(* Groups without paths. *)

LEMMA FailedStays ==
    ASSUME [Next]_fsVars
    PROVE  failed \subseteq failed'
BY DEF Next, fsVars, CallRead, CallWrite, Step, LockShared, LockAgain, FindGroup, SearchFile,
   NoFile, ListDirectory, FindOrAddGroup, AddSearchPath, Return

LEMMA EmptySteps ==
    ASSUME Types, MutexInv, CallInv, EmptyInv, [Next]_fsVars
    PROVE  EmptyInv'
<1>0. CASE UNCHANGED fsVars
  BY <1>0 DEF fsVars, EmptyInv
<1> SUFFICES ASSUME NEW t \in Threads, Act(t) PROVE EmptyInv'
  BY <1>0 DEF Next, Act
<1>a. /\ \A u \in Threads \ {t} : call'[u] = call[u]
      /\ failed \subseteq failed'
  BY OthersStay, FailedStays DEF Act, Next
<1>1. ASSUME groups' = groups, call[t].at /= "add" PROVE EmptyInv'
  BY <1>1, <1>a DEF EmptyInv
<1>2. CASE FindOrAddGroup(t)
  <2>1. call'[t].at = "add" /\ call'[t].tag = call[t].tag /\ call[t].at /= "add"
    BY <1>2 DEF FindOrAddGroup, Moves, Types, Calls
  <2>2. \A g \in DOMAIN groups' \ {call[t].tag} : g \in DOMAIN groups /\ groups'[g] = groups[g]
    BY <1>2 DEF FindOrAddGroup
  <2>3. ASSUME NEW g \in DOMAIN groups', groups'[g] = <<>>
        PROVE  g \in failed' \/ \E u \in Threads : call'[u].at = "add" /\ call'[u].tag = g
    <3>1. CASE g = call[t].tag
      BY <2>1, <3>1
    <3>2. CASE g /= call[t].tag
      BY <2>1, <2>2, <2>3, <3>2, <1>a DEF EmptyInv
    <3> QED BY <3>1, <3>2
  <2> QED BY <2>3 DEF EmptyInv
<1>3. CASE AddSearchPath(t)
  <2> DEFINE tag == call[t].tag
  <2>1. tag \in DOMAIN groups /\ call[t].at = "add"
    BY <1>3 DEF AddSearchPath, CallInv
  <2>2. tag \in failed' \/ groups'[tag] /= <<>>
    <3>1. CASE ~ IsDirectory(call[t].dir)
      BY <1>3, <3>1 DEF AddSearchPath
    <3>2. CASE IsDirectory(call[t].dir)
      <4> DEFINE old == groups[tag]
                 dir == call[t].dir
      <4>1. groups'[tag] \in {Append(old, dir), <<dir>> \o old} /\ old \in Seq(DOMAIN Files)
            /\ dir \in DOMAIN Files
        BY <1>3, <2>1, <3>2 DEF AddSearchPath, Types, GroupTypes, IsDirectory
      <4> HIDE DEF old, dir, tag
      <4>2. Append(old, dir) /= <<>> /\ <<dir>> \o old /= <<>>
        BY <4>1
      <4> QED BY <4>1, <4>2
    <3> QED BY <3>1, <3>2
  <2>3. DOMAIN groups' = DOMAIN groups /\ \A g \in DOMAIN groups \ {tag} : groups'[g] = groups[g]
    BY <1>3 DEF AddSearchPath
  <2>4. \A u \in Threads : call[u].at = "add" => u = t
    BY <2>1 DEF MutexInv
  <2> HIDE DEF tag
  <2>5. ASSUME NEW g \in DOMAIN groups', groups'[g] = <<>> PROVE g \in failed'
    <3>1. CASE g = tag
      BY <2>2, <2>5, <3>1
    <3>2. CASE g /= tag
      BY <2>3, <2>4, <2>5, <3>2, <1>a DEF EmptyInv, tag
    <3> QED BY <3>1, <3>2
  <2> QED BY <2>5 DEF EmptyInv
<1>4. CASE ~ FindOrAddGroup(t) /\ ~ AddSearchPath(t)
  <2>1. groups' = groups
    BY <1>4 DEF Act, CallRead, CallWrite, Step, LockShared, LockAgain, FindGroup, SearchFile,
       NoFile, ListDirectory, Return
  <2>2. CASE CallRead(t) \/ CallWrite(t)
    <3>1. call[t] = NoCall
      BY <2>2 DEF CallRead, CallWrite
    <3>2. call[t].at /= "add"
      BY <3>1 DEF NoCall
    <3> QED BY <2>1, <3>2, <1>1
  <2>3. CASE Step(t)
    <3>1. call[t].at /= "add"
      BY <1>4, <2>3 DEF Step, LockShared, LockAgain, FindGroup, SearchFile, NoFile, ListDirectory, Return
    <3> QED BY <2>1, <3>1, <1>1
  <2> QED BY <2>2, <2>3 DEF Act
<1> QED BY <1>2, <1>3, <1>4
-----------------------------------------------------------------------------
(* The lookups. *)

\* The next search path: its entries come after those that there are, or there are none.
LEMMA NextEntries ==
    ASSUME NEW paths \in Seq(DOMAIN Files), NEW k \in 1..Len(paths), NEW path, NEW entries,
           EntriesOf(entries, paths, path, k - 1)
    PROVE  IF path \in Subdirs(paths[k])
           THEN EntriesOf([n \in DOMAIN entries \cup Listing[paths[k]][path] |->
                              IF n \in DOMAIN entries THEN entries[n] ELSE paths[k]], paths, path, k)
           ELSE EntriesOf(entries, paths, path, k)
<1>1. \A j \in Nat : j \in 1..k <=> j \in 1..(k - 1) \/ j = k
  OBVIOUS
<1>2. paths[k] \in DOMAIN Files
  OBVIOUS
<1>3. DOMAIN entries = {name \in AllEntries : \E j \in 1..(k - 1) : Has(paths[j], path, name)}
  BY DEF EntriesOf
<1>4. \A name \in DOMAIN entries : \E j \in 1..(k - 1) :
         /\ entries[name] = paths[j] /\ Has(paths[j], path, name)
         /\ \A i \in 1..(j - 1) : ~ Has(paths[i], path, name)
  BY DEF EntriesOf
<1>5. \A j \in 1..(k - 1) : j \in 1..k
  OBVIOUS
<1>6. CASE path \in Subdirs(paths[k])
  <2> DEFINE listed == Listing[paths[k]][path]
             new == [n \in DOMAIN entries \cup listed |->
                        IF n \in DOMAIN entries THEN entries[n] ELSE paths[k]]
  <2>1. listed \subseteq AllEntries
    BY <1>2, <1>6 DEF AllEntries
  <2>2. \A name : Has(paths[k], path, name) <=> name \in listed
    BY <1>6 DEF Has
  <2>3. DOMAIN new = DOMAIN entries \cup listed
    OBVIOUS
  <2>4. DOMAIN new = {name \in AllEntries : \E j \in 1..k : Has(paths[j], path, name)}
    <3> HIDE DEF new, listed
    <3>1. ASSUME NEW name \in AllEntries
          PROVE  name \in DOMAIN new <=> \E j \in 1..k : Has(paths[j], path, name)
      BY <1>1, <1>3, <2>2, <2>3
    <3> QED BY <2>1, <2>3, <3>1, <1>3
  <2>5. ASSUME NEW name \in DOMAIN new
        PROVE  \E j \in 1..k : /\ new[name] = paths[j] /\ Has(paths[j], path, name)
                               /\ \A i \in 1..(j - 1) : ~ Has(paths[i], path, name)
    <3>1. CASE name \in DOMAIN entries
      <4>1. new[name] = entries[name]
        BY <3>1
      <4> HIDE DEF new
      <4> QED BY <1>4, <1>5, <3>1, <4>1
    <3>2. CASE name \notin DOMAIN entries
      <4>1. new[name] = paths[k] /\ name \in listed
        BY <3>2
      <4> HIDE DEF new, listed
      <4>2. name \in AllEntries /\ k \in 1..k
        BY <2>1, <4>1
      <4>3. \A i \in 1..(k - 1) : ~ Has(paths[i], path, name)
        BY <1>3, <3>2, <4>2
      <4> QED BY <2>2, <4>1, <4>2, <4>3
    <3> QED BY <3>1, <3>2
  <2> HIDE DEF new
  <2>6. EntriesOf(new, paths, path, k)
    BY <2>4, <2>5 DEF EntriesOf
  <2> QED BY <1>6, <2>6 DEF new
<1>7. CASE path \notin Subdirs(paths[k])
  <2>1. \A name : ~ Has(paths[k], path, name)
    BY <1>7 DEF Has
  <2>2. DOMAIN entries = {name \in AllEntries : \E j \in 1..k : Has(paths[j], path, name)}
    BY <1>1, <1>3, <2>1
  <2>3. EntriesOf(entries, paths, path, k)
    BY <1>4, <1>5, <2>2 DEF EntriesOf
  <2> QED BY <1>7, <2>3
<1> QED BY <1>6, <1>7

\* While a thread looks, nobody changes what it looks at.
LEMMA GroupsStay ==
    ASSUME NoThread \notin Threads, Types, MutexInv, CallInv, NEW t \in Threads, Act(t),
           NEW u \in Threads, u /= t, readers[u] > 0
    PROVE  groups' = groups
<1>1. writer = NoThread /\ readers'[u] = readers[u] /\ readers[u] \in Nat
  BY OthersStay DEF MutexInv, Types
<1>2. ~ LocksAlone(t)
  BY <1>1 DEF LocksAlone
<1>3. ~ Adds(t)
  BY <1>1 DEF Adds, MutexInv
<1> QED BY <1>2, <1>3, StepShapes DEF Begins, Locks, Looks, Returns

\* A step of the thread itself that neither goes on searching nor finds anything.
LEMMA NothingFound ==
    ASSUME NEW t \in Threads, call'[t].at /= "search", result'[t].kind = "none"
    PROVE  Searching(t)' /\ Right(t)'
<1>1. Searching(t)'
  BY DEF Searching
<1>2. Right(t)'
  BY DEF Right
<1> QED BY <1>1, <1>2

LEMMA LookupSteps ==
    ASSUME NoThread \notin Threads, Types, MutexInv, CallInv, EmptyInv, LookupInv, [Next]_fsVars
    PROVE  LookupInv'
<1>0. CASE UNCHANGED fsVars
  BY <1>0 DEF fsVars, LookupInv, Searching, Right, Paths
<1> SUFFICES ASSUME NEW t \in Threads, Act(t) PROVE LookupInv'
  BY <1>0 DEF Next, Act
<1>1. ASSUME NEW u \in Threads, u /= t PROVE Searching(u)' /\ Right(u)'
  <2>1. call'[u] = call[u] /\ result'[u] = result[u] /\ failed \subseteq failed'
    BY <1>1, OthersStay, FailedStays DEF Act, Next
  <2>2. CASE readers[u] > 0
    <3>1. groups' = groups
      BY <1>1, <2>2, GroupsStay
    <3>2. Searching(u)'
      BY <2>1, <3>1 DEF LookupInv, Searching
    <3>3. Right(u)'
      BY <2>1, <3>1 DEF LookupInv, Right, Paths
    <3> QED BY <3>2, <3>3
  <2>3. CASE ~ (readers[u] > 0)
    <3>1. call[u].at /= "search" /\ result[u].kind = "none"
      BY <2>3 DEF MutexInv
    <3> QED BY <2>1, <3>1, NothingFound
  <2> QED BY <2>2, <2>3
<1>a. call \in [Threads -> Calls] /\ result \in [Threads -> Results]
      /\ call[t] \in Calls /\ result[t] \in Results
  BY DEF Types
<1>b. MutexInv' /\ CallInv'
  <2>1. [Next]_fsVars
    BY DEF Next, Act
  <2> QED BY <2>1, MutexSteps
<1>c. Searching(t) /\ Right(t)
  BY DEF LookupInv
<1>d. ASSUME call[t].at \in {"findGroup", "search"}
      PROVE  result[t].kind = "none" /\ writer = NoThread
  BY <1>d DEF MutexInv
<1>2. ASSUME Begins(t) \/ Locks(t) \/ LocksAlone(t) \/ Adds(t) \/ Returns(t)
      PROVE  Searching(t)' /\ Right(t)'
  <2>1. call'[t].at /= "search"
    BY <1>2 DEF Begins, Locks, LocksAlone, Adds, Returns, NoCall
  <2>2. result'[t].kind = "none"
    <3>1. CASE Returns(t)
      BY <3>1 DEF Returns, NoResult
    <3>2. CASE ~ Returns(t)
      BY <1>2, <3>2 DEF Begins, Locks, LocksAlone, Adds, MutexInv
    <3> QED BY <3>1, <3>2
  <2> QED BY <2>1, <2>2, NothingFound
<1>3. ASSUME FindGroup(t) PROVE Searching(t)' /\ Right(t)'
  <2>0. call[t].at = "findGroup" /\ groups' = groups
    BY <1>3 DEF FindGroup
  <2>1. CASE call[t].tag \in DOMAIN groups
    <3>1. /\ call'[t].at = "search" /\ call'[t].k = 1 /\ call'[t].tag = call[t].tag
          /\ result'[t] = NoResult
      BY <1>3, <2>0, <2>1, <1>a DEF FindGroup, Calls, CallInv
    <3>2. Right(t)'
      BY <3>1 DEF Right, NoResult
    <3> DEFINE paths == groups[call[t].tag]
               path == call'[t].path
    <3>3. paths \in Seq(DOMAIN Files)
      BY <2>1 DEF Types, GroupTypes
    <3>4. EntriesOf(NoResult.entries, paths, path, 0)
      <4>1. DOMAIN NoResult.entries = {} /\ \A j : j \notin 1..0
        BY DEF NoResult
      <4> QED BY <4>1 DEF EntriesOf
    <3>5. NoneHas(paths, path, 0) /\ 1 <= Len(paths) + 1
      BY <3>3 DEF NoneHas
    <3>6. groups'[call'[t].tag] = paths /\ result'[t].entries = NoResult.entries /\ call'[t].k - 1 = 0
      BY <3>1, <2>0
    <3> HIDE DEF paths, path
    <3>7. Searching(t)'
      BY <3>1, <3>4, <3>5, <3>6 DEF Searching, path
    <3> QED BY <3>2, <3>7
  <2>2. CASE call[t].tag \notin DOMAIN groups
    <3>1. call'[t].at = "done" /\ result'[t].kind = "noGroup" /\ call'[t].tag = call[t].tag
      BY <1>3, <2>2, <1>a DEF FindGroup, Finds, Moves, Calls, Results
    <3> QED BY <2>0, <2>2, <3>1 DEF Searching, Right
  <2> QED BY <2>1, <2>2
<1>4. ASSUME call[t].at = "search", UNCHANGED groups,
             call'[t].tag = call[t].tag, call'[t].path = call[t].path, call'[t].op = call[t].op,
             NEW paths, paths = groups[call[t].tag], NEW path, path = call[t].path
      PROVE  /\ paths \in Seq(DOMAIN Files) /\ Paths(t)' = paths /\ groups'[call'[t].tag] = paths
             /\ call'[t].path = path
             /\ call[t].k \in 1..(Len(paths) + 1)
             /\ call[t].op \in FileReads => NoneHas(paths, path, call[t].k - 1)
             /\ call[t].op \in DirReads => EntriesOf(result[t].entries, paths, path, call[t].k - 1)
  <2>1. call[t].tag \in DOMAIN groups /\ call[t].k \in Nat \ {0}
    BY <1>4 DEF CallInv
  <2>2. paths \in Seq(DOMAIN Files) /\ Paths(t)' = paths /\ groups'[call'[t].tag] = paths
    BY <1>4, <2>1 DEF Types, GroupTypes, Paths
  <2>3. call[t].k <= Len(paths) + 1
    BY <1>4, <1>c DEF Searching
  <2>4. /\ call[t].op \in FileReads => NoneHas(paths, path, call[t].k - 1)
        /\ call[t].op \in DirReads => EntriesOf(result[t].entries, paths, path, call[t].k - 1)
    BY <1>4, <1>c DEF Searching
  <2> QED BY <2>1, <2>2, <2>3, <2>4, <1>4
<1>5. ASSUME SearchFile(t) PROVE Searching(t)' /\ Right(t)'
  <2> DEFINE paths == groups[call[t].tag]
             path == call[t].path
             k == call[t].k
  <2>0. call[t].at = "search" /\ call[t].op \in FileReads /\ k <= Len(paths) /\ groups' = groups
    BY <1>5 DEF SearchFile, FileReads
  <2>1. CASE Exists(paths[k], path)
    <3>1. /\ call'[t].at = "done" /\ call'[t].dir = paths[k] /\ result'[t].kind = "found"
          /\ call'[t].tag = call[t].tag /\ call'[t].path = path /\ call'[t].op = call[t].op
      <4>1. call' = [call EXCEPT ![t].dir = paths[k], ![t].at = "done"]
            /\ result' = [result EXCEPT ![t].kind = "found"]
        BY <1>5, <2>1 DEF SearchFile
      <4> HIDE DEF paths, k
      <4> QED BY <4>1, <1>a DEF Calls, Results
    <3>2. /\ paths \in Seq(DOMAIN Files) /\ Paths(t)' = paths
          /\ k \in 1..(Len(paths) + 1) /\ NoneHas(paths, path, k - 1)
      BY <1>4, <2>0, <3>1
    <3>3. k \in 1..Len(paths)
      BY <2>0, <3>2
    <3> HIDE DEF paths, path, k
    <3>4. Right(t)'
      BY <2>1, <3>1, <3>2, <3>3 DEF Right
    <3> QED BY <3>1, <3>4 DEF Searching
  <2>2. CASE ~ Exists(paths[k], path)
    <3>1. /\ call'[t].at = "search" /\ call'[t].k = k + 1 /\ result' = result
          /\ call'[t].tag = call[t].tag /\ call'[t].path = path /\ call'[t].op = call[t].op
      BY <1>5, <2>0, <2>2, <1>a DEF SearchFile, Calls
    <3>2. /\ paths \in Seq(DOMAIN Files) /\ groups'[call'[t].tag] = paths
          /\ k \in 1..(Len(paths) + 1) /\ NoneHas(paths, path, k - 1)
      BY <1>4, <2>0, <3>1
    <3>3. call[t].op \notin DirReads /\ Len(paths) \in Nat
      BY <2>0, <3>2 DEF FileReads, DirReads
    <3> HIDE DEF paths, path, k
    <3>4. NoneHas(paths, path, k) /\ k + 1 <= Len(paths) + 1 /\ k = (k + 1) - 1
      BY <2>0, <2>2, <3>2, <3>3 DEF NoneHas
    <3>5. Searching(t)'
      BY <3>1, <3>2, <3>3, <3>4 DEF Searching
    <3>6. Right(t)'
      BY <2>0, <3>1, <1>d DEF Right
    <3> QED BY <3>5, <3>6
  <2> QED BY <2>1, <2>2
<1>6. ASSUME NoFile(t) PROVE Searching(t)' /\ Right(t)'
  <2> DEFINE paths == groups[call[t].tag]
             path == call[t].path
             k == call[t].k
  <2>0. call[t].at = "search" /\ call[t].op \in FileReads /\ k > Len(paths) /\ groups' = groups
        /\ failed' = failed
    BY <1>6 DEF NoFile, FileReads
  <2>1. /\ call'[t].at = "done" /\ call'[t].tag = call[t].tag /\ call'[t].path = path
        /\ call'[t].op = call[t].op
        /\ \/ result'[t].kind = "nothing"
           \/ result'[t].kind = "emptyGroup" /\ paths = <<>>
           \/ result'[t].kind = "new" /\ call'[t].dir = paths[1]
    <3>1. CASE call[t].op = "findExistingFile" \/ paths = <<>>
      <4>1. \/ Finds(t, "nothing")
            \/ Finds(t, "emptyGroup") /\ paths = <<>>
        BY <1>6, <3>1 DEF NoFile
      <4> HIDE DEF paths
      <4> QED BY <4>1, <1>a DEF Finds, Moves, Calls, Results
    <3>2. CASE call[t].op /= "findExistingFile" /\ paths /= <<>>
      <4>1. call' = [call EXCEPT ![t].dir = paths[1], ![t].at = "done"]
            /\ result' = [result EXCEPT ![t].kind = "new"]
        BY <1>6, <3>2 DEF NoFile
      <4> HIDE DEF paths
      <4> QED BY <4>1, <1>a DEF Calls, Results
    <3> QED BY <3>1, <3>2
  <2>2. /\ paths \in Seq(DOMAIN Files) /\ Paths(t)' = paths
        /\ k \in 1..(Len(paths) + 1) /\ NoneHas(paths, path, k - 1)
    BY <1>4, <2>0, <2>1
  <2>3. call[t].tag \in DOMAIN groups
    BY <2>0 DEF CallInv
  <2>4. ASSUME paths = <<>> PROVE call[t].tag \in failed
    <3>1. \A u \in Threads : call[u].at /= "add"
      BY <2>0, <1>d DEF MutexInv
    <3> QED BY <2>3, <2>4, <3>1 DEF EmptyInv
  <2> HIDE DEF paths, path, k
  <2>5. k - 1 = Len(paths)
    BY <2>0, <2>2
  <2>6. NoneHas(paths, path, Len(paths))
    BY <2>2, <2>5
  <2>7. Right(t)'
    BY <2>0, <2>1, <2>2, <2>4, <2>6 DEF Right
  <2> QED BY <2>1, <2>7 DEF Searching
<1>7. ASSUME ListDirectory(t) PROVE Searching(t)' /\ Right(t)'
  <2> DEFINE paths == groups[call[t].tag]
             path == call[t].path
             k == call[t].k
             entries == result[t].entries
             new == NewEntries(entries, paths[k], path)
  <2>0. call[t].at = "search" /\ call[t].op \in DirReads /\ groups' = groups
    BY <1>7 DEF ListDirectory, DirReads
  <2>a. paths \in Seq(DOMAIN Files) /\ k \in Nat
    BY <2>0 DEF CallInv, Types, GroupTypes
  <2>1. CASE k > Len(paths)
    <3>1. /\ call'[t].at = "done" /\ result'[t].kind = "list" /\ result'[t].entries = entries
          /\ call'[t].tag = call[t].tag /\ call'[t].path = path /\ call'[t].op = call[t].op
      BY <1>7, <2>1, <1>a DEF ListDirectory, Finds, Moves, Calls, Results
    <3>2. /\ Paths(t)' = paths /\ k \in 1..(Len(paths) + 1) /\ EntriesOf(entries, paths, path, k - 1)
      BY <1>4, <2>0, <3>1
    <3> HIDE DEF paths, path, k, entries
    <3>3. k - 1 = Len(paths)
      BY <2>1, <2>a, <3>2
    <3>4. EntriesOf(entries, paths, path, Len(paths))
      BY <3>2, <3>3
    <3>5. Right(t)'
      BY <3>1, <3>2, <3>4 DEF Right
    <3> QED BY <3>1, <3>5 DEF Searching
  <2>2. ASSUME k <= Len(paths), call' = [call EXCEPT ![t].k = k + 1],
               NEW found, result'[t].entries = found, result'[t].kind = result[t].kind,
               EntriesOf(entries, paths, path, k - 1) =>  EntriesOf(found, paths, path, k)
        PROVE  Searching(t)' /\ Right(t)'
    <3>1. /\ call'[t].at = "search" /\ call'[t].k = k + 1
          /\ call'[t].tag = call[t].tag /\ call'[t].path = path /\ call'[t].op = call[t].op
      <4> HIDE DEF k
      <4> QED BY <2>0, <2>2, <1>a DEF Calls
    <3>2. /\ groups'[call'[t].tag] = paths /\ k \in 1..(Len(paths) + 1)
          /\ EntriesOf(entries, paths, path, k - 1)
      BY <1>4, <2>0, <3>1
    <3>3. EntriesOf(found, paths, path, k)
      BY <2>2, <3>2
    <3>4. call[t].op \notin FileReads
      BY <2>0 DEF FileReads, DirReads
    <3> HIDE DEF paths, path, k, entries
    <3>5. k + 1 <= Len(paths) + 1 /\ k = (k + 1) - 1
      BY <2>2, <2>a
    <3>6. Searching(t)'
      BY <2>2, <3>1, <3>2, <3>3, <3>4, <3>5 DEF Searching
    <3>7. Right(t)'
      BY <2>0, <2>2, <1>d DEF Right
    <3> QED BY <3>6, <3>7
  <2>3. ASSUME k <= Len(paths) PROVE k \in 1..Len(paths)
    BY <2>0, <2>3, <2>a DEF CallInv
  <2>4. CASE k <= Len(paths) /\ path \in Subdirs(paths[k])
    <3>1. call' = [call EXCEPT ![t].k = k + 1] /\ result' = [result EXCEPT ![t].entries = new]
      <4>1. ~(k > Len(paths))
        BY <2>4, <2>a
      <4> QED BY <1>7, <2>4, <4>1, ListDirectoryCases
    <3>2. EntriesOf(entries, paths, path, k - 1) => EntriesOf(new, paths, path, k)
      BY <2>3, <2>4, <2>a, NextEntries DEF NewEntries
    <3> HIDE DEF new
    <3>3. result'[t].entries = new /\ result'[t].kind = result[t].kind
      BY <3>1, <1>a DEF Results
    <3> QED BY <2>2, <2>4, <3>1, <3>2, <3>3
  <2>5. CASE k <= Len(paths) /\ path \notin Subdirs(paths[k]) /\ call[t].op = "getFileList"
    <3>1. Finds(t, "notAll")
      BY <1>7, <2>5, <2>a DEF ListDirectory
    <3>2. call'[t].at = "done" /\ result'[t].kind = "notAll"
      BY <3>1, <1>a DEF Finds, Moves, Calls, Results
    <3> QED BY <3>2 DEF Searching, Right
  <2>6. CASE k <= Len(paths) /\ path \notin Subdirs(paths[k]) /\ call[t].op /= "getFileList"
    <3>1. call' = [call EXCEPT ![t].k = k + 1] /\ result' = result
      BY <1>7, <2>6, <2>a DEF ListDirectory
    <3>2. EntriesOf(entries, paths, path, k - 1) => EntriesOf(entries, paths, path, k)
      BY <2>3, <2>6, <2>a, NextEntries
    <3> QED BY <2>2, <2>6, <3>1, <3>2
  <2>7. k <= Len(paths) \/ k > Len(paths)
    BY <2>a
  <2> QED BY <2>1, <2>4, <2>5, <2>6, <2>7
<1>8. Begins(t) \/ Locks(t) \/ LocksAlone(t) \/ Adds(t) \/ Returns(t)
        \/ FindGroup(t) \/ SearchFile(t) \/ NoFile(t) \/ ListDirectory(t)
  <2>1. CASE Looks(t)
    <3>1. call[t].at \in {"findGroup", "search"}
      BY <2>1 DEF Looks
    <3>2. ~ CallRead(t) /\ ~ CallWrite(t)
      <4>1. call[t] /= NoCall
        BY <3>1 DEF NoCall
      <4> QED BY <4>1 DEF CallRead, CallWrite
    <3>3. ~ LockShared(t) /\ ~ LockAgain(t) /\ ~ FindOrAddGroup(t) /\ ~ AddSearchPath(t) /\ ~ Return(t)
      BY <3>1 DEF LockShared, LockAgain, FindOrAddGroup, AddSearchPath, Return
    <3> QED BY <3>2, <3>3 DEF Act, Step
  <2> QED BY <2>1, StepShapes
<1>9. Searching(t)' /\ Right(t)'
  BY <1>2, <1>3, <1>5, <1>6, <1>7, <1>8
<1> QED BY <1>1, <1>9 DEF LookupInv
-----------------------------------------------------------------------------
(* What the invariant says of the lookups. *)

\* The first place of those that there are.
LEMMA LeastIsMin ==
    ASSUME NEW I \in SUBSET Nat, NEW i \in I, \A j \in I : i <= j
    PROVE  Min(I) = i
<1>1. \A m \in I : (\A j \in I : m <= j) => m = i
  OBVIOUS
<1> QED BY <1>1, Zenon DEF Min

LEMMA FirstFile ==
    ASSUME NEW paths \in Seq(DOMAIN Files), NEW path
    PROVE  /\ \A i \in 1..Len(paths) :
                Exists(paths[i], path) /\ NoneHas(paths, path, i - 1)
                  => FirstWith(paths, LAMBDA d : Exists(d, path)) = i
           /\ NoneHas(paths, path, Len(paths)) => FirstWith(paths, LAMBDA d : Exists(d, path)) = 0
<1> DEFINE I == {i \in 1..Len(paths) : Exists(paths[i], path)}
<1>1. FirstWith(paths, LAMBDA d : Exists(d, path)) = IF I /= {} THEN Min(I) ELSE 0
  BY DEF FirstWith, SelectInSeq
<1>2. ASSUME NEW i \in 1..Len(paths), Exists(paths[i], path), NoneHas(paths, path, i - 1) PROVE Min(I) = i
  <2>1. \A j \in I : i <= j
    BY <1>2 DEF NoneHas
  <2>2. i \in I /\ I \in SUBSET Nat
    BY <1>2
  <2> QED BY <2>1, <2>2, LeastIsMin
<1>3. ASSUME NoneHas(paths, path, Len(paths)) PROVE I = {}
  BY <1>3 DEF NoneHas
<1> QED BY <1>1, <1>2, <1>3

LEMMA FirstEntry ==
    ASSUME NEW paths \in Seq(DOMAIN Files), NEW path, NEW name, NEW i \in 1..Len(paths),
           Has(paths[i], path, name), \A j \in 1..(i - 1) : ~ Has(paths[j], path, name)
    PROVE  LET I == {j \in 1..Len(paths) : path \in Subdirs(paths[j]) /\ name \in Listing[paths[j]][path]} IN
           I /= {} /\ Min(I) = i
<1> DEFINE I == {j \in 1..Len(paths) : path \in Subdirs(paths[j]) /\ name \in Listing[paths[j]][path]}
<1>1. i \in I /\ I \in SUBSET Nat
  BY DEF Has
<1>2. \A j \in I : i <= j
  BY DEF Has
<1> HIDE DEF I
<1>3. I /= {} /\ Min(I) = i
  BY <1>1, <1>2, LeastIsMin
<1> QED BY <1>3 DEF I

LEMMA InvariantImpliesRight == IInv => LookupsRight
<1> SUFFICES ASSUME IInv, NEW t \in Threads PROVE
      LET paths == Paths(t)
          path == call[t].path
          first == FirstWith(paths, LAMBDA d : Exists(d, path))
          kind == result[t].kind
          entries == result[t].entries IN
      /\ kind = "found" => call[t].dir = paths[first]
      /\ kind = "new" => first = 0 /\ call[t].dir = paths[1]
      /\ kind = "nothing" => first = 0
      /\ kind = "noGroup" => call[t].tag \notin DOMAIN groups
      /\ kind = "emptyGroup" => paths = <<>> /\ call[t].tag \in failed
      /\ kind = "list" =>
           /\ DOMAIN entries = UNION {Listing[d][path] : d \in {e \in Range(paths) : path \in Subdirs(e)}}
           /\ \A n \in DOMAIN entries :
                entries[n] = paths[FirstWith(paths, LAMBDA d : path \in Subdirs(d) /\ n \in Listing[d][path])]
  BY DEF LookupsRight, Paths
<1> DEFINE paths == Paths(t)
           path == call[t].path
           first == FirstWith(paths, LAMBDA d : Exists(d, path))
           kind == result[t].kind
           entries == result[t].entries
<1>1. paths \in Seq(DOMAIN Files)
  <2>1. groups \in [DOMAIN groups -> Seq(DOMAIN Files)] /\ <<>> \in Seq(DOMAIN Files)
    BY DEF IInv, Types, GroupTypes
  <2> QED BY <2>1 DEF Paths
<1>2. Right(t)
  BY DEF IInv, LookupInv
<1>3. kind = "found" => call[t].dir = paths[first]
  BY <1>1, <1>2, FirstFile DEF Right
<1>4. kind \in {"new", "nothing"} => first = 0
  BY <1>1, <1>2, FirstFile DEF Right
<1>5. /\ kind = "new" => call[t].dir = paths[1]
      /\ kind = "noGroup" => call[t].tag \notin DOMAIN groups
      /\ kind = "emptyGroup" => paths = <<>> /\ call[t].tag \in failed
  BY <1>2 DEF Right
<1>6. ASSUME kind = "list"
      PROVE  /\ DOMAIN entries = UNION {Listing[d][path] : d \in {e \in Range(paths) : path \in Subdirs(e)}}
             /\ \A n \in DOMAIN entries :
                  entries[n] = paths[FirstWith(paths, LAMBDA d : path \in Subdirs(d) /\ n \in Listing[d][path])]
  <2>1. EntriesOf(entries, paths, path, Len(paths))
    BY <1>2, <1>6 DEF Right
  <2> HIDE DEF paths, path, entries
  <2>2. DOMAIN entries = {name \in AllEntries : \E j \in 1..Len(paths) : Has(paths[j], path, name)}
    BY <2>1 DEF EntriesOf
  <2>3. Range(paths) = {paths[j] : j \in 1..Len(paths)} /\ Range(paths) \subseteq DOMAIN Files
    BY <1>1 DEF Range
  <2>4. UNION {Listing[d][path] : d \in {e \in Range(paths) : path \in Subdirs(e)}}
          = {name \in AllEntries : \E j \in 1..Len(paths) : Has(paths[j], path, name)}
    <3>1. ASSUME NEW d \in Range(paths), path \in Subdirs(d), NEW name \in Listing[d][path]
          PROVE  name \in AllEntries /\ \E j \in 1..Len(paths) : Has(paths[j], path, name)
      BY <2>3, <3>1 DEF AllEntries, Has
    <3>2. ASSUME NEW name, NEW j \in 1..Len(paths), Has(paths[j], path, name)
          PROVE  \E d \in {e \in Range(paths) : path \in Subdirs(e)} : name \in Listing[d][path]
      BY <2>3, <3>2 DEF Has
    <3> QED BY <3>1, <3>2
  <2>5. ASSUME NEW n \in DOMAIN entries
        PROVE  entries[n] = paths[FirstWith(paths, LAMBDA d : path \in Subdirs(d) /\ n \in Listing[d][path])]
    <3>1. PICK j \in 1..Len(paths) : /\ entries[n] = paths[j] /\ Has(paths[j], path, n)
                                     /\ \A i \in 1..(j - 1) : ~ Has(paths[i], path, n)
      BY <2>1 DEF EntriesOf
    <3>2. FirstWith(paths, LAMBDA d : path \in Subdirs(d) /\ n \in Listing[d][path]) = j
      <4> DEFINE I == {i \in 1..Len(paths) : path \in Subdirs(paths[i]) /\ n \in Listing[paths[i]][path]}
      <4>1. I /= {} /\ Min(I) = j
        BY <1>1, <3>1, FirstEntry
      <4> QED BY <4>1 DEF FirstWith, SelectInSeq
    <3> QED BY <3>1, <3>2
  <2> QED BY <2>2, <2>4, <2>5
<1> QED BY <1>3, <1>4, <1>5, <1>6

LEMMA InvariantInit == ASSUME NoThread \notin Threads, MaxCalls \in Nat PROVE Init => IInv
<1> SUFFICES ASSUME Init PROVE IInv
  OBVIOUS
<1>1. Types
  BY TypesInit
<1>2. \A t \in Threads : call[t].at = "idle" /\ call[t].op = "none" /\ result[t] = NoResult
                          /\ result[t].kind = "none" /\ readers[t] = 0
  BY DEF Init, NoCall, NoResult
<1>3. writer = NoThread /\ DOMAIN groups = {}
  BY DEF Init
<1>4. MutexInv /\ CallInv /\ EmptyInv
  BY <1>2, <1>3 DEF MutexInv, CallInv, EmptyInv, Writes
<1>5. LookupInv
  BY <1>2 DEF LookupInv, Searching, Right
<1> QED BY <1>1, <1>4, <1>5 DEF IInv

LEMMA InvariantSteps ==
    ASSUME NoThread \notin Threads, MaxCalls \in Nat
    PROVE  IInv /\ [Next]_fsVars => IInv'
BY TypesSteps, MutexSteps, EmptySteps, LookupSteps DEF IInv

LEMMA InvariantHolds ==
    ASSUME NoThread \notin Threads, MaxCalls \in Nat
    PROVE  Spec => []IInv
BY InvariantInit, InvariantSteps, PTL DEF Spec

\* What a lookup found is right for the search paths at the moment it returns, for any
\* number of threads, search paths and names, whoever adds paths meanwhile.  NoThread stands
\* for nobody, MaxCalls for a bound.
THEOREM LookupsAreRight ==
    ASSUME NoThread \notin Threads, MaxCalls \in Nat
    PROVE  Spec => []LookupsRight
BY InvariantHolds, InvariantImpliesRight, PTL

\* The variables of the file system keep their types, and a thread that is in no call has
\* neither the mutex alone nor a share of it.
THEOREM TypesHold ==
    ASSUME NoThread \notin Threads, MaxCalls \in Nat
    PROVE  Spec => []TypeOK
<1>1. IInv => TypeOK
  BY DEF IInv, Types, GroupTypes, MutexInv, TypeOK
<1> QED BY <1>1, InvariantHolds, PTL
=============================================================================
