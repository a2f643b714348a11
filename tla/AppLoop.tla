------------------------------- MODULE AppLoop -------------------------------
(***************************************************************************)
(* The main loop of a program that uses appfw: initialize(), shutdown(),   *)
(* mainLoopTick() (appfw.cpp), the console's items and commands            *)
(* (console_system.cpp, con_item.cpp), the command buffer (cmd_buffer.cpp) *)
(* and the terminal console with its input threads (std_console.cpp).      *)
(*                                                                         *)
(* One main thread runs the loop; Posters are other threads that queue     *)
(* commands; every StdConsole, numbered in the order of their creation,    *)
(* has a detached thread of its own, which lives on when the StdConsole    *)
(* is destroyed.  A CmdString is a record, the command and its argument; a *)
(* line is the sequence of commands that CmdString::parse() makes of it.   *)
(* Output is left out: module ConsoleOutput is about it.                   *)
(***************************************************************************)
EXTENDS Integers, Sequences, FiniteSets

CONSTANTS
    Items,        \* the ConVars and ConCommands of the program, by address
    Name,         \* the name of each item; two may have the same
    Kind,         \* "cvar", "lock" (appfw_debug_lock_cvar), "handled" or "bare" (no callback)
    StaticItems,  \* those of static storage, constructed before main() begins
    Lines,        \* what is typed or posted: sequences of commands
    Values,       \* the values of a cvar that a string may be converted to
    Default,      \* the value a cvar is constructed with
    Posters,
    NoItem, NoArg,
    MaxConsoles,  \* bound
    Bounds        \* how often the calls may be made that a behaviour has a number of

ASSUME ConstantsAssumption ==
    /\ Kind \in [Items -> {"cvar", "lock", "handled", "bare"}]
    /\ NoItem \notin Items /\ StaticItems \subseteq Items
    /\ Default \in Values
    /\ Lines \subseteq Seq([name : STRING, arg : STRING])
    /\ MaxConsoles \in Nat
    /\ Bounds \subseteq [{"posts", "typed", "calls", "throws", "items"} -> Nat]

VARIABLES
    pc,             \* where the main thread is
    initCount,      \* s_Lib.uInitCount
    conSys,         \* whether s_Lib.pConSys is set
    built,          \* the items that exist
    pendingItems,   \* ConItemBase::getPendingItems()
    conItems,       \* m_ConItems
    locked,         \* the cvars with m_bIsLocked
    value,          \* m_Value of each cvar
    cmdQueue,       \* m_CmdQueue of the CmdBuffer
    bufferLocked,   \* whether the main thread is in executeOnce() or executeAll(), with m_Mutex
    left,           \* how many commands that call is still to execute
    current,        \* the commands of the commandNow() in progress
    posting,        \* the line each poster is about to append, if any
    consoles,       \* how many StdConsoles there have been
    term,           \* the one that exists, or 0
    isValid,        \* bIsValid of each StdConsole's SyncData
    syncMutex,      \* who has the mutex of that SyncData: 0 or its reader
    termQueue,      \* m_CmdQueue of the StdConsole
    reader,         \* where each input thread is
    typedLine,      \* the line it has read
    posted, done,   \* history: commands appended to the buffer, and popped from it
    orphans,        \* history: items registered at a shutdown, or whose name was taken
    counts          \* how often the bounded calls may still be made

lib == <<initCount, conSys>>
registry == <<built, pendingItems, conItems, orphans>>
cvars == <<locked, value>>
buffer == <<cmdQueue, bufferLocked, left, posted, done>>
terminal == <<consoles, term, isValid, syncMutex, termQueue, reader, typedLine>>
vars == <<pc, lib, registry, cvars, buffer, current, posting, terminal, counts>>

Names == {Name[i] : i \in Items}
Cvars == {i \in Items : Kind[i] = "cvar"}
Generations == 1..MaxConsoles
Idle == <<>>
Count(what) == counts[what] > 0 /\ counts' = [counts EXCEPT ![what] = @ - 1]

Init ==
    /\ pc = "idle" /\ initCount = 0 /\ conSys = FALSE
    /\ built = StaticItems /\ pendingItems = StaticItems /\ orphans = {}
    /\ conItems = [n \in Names |-> NoItem]
    /\ locked = {} /\ value = [i \in Cvars |-> Default]
    /\ cmdQueue = <<>> /\ bufferLocked = FALSE /\ left = 0
    /\ posted = <<>> /\ done = <<>>
    /\ current = <<>> /\ posting = [p \in Posters |-> Idle]
    /\ consoles = 0 /\ term = 0
    /\ isValid = [g \in Generations |-> FALSE]
    /\ syncMutex = [g \in Generations |-> 0]
    /\ termQueue = <<>>
    /\ reader = [g \in Generations |-> "none"]
    /\ typedLine = [g \in Generations |-> <<>>]
    /\ counts \in Bounds
-----------------------------------------------------------------------------
(* Console items. *)

\* Mutant: operator[], which replaces the item that has the name.
RegisterOver(map, items) ==
    [n \in Names |->
        IF \E i \in items : Name[i] = n THEN CHOOSE i \in items : Name[i] = n ELSE map[n]]

\* std::map::insert: an item whose name is taken is not inserted.
RegisterAll(map, items) ==
    [n \in Names |->
        IF map[n] /= NoItem \/ ~ \E i \in items : Name[i] = n THEN map[n]
        ELSE CHOOSE i \in items : Name[i] = n]

Shadowed(map, items) == {i \in items : RegisterAll(map, items)[Name[i]] /= i}

IsInitialized == initCount > 0

ErasePending(i) == pendingItems \ {i}

\* The program constructs items between its other calls.
Construct(i) ==
    /\ pc = "idle" /\ i \notin built
    /\ Count("items")
    /\ built' = built \cup {i}
    /\ IF IsInitialized
       THEN /\ conItems' = RegisterAll(conItems, {i})
            /\ orphans' = orphans \cup Shadowed(conItems, {i})
            /\ UNCHANGED pendingItems
       ELSE /\ pendingItems' = pendingItems \cup {i}
            /\ UNCHANGED <<conItems, orphans>>
    /\ locked' = locked \ {i}
    /\ value' = [j \in Cvars |-> IF j = i THEN Default ELSE value[j]]
    /\ UNCHANGED <<pc, lib, buffer, current, posting, terminal>>

\* unregisterConItem() of a release build erases the entry that has the name, whose
\* ever it is, and end() when there is none, after which nothing is defined.
Destroy(i) ==
    /\ pc = "idle" /\ i \in built \ StaticItems
    /\ Count("items")
    /\ built' = built \ {i}
    /\ IF IsInitialized
       THEN LET found == conItems[Name[i]] IN
            /\ conItems' = [conItems EXCEPT ![Name[i]] = NoItem]
            /\ pc' = IF found = NoItem THEN "undefined" ELSE pc
            /\ orphans' = (orphans \cup {found}) \ {i, NoItem}
            /\ UNCHANGED pendingItems
       ELSE /\ pendingItems' = ErasePending(i)
            /\ orphans' = orphans \ {i}
            /\ UNCHANGED <<pc, conItems>>
    /\ UNCHANGED <<lib, cvars, buffer, current, posting, terminal>>

FindItem(name) == IF name \in Names THEN conItems[name] ELSE NoItem

FindCvar(name) == IF FindItem(name) \in Cvars THEN FindItem(name) ELSE NoItem

\* ConVar::setStringValue and setValue; the callback, when there is one, may accept or reject.
SetResult(i, arg, accepted) ==
    CASE arg \notin Values -> "InvalidString"
      [] arg \in Values /\ i \in locked -> "Locked"
      [] arg \in Values /\ i \notin locked /\ ~accepted -> "CallbackRejected"
      [] OTHER -> "Success"
-----------------------------------------------------------------------------
(* The command buffer. *)

\* CmdBuffer::append; no command of a parsed line is empty.
AppendAll(line) ==
    /\ cmdQueue' = cmdQueue \o line
    /\ posted' = posted \o line

PostCall(p) ==
    /\ conSys /\ IsInitialized /\ posting[p] = Idle
    /\ \E line \in Lines \ {Idle} : posting' = [posting EXCEPT ![p] = line]
    /\ Count("posts")
    /\ UNCHANGED <<pc, lib, registry, cvars, buffer, current, terminal>>

Post(p) ==
    /\ posting[p] /= Idle /\ ~bufferLocked
    /\ AppendAll(posting[p])
    /\ posting' = [posting EXCEPT ![p] = Idle]
    /\ UNCHANGED <<pc, lib, registry, cvars, bufferLocked, left, done, current, terminal, counts>>

\* The mutex stays locked while the commands are executed.
Execute(n) ==
    /\ ~bufferLocked
    /\ IF n = 0 THEN pc' = "idle" /\ UNCHANGED <<bufferLocked, left, current>>
       ELSE /\ pc' = "run" /\ bufferLocked' = TRUE /\ left' = n
            /\ current' = <<Head(cmdQueue)>>
    /\ UNCHANGED <<lib, registry, cvars, cmdQueue, posted, done, posting, terminal, counts>>

\* Mutant: the last command of the queue is left there.
ToExecuteButLast == IF Len(cmdQueue) <= 1 THEN 0 ELSE 1

ToExecute == IF cmdQueue = <<>> THEN 0 ELSE 1

\* processCommand() in the tick.
ExecuteOnce == pc = "process" /\ Execute(ToExecute)

ExecuteAll ==
    /\ pc = "idle" /\ IsInitialized
    /\ ~bufferLocked /\ cmdQueue /= <<>>
    /\ pc' = "run" /\ bufferLocked' = TRUE /\ left' = Len(cmdQueue)
    /\ current' = <<Head(cmdQueue)>>
    /\ Count("calls")
    /\ UNCHANGED <<lib, registry, cvars, cmdQueue, posted, done, posting, terminal>>

\* The program calls commandNow() itself; it executes each command of the line.
CommandNow ==
    /\ pc = "idle" /\ IsInitialized
    /\ \E line \in Lines : line /= <<>> /\ current' = line
    /\ pc' = "run"
    /\ Count("calls")
    /\ UNCHANGED <<lib, registry, cvars, buffer, posting, terminal>>

\* The handler returned: the command leaves the queue, the next one of the call begins.
CommandDone ==
    /\ IF left > 0
       THEN /\ cmdQueue' = Tail(cmdQueue)
            /\ done' = Append(done, Head(cmdQueue))
            /\ left' = left - 1
            /\ bufferLocked' = (left > 1)
            /\ current' = IF left > 1 THEN <<cmdQueue[2]>> ELSE <<>>
            /\ pc' = IF left > 1 THEN "run" ELSE "idle"
       ELSE /\ current' = Tail(current)
            /\ pc' = IF Len(current) > 1 THEN "run" ELSE "idle"
            /\ UNCHANGED <<cmdQueue, done, left, bufferLocked>>
    /\ UNCHANGED posted

\* Mutants: the command is popped before its handler is called; the mutex is not released
\* by an exception; the call goes on.
ThrownAfterPop ==
    /\ pc' = "idle" /\ bufferLocked' = FALSE /\ left' = 0 /\ current' = <<>>
    /\ cmdQueue' = IF bufferLocked THEN Tail(cmdQueue) ELSE cmdQueue
    /\ UNCHANGED <<posted, done>>
ThrownWithMutex ==
    /\ pc' = "idle" /\ current' = <<>> /\ left' = 0
    /\ UNCHANGED <<bufferLocked, cmdQueue, posted, done>>
ThrownInCall ==
    /\ pc' = "idle" /\ bufferLocked' = FALSE /\ left' = 0
    /\ UNCHANGED <<current, cmdQueue, posted, done>>

\* The exception leaves the call; the lock is released and nothing is popped.
Thrown ==
    /\ pc' = "idle" /\ bufferLocked' = FALSE /\ left' = 0 /\ current' = <<>>
    /\ UNCHANGED <<cmdQueue, posted, done>>

Item == FindItem(Head(current).name)
Arg == Head(current).arg

\* An unknown name, a cvar that is shown, and a command that only prints.
CommandPrints ==
    /\ pc = "run"
    /\ Item = NoItem \/ (Item \in Cvars /\ Arg = NoArg)
         \/ (Item \in Items /\ Kind[Item] = "handled")
         \/ (Item \in Items /\ Kind[Item] = "lock" /\ FindCvar(Arg) = NoItem)
    /\ CommandDone
    /\ UNCHANGED <<lib, registry, cvars, posting, terminal, counts>>

CommandSets ==
    /\ pc = "run" /\ Item \in Cvars /\ Arg /= NoArg
    /\ \E accepted \in BOOLEAN :
         value' = IF SetResult(Item, Arg, accepted) = "Success"
                  THEN [value EXCEPT ![Item] = Arg] ELSE value
    /\ CommandDone
    /\ UNCHANGED <<lib, registry, locked, posting, terminal, counts>>

CommandLocks ==
    /\ pc = "run" /\ Item \in Items /\ Kind[Item] = "lock" /\ FindCvar(Arg) /= NoItem
    /\ LET i == FindCvar(Arg) IN
         locked' = IF i \in locked THEN locked \ {i} ELSE locked \cup {i}
    /\ CommandDone
    /\ UNCHANGED <<lib, registry, value, posting, terminal, counts>>

\* A callback throws, or there is none: after its report execute() calls the empty
\* std::function, which throws.
CommandThrows ==
    /\ pc = "run" /\ Item \in Items /\ Kind[Item] \in {"handled", "bare"}
    /\ Count("throws") \/ (counts.throws = 0 /\ Kind[Item] = "bare" /\ UNCHANGED counts)
    /\ Thrown
    /\ UNCHANGED <<lib, registry, cvars, posting, terminal>>

\* A callback that queues a command: if it was itself taken from the queue, its thread
\* waits for the mutex that it has.
CommandPosts ==
    /\ pc = "run" /\ Item \in Items /\ Kind[Item] = "handled"
    /\ Count("posts")
    /\ IF bufferLocked THEN pc' = "stuck" /\ UNCHANGED <<cmdQueue, posted>>
       ELSE (\E line \in Lines : AppendAll(line)) /\ UNCHANGED pc
    /\ UNCHANGED <<lib, registry, cvars, bufferLocked, left, done, current, posting, terminal>>
-----------------------------------------------------------------------------
(* The library and its terminal console. *)

\* The console takes the pending items.  With TermInputMethod::Enable the StdConsole
\* starts its thread; otherwise it has no SyncData.
InitializeFirst(input) ==
    /\ pc = "idle" /\ initCount = 0 /\ consoles < MaxConsoles
    /\ initCount' = 1 /\ conSys' = TRUE
    /\ conItems' = RegisterAll([n \in Names |-> NoItem], pendingItems)
    /\ orphans' = orphans \cup Shadowed([n \in Names |-> NoItem], pendingItems)
    /\ pendingItems' = {}
    /\ consoles' = consoles + 1 /\ term' = consoles + 1
    /\ isValid' = [isValid EXCEPT ![consoles + 1] = input]
    /\ reader' = [reader EXCEPT ![consoles + 1] = IF input THEN "reading" ELSE "none"]
    /\ UNCHANGED <<pc, built, cvars, buffer, current, posting, syncMutex, termQueue, typedLine, counts>>

InitializeAgain ==
    /\ pc = "idle" /\ initCount \in 1..1
    /\ initCount' = initCount + 1
    /\ UNCHANGED <<pc, conSys, registry, cvars, buffer, current, posting, terminal, counts>>

\* The program has joined its own threads.  The last shutdown() goes on to destroy.
Shutdown ==
    /\ pc = "idle" /\ initCount > 0 /\ (initCount = 1 => \A p \in Posters : posting[p] = Idle)
    /\ initCount' = initCount - 1
    /\ pc' = IF initCount = 1 THEN "invalidate" ELSE pc
    /\ UNCHANGED <<conSys, registry, cvars, buffer, current, posting, terminal, counts>>

\* Mutant: the mutex is not locked.
SyncMutexIgnored(g) == TRUE

SyncMutexFree(g) == syncMutex[g] = 0

\* ~StdConsole.
Invalidate ==
    /\ pc = "invalidate" /\ SyncMutexFree(term)
    /\ isValid' = [isValid EXCEPT ![term] = FALSE]
    /\ pc' = "free"
    /\ UNCHANGED <<lib, registry, cvars, buffer, current, posting, consoles, term, syncMutex,
                   termQueue, reader, typedLine, counts>>

\* The memory of the StdConsole and the ConsoleSystem is freed.
Free ==
    /\ pc = "free" /\ pc' = "idle"
    /\ term' = 0 /\ termQueue' = <<>>
    /\ conSys' = FALSE
    /\ orphans' = orphans \cup ({conItems[n] : n \in Names} \ {NoItem})
    /\ conItems' = [n \in Names |-> NoItem]
    /\ cmdQueue' = <<>> /\ posted' = <<>> /\ done' = <<>>
    /\ UNCHANGED <<initCount, built, pendingItems, cvars, bufferLocked, left, current, posting,
                   consoles, isValid, syncMutex, reader, typedLine, counts>>

\* mainLoopTick() as far as StdConsole::tick(): one line goes to the command buffer.
Tick ==
    /\ pc = "idle" /\ IsInitialized /\ SyncMutexFree(term)
    /\ pc' = "process"
    /\ IF isValid[term] /\ termQueue /= <<>>
       THEN AppendAll(Head(termQueue)) /\ termQueue' = Tail(termQueue)
       ELSE UNCHANGED <<cmdQueue, posted, termQueue>>
    /\ UNCHANGED <<lib, registry, cvars, bufferLocked, left, done, current, posting, consoles,
                   term, isValid, syncMutex, reader, typedLine, counts>>

\* std::getline: all the input threads read the same stdin.  At its end it returns empty
\* lines at once, which the bound cuts off.
ReadLine(g) ==
    /\ reader[g] = "reading"
    /\ \E line \in Lines : typedLine' = [typedLine EXCEPT ![g] = line]
    /\ reader' = [reader EXCEPT ![g] = "read"]
    /\ Count("typed")
    /\ UNCHANGED <<pc, lib, registry, cvars, buffer, current, posting, consoles, term, isValid,
                   syncMutex, termQueue>>

LockSync(g) ==
    /\ reader[g] = "read" /\ SyncMutexFree(g)
    /\ IF isValid[g]
       THEN /\ reader' = [reader EXCEPT ![g] = "push"]
            /\ syncMutex' = [syncMutex EXCEPT ![g] = g]
            /\ UNCHANGED typedLine
       ELSE /\ reader' = [reader EXCEPT ![g] = "ended"]
            /\ typedLine' = [typedLine EXCEPT ![g] = <<>>]
            /\ UNCHANGED syncMutex
    /\ UNCHANGED <<pc, lib, registry, cvars, buffer, current, posting, consoles, term, isValid,
                   termQueue, counts>>

PushLine(g) ==
    /\ reader[g] = "push"
    /\ termQueue' = Append(termQueue, typedLine[g])
    /\ typedLine' = [typedLine EXCEPT ![g] = <<>>]
    /\ reader' = [reader EXCEPT ![g] = "reading"]
    /\ syncMutex' = [syncMutex EXCEPT ![g] = 0]
    /\ UNCHANGED <<pc, lib, registry, cvars, buffer, current, posting, consoles, term, isValid,
                   counts>>
-----------------------------------------------------------------------------
MainStep ==
    \/ Tick \/ ExecuteOnce \/ CommandPrints \/ CommandSets \/ CommandLocks
    \/ Invalidate \/ Free
ReaderStep(g) == LockSync(g) \/ PushLine(g)

\* Nothing is modelled after undefined behaviour.
Next ==
    /\ pc /= "undefined"
    /\ \/ \E i \in Items : Construct(i) \/ Destroy(i)
       \/ \E p \in Posters : PostCall(p) \/ Post(p)
       \/ ExecuteAll \/ CommandNow \/ CommandThrows \/ CommandPosts
       \/ \E input \in BOOLEAN : InitializeFirst(input)
       \/ InitializeAgain \/ Shutdown
       \/ \E g \in Generations : ReadLine(g) \/ ReaderStep(g)
       \/ MainStep

Spec == Init /\ [][Next]_vars

\* The main loop ticks again and again while the program makes other calls, a command
\* ends, and a thread that waits for a mutex which is released again and again gets it.
FairSpec ==
    /\ Spec /\ SF_vars(MainStep)
    /\ \A p \in Posters : SF_vars(Post(p))
    /\ \A g \in Generations : WF_vars(ReaderStep(g))
-----------------------------------------------------------------------------
\* Types, and what the code never leaves behind: a call in progress without a command, or
\* a mutex held outside of one.
TypeOK ==
    /\ pc \in {"idle", "process", "run", "stuck", "invalidate", "free", "undefined"}
    /\ initCount \in 0..2 /\ conSys \in BOOLEAN
    /\ built \subseteq Items /\ pendingItems \subseteq Items /\ orphans \subseteq Items
    /\ conItems \in [Names -> Items \cup {NoItem}]
    /\ locked \subseteq Cvars /\ value \in [Cvars -> Values]
    /\ bufferLocked \in BOOLEAN /\ left \in 0..Len(cmdQueue)
    /\ bufferLocked <=> left > 0
    /\ (pc \in {"run", "stuck"}) <=> current /= <<>>
    /\ term \in 0..consoles /\ consoles \in 0..MaxConsoles
    /\ isValid \in [Generations -> BOOLEAN]
    /\ syncMutex \in [Generations -> 0..MaxConsoles]
    /\ reader \in [Generations -> {"none", "reading", "read", "push", "ended"}]

\* CmdBuffer is a queue: whatever is posted from other threads while the commands of the
\* queue run, throw and queue more, every command leaves it once, in order, and the one
\* that runs is at its front.
CommandsKept ==
    /\ posted = done \o cmdQueue
    /\ bufferLocked => current = <<Head(cmdQueue)>>

\* An item is found by its name from the moment the library is initialized, in whatever
\* order items are constructed and the library initialized, except one whose name was
\* taken and one that was there at an earlier shutdown(); no item is found, nor is pending,
\* that has been destroyed.
NoDanglingItems ==
    /\ {conItems[n] : n \in Names} \subseteq built \cup {NoItem}
    /\ pendingItems \subseteq built
LiveItemsFound ==
    /\ \A i \in built \ orphans :
         IF conSys THEN conItems[Name[i]] = i ELSE i \in pendingItems
    /\ NoDanglingItems

\* The detached input thread touches its StdConsole only while that exists, whenever it
\* is destroyed and however long getline() takes.
ReaderUsesLive == \A g \in Generations : reader[g] = "push" => term = g

\* No main loop is left that can execute a command: its handler waits for itself, or an
\* item was destroyed that had no entry.
Stopped == pc \in {"stuck", "undefined"}

\* command() returns to the thread that called it, unless a queued command queued another.
PostReturns == \A p \in Posters : posting[p] /= Idle ~> posting[p] = Idle \/ Stopped

\* Every command is executed: a line that was typed and a command that was posted leave
\* their queues although the program makes calls of its own and commands throw.
CommandsRun == (termQueue /= <<>> \/ cmdQueue /= <<>>) ~> (termQueue = <<>> /\ cmdQueue = <<>>) \/ Stopped
=============================================================================
