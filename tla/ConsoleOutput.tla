---------------------------- MODULE ConsoleOutput ----------------------------
(***************************************************************************)
(* The output half of appfw::ConsoleSystem (src/console/console_system.cpp *)
(* and its header): print() from any thread, the queue that delays the     *)
(* messages of other threads while some receiver is not thread-safe,       *)
(* processMsgQueue() on the main thread, printPreviousMessages(), and the  *)
(* registration of receivers with the m_bThreadSafeOutput flag it keeps.   *)
(*                                                                         *)
(* A step is what a thread does between two points where another thread    *)
(* can matter: taking a mutex, entering or leaving pRecv->print(), reading *)
(* or writing the flag.  A message is its position in `log', the order in  *)
(* which messages entered the ring.                                        *)
(***************************************************************************)
EXTENDS MsgRing, FiniteSets

CONSTANTS
    Threads,           \* the threads of the program
    Main,              \* the one that constructed the console and ticks it
    NoThread,          \* the owner of a free mutex
    Receivers,         \* the receivers' addresses: m_RecvList is an ordered set
    SafeReceivers,     \* those whose isThreadSafe() is true
    RemovableReceivers,\* those the program may unregister again
    ReplayedReceivers, \* those that printPreviousMessages() is called for
    LateRegistration,  \* may receivers change while other threads run?
    DebugBuild,        \* AFW_DEBUG_BUILD: AFW_ASSERT_MSG checks its condition
    MsgQueueLimit,     \* the queue length processMsgQueue asserts (100)
    MaxMsgs            \* bound: messages printed in a behaviour

ASSUME ThreadsAssumption ==
    /\ IsFiniteSet(Threads)
    /\ Main \in Threads
    /\ NoThread \notin Threads
ASSUME ReceiversAssumption ==
    /\ Receivers \subseteq Nat \ {0}
    /\ SafeReceivers \subseteq Receivers
    /\ RemovableReceivers \subseteq Receivers
    /\ ReplayedReceivers \subseteq Receivers
ASSUME OptionsAssumption ==
    /\ LateRegistration \in BOOLEAN
    /\ DebugBuild \in BOOLEAN
    /\ MsgQueueLimit \in Nat
    /\ MaxMsgs \in Nat

VARIABLES
    outputMutex,      \* owner of m_OutputMutex
    ring,             \* *m_pMsgBuf
    ringMutex,        \* owner of the ring's m_Mutex
    recvList,         \* m_RecvList
    threadSafeOutput, \* m_bThreadSafeOutput
    threadedMsgQueue, \* m_ThreadedMsgQueue
    pc,               \* where each thread is
    job,              \* the console function it is in
    msg,              \* the message it is delivering
    at,               \* its position in m_RecvList: the last receiver reached
    replayed,         \* what the replay in progress has shown
    running,          \* do the other threads run?
    log,              \* history: who printed each message, and was it queued?
    owed,             \* history: the messages each receiver is entitled to
    shown             \* history: the messages each receiver was given, replays apart

locks == <<outputMutex, ringMutex>>
receiverVars == <<recvList, threadSafeOutput>>
messageVars == <<ring, threadedMsgQueue, log>>
threadVars == <<pc, job, msg, at>>
history == <<owed, shown>>
vars == <<locks, receiverVars, messageVars, threadVars, replayed, running, history>>

Msgs == 1 .. MaxMsgs
Labels == {"idle", "lock", "push", "deliver", "show", "drain", "asserting",
           "reset", "scan", "ringlock"}
Jobs == {"none", "print", "flush", "report", "replay", "update"}

TypeOK ==
    /\ outputMutex \in Threads \cup {NoThread}
    /\ ring \in Rings(Msgs)
    /\ ringMutex \in {Main, NoThread}
    /\ recvList \subseteq Receivers
    /\ threadSafeOutput \in BOOLEAN
    /\ threadedMsgQueue \in Seq(Msgs)
    /\ pc \in [Threads -> Labels]
    /\ job \in [Threads -> Jobs]
    /\ msg \in [Threads -> Msgs \cup {0}]
    /\ at \in [Threads -> Receivers \cup {0}]
    /\ replayed \in Seq(Msgs)
    /\ running \in BOOLEAN
    /\ log \in Seq([by : Threads, queued : BOOLEAN])
    /\ Len(log) <= MaxMsgs
    /\ owed \in [Receivers -> SUBSET Msgs]
    /\ shown \in [Receivers -> Seq(Msgs)]

Init ==
    /\ outputMutex = NoThread
    /\ ring = EmptyRing
    /\ ringMutex = NoThread
    /\ recvList = {}
    /\ threadSafeOutput = TRUE
    /\ threadedMsgQueue = <<>>
    /\ pc = [t \in Threads |-> "idle"]
    /\ job = [t \in Threads |-> "none"]
    /\ msg = [t \in Threads |-> 0]
    /\ at = [t \in Threads |-> 0]
    /\ replayed = <<>>
    /\ running = FALSE
    /\ log = <<>>
    /\ owed = [r \in Receivers |-> {}]
    /\ shown = [r \in Receivers |-> <<>>]

-----------------------------------------------------------------------------
\* Helpers: a thread's next label, entering and leaving a console function.

Goto(t, label) == pc' = [pc EXCEPT ![t] = label]

Begin(t, what, label) ==
    /\ pc[t] = "idle"
    /\ Goto(t, label)
    /\ job' = [job EXCEPT ![t] = what]

Finish(t) ==
    /\ Goto(t, "idle")
    /\ job' = [job EXCEPT ![t] = "none"]
    /\ msg' = [msg EXCEPT ![t] = 0]
    /\ at' = [at EXCEPT ![t] = 0]

\* Mutant of ReleaseOutput: an unlock is missing.
KeepOutput == UNCHANGED outputMutex

ReleaseOutput == outputMutex' = NoThread

\* The next receiver in the order of m_RecvList after position a, if any.
Remaining(a) == {r \in recvList : r > a}
IsNext(r, a) == r \in Remaining(a) /\ \A q \in Remaining(a) : r <= q

-----------------------------------------------------------------------------
\* print(), called by the program or (job "report") by a failed assertion.

Printing == {"print", "report"}

\* The program bounds how much it prints: MaxMsgs counts the calls in progress too.
PrintsInProgress == {t \in Threads : job[t] = "print" /\ pc[t] \in {"lock", "push"}}

PrintCall(t) ==
    /\ t = Main \/ running
    /\ Len(log) + Cardinality(PrintsInProgress) < MaxMsgs
    /\ Begin(t, "print", "lock")
    /\ UNCHANGED <<locks, receiverVars, messageVars, msg, at, replayed, running, history>>

\* Mutant of OutputMutexFree: print() takes no lock.
OutputMutexIgnored == TRUE

OutputMutexFree == outputMutex = NoThread

PrintLock(t) ==
    /\ pc[t] = "lock" /\ job[t] \in Printing
    /\ OutputMutexFree
    /\ outputMutex' = t
    /\ Goto(t, "push")
    /\ UNCHANGED <<ringMutex, receiverVars, messageVars, job, msg, at, replayed, running, history>>

\* Mutant of PrintsDirectly: the queue is never used.
PrintsAlways(t) == TRUE

PrintsDirectly(t) == threadSafeOutput \/ t = Main

\* Mutant of RingMutexFree: push() does not take the ring's mutex.
RingMutexIgnored == TRUE

RingMutexFree == ringMutex = NoThread

\* m_pMsgBuf->push(), which needs the ring's mutex for the length of this step.
PushMsg(t) ==
    /\ pc[t] = "push"
    /\ RingMutexFree
    /\ ring' = RingPush(ring, Len(log) + 1)
    /\ log' = Append(log, [by |-> t, queued |-> ~PrintsDirectly(t)])
    /\ owed' = [r \in Receivers |-> IF r \in recvList THEN owed[r] \cup {Len(log) + 1} ELSE owed[r]]

PrintNow(t) ==
    /\ PrintsDirectly(t)
    /\ PushMsg(t)
    /\ msg' = [msg EXCEPT ![t] = Len(log) + 1]
    /\ Goto(t, "deliver")
    /\ UNCHANGED <<locks, receiverVars, threadedMsgQueue, job, at, replayed, running, shown>>

\* Mutants of Enqueue: the newest message is drained first; a second one is dropped.
EnqueueFirst(m) == threadedMsgQueue' = <<m>> \o threadedMsgQueue
EnqueueOne(m) ==
    threadedMsgQueue' = IF threadedMsgQueue = <<>> THEN <<m>> ELSE threadedMsgQueue

Enqueue(m) == threadedMsgQueue' = Append(threadedMsgQueue, m)

PrintQueued(t) ==
    /\ ~PrintsDirectly(t)
    /\ PushMsg(t)
    /\ Enqueue(Len(log) + 1)
    /\ Finish(t)
    /\ ReleaseOutput
    /\ UNCHANGED <<ringMutex, receiverVars, replayed, running, shown>>

-----------------------------------------------------------------------------
\* The loop over m_RecvList, of print() and of processMsgQueue().

\* pRecv->print() is entered ...
Deliver(t) ==
    /\ pc[t] = "deliver" /\ job[t] \in Printing \cup {"flush"}
    /\ \E r \in recvList :
         /\ IsNext(r, at[t])
         /\ at' = [at EXCEPT ![t] = r]
         /\ shown' = [shown EXCEPT ![r] = Append(@, msg[t])]
    /\ Goto(t, "show")
    /\ UNCHANGED <<locks, receiverVars, messageVars, job, msg, replayed, running, owed>>

\* ... and returns.
ShowDone(t) ==
    /\ pc[t] = "show"
    /\ Goto(t, "deliver")
    /\ UNCHANGED <<locks, receiverVars, messageVars, job, msg, at, replayed, running, history>>

PrintEnd(t) ==
    /\ pc[t] = "deliver" /\ job[t] \in Printing
    /\ Remaining(at[t]) = {}
    /\ ReleaseOutput
    /\ Finish(t)
    /\ UNCHANGED <<ringMutex, receiverVars, messageVars, replayed, running, history>>

-----------------------------------------------------------------------------
\* processMsgQueue()

FlushCall ==
    /\ Begin(Main, "flush", "lock")
    /\ UNCHANGED <<locks, receiverVars, messageVars, msg, at, replayed, running, history>>

AssertHolds == DebugBuild => Len(threadedMsgQueue) <= MsgQueueLimit

FlushLock ==
    /\ pc[Main] = "lock" /\ job[Main] = "flush"
    /\ OutputMutexFree
    /\ outputMutex' = Main
    /\ Goto(Main, IF AssertHolds THEN "drain" ELSE "asserting")
    /\ UNCHANGED <<ringMutex, receiverVars, messageVars, job, msg, at, replayed, running, history>>

\* onAssertionFailed() reports with printwtf(), which is a print() of the same
\* thread: it would have to lock the m_OutputMutex that the thread already owns.
AssertReport ==
    /\ pc[Main] = "asserting"
    /\ Goto(Main, "lock")
    /\ job' = [job EXCEPT ![Main] = "report"]
    /\ UNCHANGED <<locks, receiverVars, messageVars, msg, at, replayed, running, history>>

\* Mutant of MsgToDrain: a drain gives up one message before the queue is empty.
MsgToDrainButLast == Len(threadedMsgQueue) > 1

MsgToDrain == threadedMsgQueue /= <<>>

Drain ==
    /\ pc[Main] = "drain"
    /\ MsgToDrain
    /\ msg' = [msg EXCEPT ![Main] = Head(threadedMsgQueue)]
    /\ Goto(Main, "deliver")
    /\ UNCHANGED <<locks, receiverVars, messageVars, job, at, replayed, running, history>>

\* m_ThreadedMsgQueue.pop(), after every receiver has been given the front.
DrainNext ==
    /\ pc[Main] = "deliver" /\ job[Main] = "flush"
    /\ Remaining(at[Main]) = {}
    /\ threadedMsgQueue' = Tail(threadedMsgQueue)
    /\ at' = [at EXCEPT ![Main] = 0]
    /\ msg' = [msg EXCEPT ![Main] = 0]
    /\ Goto(Main, "drain")
    /\ UNCHANGED <<locks, receiverVars, ring, log, job, replayed, running, history>>

DrainEnd ==
    /\ pc[Main] = "drain"
    /\ ~MsgToDrain
    /\ ReleaseOutput
    /\ Finish(Main)
    /\ UNCHANGED <<ringMutex, receiverVars, messageVars, replayed, running, history>>

-----------------------------------------------------------------------------
\* printPreviousMessages(), which takes the ring's mutex and not m_OutputMutex.

ReplayCall ==
    /\ Begin(Main, "replay", "ringlock")
    /\ \E r \in ReplayedReceivers \cap recvList : at' = [at EXCEPT ![Main] = r]
    /\ UNCHANGED <<locks, receiverVars, messageVars, msg, replayed, running, history>>

ReplayLock ==
    /\ pc[Main] = "ringlock"
    /\ ringMutex = NoThread
    /\ ringMutex' = Main
    /\ Goto(Main, "deliver")
    /\ UNCHANGED <<outputMutex, receiverVars, messageVars, job, msg, at, replayed, running, history>>

ReplayShow ==
    /\ pc[Main] = "deliver" /\ job[Main] = "replay"
    /\ Len(replayed) < ring.size
    /\ replayed' = Append(replayed, RingContents(ring)[Len(replayed) + 1])
    /\ Goto(Main, "show")
    /\ UNCHANGED <<locks, receiverVars, messageVars, job, msg, at, running, history>>

ReplayEnd ==
    /\ pc[Main] = "deliver" /\ job[Main] = "replay"
    /\ Len(replayed) = ring.size
    /\ replayed' = <<>>
    /\ ringMutex' = NoThread
    /\ Finish(Main)
    /\ UNCHANGED <<outputMutex, receiverVars, messageVars, running, history>>

-----------------------------------------------------------------------------
\* addConsoleReceiver() and removeConsoleReceiver(): no mutex protects m_RecvList,
\* so the library calls them before other threads start and after they end
\* (appfw::initialize and appfw::shutdown).

MayRegister == ~running \/ LateRegistration

AddReceiver ==
    /\ MayRegister
    /\ \E r \in Receivers \ recvList :
         /\ recvList' = recvList \cup {r}
         /\ owed' = [owed EXCEPT ![r] = {threadedMsgQueue[i] : i \in DOMAIN threadedMsgQueue}]
    /\ Begin(Main, "update", "reset")
    /\ UNCHANGED <<locks, threadSafeOutput, messageVars, msg, at, replayed, running, shown>>

RemoveReceiver ==
    /\ MayRegister
    /\ \E r \in recvList \cap RemovableReceivers :
         /\ recvList' = recvList \ {r}
         /\ owed' = [owed EXCEPT ![r] = {}]
         /\ shown' = [shown EXCEPT ![r] = <<>>]
    /\ Begin(Main, "update", "reset")
    /\ UNCHANGED <<locks, threadSafeOutput, messageVars, msg, at, replayed, running>>

\* updateThreadSafetyState(): true first, then the conjunction over the receivers.
UpdateReset ==
    /\ pc[Main] = "reset"
    /\ threadSafeOutput' = TRUE
    /\ Goto(Main, "scan")
    /\ UNCHANGED <<locks, recvList, messageVars, job, msg, at, replayed, running, history>>

\* Mutant of Accumulate: a disjunction.
AccumulateAny(r) == threadSafeOutput \/ r \in SafeReceivers

Accumulate(r) == threadSafeOutput /\ r \in SafeReceivers

UpdateScan ==
    /\ pc[Main] = "scan"
    /\ \E r \in recvList :
         /\ IsNext(r, at[Main])
         /\ threadSafeOutput' = Accumulate(r)
         /\ at' = [at EXCEPT ![Main] = r]
    /\ UNCHANGED <<locks, recvList, messageVars, pc, job, msg, replayed, running, history>>

UpdateEnd ==
    /\ pc[Main] = "scan"
    /\ Remaining(at[Main]) = {}
    /\ Finish(Main)
    /\ UNCHANGED <<locks, receiverVars, messageVars, replayed, running, history>>

\* The program starts its other threads, and joins them once their calls are done.
StartThreads ==
    /\ ~running
    /\ pc[Main] = "idle"
    /\ running' = TRUE
    /\ UNCHANGED <<locks, receiverVars, messageVars, threadVars, replayed, history>>

JoinThreads ==
    /\ running
    /\ \A t \in Threads : pc[t] = "idle"
    /\ running' = FALSE
    /\ UNCHANGED <<locks, receiverVars, messageVars, threadVars, replayed, history>>

-----------------------------------------------------------------------------
\* The steps of a call in progress, by thread; the others are the program's choice.
PrintStep(t) ==
    PrintLock(t) \/ PrintNow(t) \/ PrintQueued(t) \/ Deliver(t) \/ ShowDone(t) \/ PrintEnd(t)
MainStep ==
    \/ FlushLock \/ AssertReport \/ Drain \/ DrainNext \/ DrainEnd
    \/ ReplayLock \/ ReplayShow \/ ReplayEnd
    \/ UpdateReset \/ UpdateScan \/ UpdateEnd
Call ==
    \/ \E t \in Threads : PrintCall(t)
    \/ FlushCall \/ ReplayCall \/ AddReceiver \/ RemoveReceiver
    \/ StartThreads \/ JoinThreads

Next == (\E t \in Threads : PrintStep(t)) \/ MainStep \/ Call

Spec == Init /\ [][Next]_vars

\* Every thread takes the steps of its call: one that waits for a mutex which is
\* released again and again gets it.  The main loop keeps calling processMsgQueue().
Fairness ==
    /\ \A t \in Threads \ {Main} : SF_vars(PrintStep(t))
    /\ SF_vars(PrintStep(Main) \/ MainStep)
    /\ SF_vars(FlushCall)

FairSpec == Spec /\ Fairness
-----------------------------------------------------------------------------
\* Properties

\* A receiver that is not thread-safe is only ever called by the main thread:
\* what print()'s flag test and processMsgQueue() are for.
UnsafeOnMainOnly ==
    \A t \in Threads : pc[t] = "show" /\ at[t] \notin SafeReceivers => t = Main

\* The messages that receiver r is still to be given: those that wait in the queue
\* (the front one only until the drain in progress passes r), and those of the
\* print() calls whose loop has not reached r.
AwaitedBy(r) ==
    LET passed(t) == pc[t] \in {"deliver", "show"} /\ at[t] >= r
        front == IF job[Main] = "flush" /\ passed(Main) THEN 2 ELSE 1
    IN  {threadedMsgQueue[i] : i \in front .. Len(threadedMsgQueue)}
        \cup {msg[t] : t \in {u \in Threads : /\ job[u] \in Printing /\ msg[u] /= 0
                                              /\ ~passed(u)}}

TimesShown(r, m) == Cardinality({i \in DOMAIN shown[r] : shown[r][i] = m})

\* No message is lost and none is given twice: at every moment a registered receiver
\* has been given, once, each message printed since it was added (or queued then),
\* except those that are still on their way to it.
ShownOnce ==
    \A r \in recvList : \A m \in 1 .. Len(log) :
        TimesShown(r, m) + (IF m \in AwaitedBy(r) THEN 1 ELSE 0)
            = (IF m \in owed[r] THEN 1 ELSE 0)

\* Every receiver is given the messages that took the same path (directly, or through
\* the queue) in the order in which they were printed, whatever threads they came from.
ShownInOrder ==
    \A r \in Receivers : \A i, j \in DOMAIN shown[r] :
        i < j /\ log[shown[r][i]].queued = log[shown[r][j]].queued
            => shown[r][i] < shown[r][j]

\* The messages of one thread are given in the order in which it printed them.  It
\* takes receivers that stay: removing the last unsafe one while messages are
\* queued lets the thread's next message overtake them.
ThreadOrder ==
    \A r \in Receivers : \A i, j \in DOMAIN shown[r] :
        i < j /\ log[shown[r][i]].by = log[shown[r][j]].by
            => shown[r][i] < shown[r][j]

\* printPreviousMessages() shows one consistent history although other threads
\* print during the replay: consecutive messages, ending with the latest.
ReplayIsSnapshot ==
    ringMutex = Main =>
        \A i \in DOMAIN replayed : replayed[i] = Len(log) - ring.size + i

\* The flag agrees with the receivers whenever it can matter: while other threads run,
\* and output is direct exactly if every registered receiver is thread-safe.
FlagAgreesWithReceivers ==
    running => (threadSafeOutput <=> recvList \subseteq SafeReceivers)

\* The ring of messages implements the abstract history, across its wrap-around.
History == INSTANCE MsgHistory
    WITH Capacity <- RingSize, Msgs <- Msgs, recent <- RingContents(ring)
HistorySpec == History!Spec

\* IConsoleReceiver::isThreadSafe (console_system.h): "Locking is provided by console
\* system (print won't be called from two threads at the same time)".
OneCallerAtATime ==
    \A t, u \in Threads :
        pc[t] = "show" /\ pc[u] = "show" /\ at[t] = at[u] => t = u

\* AFW_ASSERT_MSG (dbg.h): "Checks whether the condition is true. If not, crashes the
\* program."  onAssertionFailed() first prints its report, and has to come back from
\* that to reach abort().
FailedAssertReports == pc[Main] = "asserting" ~> job[Main] = "none"
=============================================================================
