------------------------------ MODULE MCConsole ------------------------------
(***************************************************************************)
(* Two programs with a console, and one with an ExtconHost whose client is *)
(* given messages and sends nothing: a behaviour is of one of the three.   *)
(***************************************************************************)
EXTENDS MCConsoleOutput

CONSTANT Worker     \* the host's thread, another one for the console

VARIABLES
    program,
    hostOutputMutex, hostRing, hostRingMutex, hostReplayed, hostPc, hostMsg,
    printed, cmdBuffer, isConnected, stateIsConnected, printQueue, cvWaiters, availableCommands,
    commandQueue, commandQueueMutex, isWorkerRunning, joinable, sawConnected, isThreadRunning,
    listening, clientSocket, isSocketValid, isClosing, pollEvent, chunk, sending, ret, backlog,
    inbox, gone, clients, payloads, calls, enables, disables, feed, feedFrom, sent, echoed, executed

Host == INSTANCE ExtconHost WITH
    outputMutex <- hostOutputMutex, ring <- hostRing, ringMutex <- hostRingMutex,
    replayed <- hostReplayed, pc <- hostPc, msg <- hostMsg,
    Printers <- Threads \ {Main, Worker}, MaxQueueSize <- 1, Lost <- -1,
    Kinds <- {"command"}, ClientsLeave <- FALSE, ClientsStall <- FALSE, ServerFaults <- FALSE,
    MaxPrints <- 3, MaxClients <- 1, MaxPayloads <- 0, MaxEnables <- 1, MaxDisables <- 0

\* Receivers are registered before the threads start and after they have ended.
Setup == INSTANCE ConsoleOutput WITH
    RemovableReceivers <- MCUnsafeReceivers, ReplayedReceivers <- MCNobody, DebugBuild <- TRUE

hostVars ==
    <<hostOutputMutex, hostRing, hostRingMutex, hostReplayed, hostPc, hostMsg,
      printed, cmdBuffer, isConnected, stateIsConnected, printQueue, cvWaiters, availableCommands,
      commandQueue, commandQueueMutex, isWorkerRunning, joinable, sawConnected, isThreadRunning,
      listening, clientSocket, isSocketValid, isClosing, pollEvent, chunk, sending, ret, backlog,
      inbox, gone, clients, payloads, calls, enables, disables, feed, feedFrom, sent, echoed,
      executed>>

OfConsole == program = "console" /\ UNCHANGED <<program, hostVars>>
OfSetup == program = "setup" /\ UNCHANGED <<program, hostVars>>
OfHost == program = "host" /\ UNCHANGED <<program, vars>>
bothVars == <<program, vars, hostVars>>

ThreadStep(t) ==
    \/ OfConsole /\ PrintStep(t)
    \/ OfHost /\ Host!PrintStep(t)
    \/ OfHost /\ t = Worker /\ Host!WorkerStep
MainThreadStep ==
    \/ OfConsole /\ (PrintStep(Main) \/ MainStep)
    \/ OfHost /\ (Host!PrintStep(Main) \/ Host!MainStep)
MainLoop == (OfConsole /\ FlushCall) \/ (OfHost /\ Host!TickRead)

ConsoleInit == program \in {"console", "setup", "host"} /\ Init /\ Host!Init
ConsoleNext == (OfConsole /\ Next) \/ (OfSetup /\ Setup!Next) \/ (OfHost /\ Host!Next)

\* The fairness of each in its own behaviours.
ConsoleSpec ==
    /\ ConsoleInit /\ [][ConsoleNext]_bothVars
    /\ \A t \in Threads \ {Main} : SF_bothVars(ThreadStep(t))
    /\ SF_bothVars(MainThreadStep)
    /\ SF_bothVars(MainLoop)
-----------------------------------------------------------------------------
\* With receivers that stay, the messages of a thread are given in the order in which it
\* printed them.
OrderKept == program = "console" => ThreadOrder

\* A print() that was called returns, also where it waits for the host's queue with its mutex
\* held; in a program whose assertion fails it does not.
PrintsReturn ==
    \A t \in Threads :
        \/ program = "console" /\ job[t] = "print" /\ pc[t] = "lock"
        \/ program = "host" /\ t /= Worker /\ hostPc[t] \in Host!PrintLabels
        ~> job[t] /= "print" /\ hostPc[t] \notin Host!PrintLabels

\* Delayed messages do not stay in the console's queue, though other threads fill it between
\* two rounds of the main loop, and what the host has accepted is sent.
QueuesEmptied ==
    \/ program = "console" /\ threadedMsgQueue /= <<>>
    \/ program = "host" /\ Len(sent) < Len(feed)
    ~> threadedMsgQueue = <<>> /\ Len(sent) = Len(feed)
=============================================================================
