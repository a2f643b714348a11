----------------------------- MODULE ExtconHost -----------------------------
(***************************************************************************)
(* appfw::ExtconHost (src/extcon/extcon_host.cpp): a console receiver that *)
(* feeds one remote console over TCP.  The main thread enables, ticks and  *)
(* disables the host; a worker thread owns the server and the socket; any  *)
(* thread, the worker included, prints through ConsoleSystem::print(),     *)
(* which calls the host with m_OutputMutex held.                           *)
(*                                                                         *)
(* m_StateSyncMutex, m_PrintQueueMutex and m_AvailableCommandsMutex are    *)
(* never held across a wait, a call of another mutex's owner or a socket   *)
(* call, so each of their critical sections is one step; m_OutputMutex,    *)
(* the ring's mutex and m_CommandQueueMutex are held across steps and are  *)
(* variables.  A message is its position in the order of the ring.         *)
(***************************************************************************)
EXTENDS MsgRing, FiniteSets

CONSTANTS
    Main, Worker,   \* the two threads that run the host's code
    Printers,       \* other threads of the program, which print
    NoThread,       \* the owner of a free mutex
    MaxQueueSize,   \* MAX_QUEUE_SIZE (128)
    Lost,           \* a message that send() did not take
    Kinds,          \* what clients send: see Payloads
    ClientsLeave,   \* may a client disconnect?
    ClientsStall,   \* may a client stop reading, so that send() takes nothing?
    ServerFaults,   \* may the server's own calls fail?
    MaxPrints,      \* bound: print() calls of the program
    MaxClients,     \* bound: connections made to the server
    MaxPayloads,    \* bound: payloads sent by the clients
    MaxEnables,     \* bound: enable() calls
    MaxDisables     \* bound: disable() calls of the program's own

HostThreads == Printers \cup {Main, Worker}

ASSUME ThreadsAssumption ==
    /\ IsFiniteSet(Printers)
    /\ Main /= Worker /\ Main \notin Printers /\ Worker \notin Printers
    /\ NoThread \notin HostThreads
ASSUME BoundsAssumption ==
    /\ MaxQueueSize \in Nat \ {0}
    /\ MaxPrints \in Nat /\ MaxClients \in Nat /\ MaxPayloads \in Nat
    /\ MaxEnables \in Nat /\ MaxDisables \in Nat
ASSUME FaultsAssumption ==
    /\ Kinds \subseteq {"command", "unknown", "junk"}
    /\ ClientsLeave \in BOOLEAN /\ ClientsStall \in BOOLEAN /\ ServerFaults \in BOOLEAN
    /\ Lost \notin Nat

VARIABLES
    \* ConsoleSystem
    outputMutex, ring, ringMutex, printed, cmdBuffer,
    \* ExtconHost, between the threads
    isConnected,      \* m_bIsConnected, written by main and read by who prints
    stateIsConnected, \* m_bStateIsConnected, under m_StateSyncMutex
    printQueue,       \* m_PrintQueue
    cvWaiters,        \* who is blocked on m_PrintQueueEmptyCv
    availableCommands,\* is m_AvailableCommands filled?
    commandQueue, commandQueueMutex,
    \* ExtconHost, main's part
    isWorkerRunning,  \* m_bIsWorkerRunning
    joinable,         \* has m_Thread a thread to join?
    sawConnected,     \* tick()'s bStateIsConnected
    replayed,         \* how much of the ring the replay in progress has shown
    \* WorkerThread
    isThreadRunning, listening,
    clientSocket,     \* m_pClientSocket, or 0
    isSocketValid, isClosing,
    pollEvent,        \* what poll() reported of the client's socket
    chunk,            \* the payloads of a read that are still to be parsed
    sending,          \* the message popped from the queue
    \* every thread
    pc, ret, msg,
    \* the network
    backlog,          \* connections not yet accepted
    inbox,            \* what each client has sent and the server has not read
    gone,             \* clients that closed their end
    clients, payloads,\* how many have connected, how much they have sent
    \* history and bounds
    calls, enables, disables,
    feed,             \* the messages queued since the client was accepted
    feedFrom,         \* the first message the client is to be told of
    sent,             \* those taken from the queue since, or Lost
    echoed, executed  \* the commands echoed to the console, and run by it

conVars == <<outputMutex, ring, ringMutex, printed>>
cmdVars == <<availableCommands, commandQueue, commandQueueMutex, cmdBuffer, echoed, executed>>
queueVars == <<printQueue, cvWaiters, feed, feedFrom, sent>>
stateVars == <<isConnected, stateIsConnected, isWorkerRunning, joinable, isThreadRunning>>
tickVars == <<sawConnected, replayed>>
socketVars == <<listening, clientSocket, isSocketValid, isClosing>>
pollVars == <<pollEvent, chunk, sending>>
netVars == <<backlog, inbox, gone, clients, payloads>>
threadVars == <<pc, ret, msg>>
countVars == <<calls, enables, disables>>
vars == <<conVars, cmdVars, queueVars, stateVars, tickVars, socketVars, pollVars, netVars,
          threadVars, countVars>>

Clients == 1 .. MaxClients

\* What a client sends: a command, a payload whose opcode the host does not know,
\* or bytes that are not a datagram.
Payloads == (1 .. MaxPayloads) \X Kinds

PrintLabels == {"lock", "push", "host", "enqueue", "wait"}
MainLabels == {"idle", "apply", "replay", "replaying", "list", "fetch", "join", "enabling", "threw"}
WorkerLabels == {"off", "starting", "loop", "poll", "accept", "read", "payload", "pushcmd",
                 "cleanup", "closed", "update", "send", "write", "notify", "failed", "done"}
Labels == PrintLabels \cup MainLabels \cup WorkerLabels

TypeOK ==
    /\ outputMutex \in HostThreads \cup {NoThread}
    /\ ringMutex \in {Main, NoThread}
    /\ commandQueueMutex \in {Worker, NoThread}
    /\ printed \in Nat /\ ring \in Rings(Nat)
    /\ isConnected \in BOOLEAN /\ stateIsConnected \in BOOLEAN /\ availableCommands \in BOOLEAN
    /\ isWorkerRunning \in BOOLEAN /\ joinable \in BOOLEAN /\ sawConnected \in BOOLEAN
    /\ isThreadRunning \in BOOLEAN /\ listening \in BOOLEAN
    /\ isSocketValid \in BOOLEAN /\ isClosing \in BOOLEAN
    /\ printQueue \in Seq(Nat) /\ Len(printQueue) <= MaxQueueSize
    /\ cvWaiters \subseteq HostThreads
    /\ commandQueue \in Seq(1 .. MaxPayloads) /\ cmdBuffer \in Seq(1 .. MaxPayloads)
    /\ replayed \in 0 .. RingSize
    /\ clientSocket \in Clients \cup {0}
    /\ pollEvent \in {"none", "in", "hup"}
    /\ chunk \in Seq(Payloads)
    /\ sending \in Nat /\ msg \in [HostThreads -> Nat]
    /\ pc \in [HostThreads -> Labels] /\ ret \in [HostThreads -> Labels]
    /\ backlog \in Seq(Clients) /\ gone \subseteq Clients /\ clients \in 0 .. MaxClients
    /\ inbox \in [Clients -> Seq(Payloads)] /\ payloads \in 0 .. MaxPayloads
    /\ calls \in 0 .. MaxPrints /\ enables \in 0 .. MaxEnables /\ disables \in 0 .. MaxDisables

Init ==
    /\ outputMutex = NoThread /\ ring = EmptyRing /\ ringMutex = NoThread /\ printed = 0
    /\ isConnected = FALSE /\ stateIsConnected = FALSE
    /\ printQueue = <<>> /\ cvWaiters = {} /\ availableCommands = FALSE
    /\ commandQueue = <<>> /\ commandQueueMutex = NoThread /\ cmdBuffer = <<>>
    /\ isWorkerRunning = FALSE /\ joinable = FALSE /\ sawConnected = FALSE /\ replayed = 0
    /\ isThreadRunning = FALSE /\ listening = FALSE
    /\ clientSocket = 0 /\ isSocketValid = FALSE /\ isClosing = FALSE
    /\ pollEvent = "none" /\ chunk = <<>> /\ sending = 0
    /\ pc = [t \in HostThreads |-> IF t = Worker THEN "off" ELSE "idle"]
    /\ ret = [t \in HostThreads |-> "idle"]
    /\ msg = [t \in HostThreads |-> 0]
    /\ backlog = <<>> /\ inbox = [c \in Clients |-> <<>>] /\ gone = {}
    /\ clients = 0 /\ payloads = 0
    /\ calls = 0 /\ enables = 0 /\ disables = 0
    /\ feed = <<>> /\ feedFrom = 1 /\ sent = <<>> /\ echoed = <<>> /\ executed = <<>>

-----------------------------------------------------------------------------
\* ConsoleSystem::print() with the host as its receiver, from any thread.  The
\* caller goes on at label `after'.

Goto(t, label) == pc' = [pc EXCEPT ![t] = label]

ConsolePrint(t, after) ==
    /\ Goto(t, "lock")
    /\ ret' = [ret EXCEPT ![t] = after]
    /\ UNCHANGED msg

PrintCall(t) ==
    /\ t /= Worker /\ pc[t] = "idle"
    /\ calls < MaxPrints
    /\ calls' = calls + 1
    /\ ConsolePrint(t, "idle")
    /\ UNCHANGED <<conVars, cmdVars, queueVars, stateVars, tickVars, socketVars, pollVars,
                   netVars, enables, disables>>

PrintLock(t) ==
    /\ pc[t] = "lock"
    /\ outputMutex = NoThread
    /\ outputMutex' = t
    /\ Goto(t, "push")
    /\ UNCHANGED <<ring, ringMutex, printed, cmdVars, queueVars, stateVars, tickVars, socketVars,
                   pollVars, netVars, ret, msg, countVars>>

PrintPush(t) ==
    /\ pc[t] = "push"
    /\ ringMutex = NoThread
    /\ printed' = printed + 1
    /\ ring' = RingPush(ring, printed + 1)
    /\ msg' = [msg EXCEPT ![t] = printed + 1]
    /\ Goto(t, "host")
    /\ UNCHANGED <<outputMutex, ringMutex, cmdVars, queueVars, stateVars, tickVars, socketVars,
                   pollVars, netVars, ret, countVars>>

\* ExtconHost::print() returns, and with it console print() unless the call is the
\* replay's, which does not own the mutex.
Return(t) ==
    /\ Goto(t, ret[t])
    /\ msg' = [msg EXCEPT ![t] = 0]
    /\ outputMutex' = IF outputMutex = t THEN NoThread ELSE outputMutex

\* The read of m_bIsConnected, which no mutex protects.
HostCheck(t) ==
    /\ pc[t] = "host"
    /\ IF isConnected THEN Goto(t, "enqueue") /\ UNCHANGED <<msg, outputMutex>> ELSE Return(t)
    /\ UNCHANGED <<ring, ringMutex, printed, cmdVars, queueVars, stateVars, tickVars, socketVars,
                   pollVars, netVars, ret, countVars>>

QueueMsg(t) == printQueue' = Append(printQueue, msg[t]) /\ feed' = Append(feed, msg[t])

HostEnqueue(t) ==
    /\ pc[t] = "enqueue"
    /\ Len(printQueue) < MaxQueueSize
    /\ QueueMsg(t)
    /\ Return(t)
    /\ UNCHANGED <<ring, ringMutex, printed, cmdVars, cvWaiters, feedFrom, sent, stateVars,
                   tickVars, socketVars, pollVars, netVars, ret, countVars>>

\* Mutant of WhenFull: the message is dropped.
DropWhenFull(t) == Return(t) /\ UNCHANGED cvWaiters

\* The predicate is false: the caller blocks, with its other mutexes held.
WhenFull(t) ==
    /\ cvWaiters' = cvWaiters \cup {t}
    /\ Goto(t, "wait")
    /\ UNCHANGED <<msg, outputMutex>>

HostFull(t) ==
    /\ pc[t] = "enqueue"
    /\ Len(printQueue) >= MaxQueueSize
    /\ WhenFull(t)
    /\ UNCHANGED <<ring, ringMutex, printed, cmdVars, printQueue, feed, feedFrom, sent, stateVars,
                   tickVars, socketVars, pollVars, netVars, ret, countVars>>

\* A waiting thread that was notified has m_PrintQueueMutex again: it goes on only
\* if the queue is empty by now.
HostWake(t) ==
    /\ pc[t] = "wait" /\ t \notin cvWaiters
    /\ \/ /\ printQueue = <<>>
          /\ QueueMsg(t)
          /\ Return(t)
          /\ UNCHANGED cvWaiters
       \/ /\ printQueue /= <<>>
          /\ cvWaiters' = cvWaiters \cup {t}
          /\ UNCHANGED <<printQueue, feed, pc, msg, outputMutex>>
    /\ UNCHANGED <<ring, ringMutex, printed, cmdVars, feedFrom, sent, stateVars, tickVars,
                   socketVars, pollVars, netVars, ret, countVars>>

\* A wait may end without a notification.
SpuriousWake(t) ==
    /\ t \in cvWaiters
    /\ cvWaiters' = cvWaiters \ {t}
    /\ UNCHANGED <<conVars, cmdVars, printQueue, feed, feedFrom, sent, stateVars, tickVars,
                   socketVars, pollVars, netVars, threadVars, countVars>>

-----------------------------------------------------------------------------
\* The main thread: tick(), enable(), disable(), and the console's own commands.

TickRead ==
    /\ pc[Main] = "idle"
    /\ sawConnected' = stateIsConnected
    /\ Goto(Main, "apply")
    /\ UNCHANGED <<conVars, cmdVars, queueVars, stateVars, replayed, socketVars, pollVars, netVars,
                   ret, msg, countVars>>

TickApply ==
    /\ pc[Main] = "apply"
    /\ isConnected' = sawConnected
    /\ Goto(Main, IF sawConnected /\ ~isConnected THEN "replay" ELSE "fetch")
    /\ UNCHANGED <<conVars, cmdVars, queueVars, stateIsConnected, isWorkerRunning, joinable,
                   isThreadRunning, tickVars, socketVars, pollVars, netVars, ret, msg, countVars>>

\* onClientConnected(): printPreviousMessages(this), under the ring's mutex ...
ReplayLock ==
    /\ pc[Main] = "replay"
    /\ ringMutex = NoThread
    /\ ringMutex' = Main
    /\ replayed' = 0
    /\ feedFrom' = printed - ring.size + 1
    /\ Goto(Main, "replaying")
    /\ UNCHANGED <<outputMutex, ring, printed, cmdVars, printQueue, cvWaiters, feed, sent,
                   stateVars, sawConnected, socketVars, pollVars, netVars, ret, msg, countVars>>

ReplayMsg == RingContents(ring)[replayed + 1]

ReplayNext ==
    /\ pc[Main] = "replaying"
    /\ replayed < ring.size
    /\ msg' = [msg EXCEPT ![Main] = ReplayMsg]
    /\ replayed' = replayed + 1
    /\ ret' = [ret EXCEPT ![Main] = "replaying"]
    /\ Goto(Main, "host")
    /\ UNCHANGED <<conVars, cmdVars, queueVars, stateVars, sawConnected, socketVars, pollVars,
                   netVars, countVars>>

ReplayEnd ==
    /\ pc[Main] = "replaying"
    /\ replayed = ring.size
    /\ ringMutex' = NoThread
    /\ replayed' = 0
    /\ Goto(Main, "list")
    /\ UNCHANGED <<outputMutex, ring, printed, cmdVars, queueVars, stateVars, sawConnected,
                   socketVars, pollVars, netVars, ret, msg, countVars>>

\* ... and the names of the console's items, of which there are some.
ListCommands ==
    /\ pc[Main] = "list"
    /\ availableCommands' = TRUE
    /\ Goto(Main, "fetch")
    /\ UNCHANGED <<conVars, commandQueue, commandQueueMutex, cmdBuffer, echoed, executed, queueVars,
                   stateVars, tickVars, socketVars, pollVars, netVars, ret, msg, countVars>>

\* Mutant of FetchInto: the commands are moved in front of those that wait.
FetchFirst == cmdBuffer' = commandQueue \o cmdBuffer

FetchInto == cmdBuffer' = cmdBuffer \o commandQueue

\* The loop over m_CommandQueue calls nothing that waits.
FetchCommands ==
    /\ pc[Main] = "fetch"
    /\ commandQueueMutex = NoThread
    /\ FetchInto
    /\ commandQueue' = <<>>
    /\ Goto(Main, "idle")
    /\ UNCHANGED <<conVars, availableCommands, commandQueueMutex, echoed, executed, queueVars,
                   stateVars, tickVars, socketVars, pollVars, netVars, ret, msg, countVars>>

\* processAllCommands() takes the oldest command.
Execute ==
    /\ pc[Main] = "idle"
    /\ cmdBuffer /= <<>>
    /\ executed' = Append(executed, Head(cmdBuffer))
    /\ cmdBuffer' = Tail(cmdBuffer)
    /\ UNCHANGED <<conVars, availableCommands, commandQueue, commandQueueMutex, echoed, queueVars,
                   stateVars, tickVars, socketVars, pollVars, netVars, threadVars, countVars>>

\* disable(), alone or inside enable(): the worker is told to stop and is joined.
\* m_bIsWorkerRunning is never reset, so a second call joins a thread that is no
\* longer there, which throws and ends the program.
StopWorker(after) ==
    /\ isThreadRunning' = FALSE
    /\ Goto(Main, IF joinable THEN "join" ELSE "threw")
    /\ ret' = [ret EXCEPT ![Main] = after]
    /\ UNCHANGED <<isConnected, stateIsConnected, isWorkerRunning, joinable, msg>>

Disable ==
    /\ pc[Main] = "idle"
    /\ isWorkerRunning
    /\ disables < MaxDisables
    /\ disables' = disables + 1
    /\ StopWorker("idle")
    /\ UNCHANGED <<conVars, cmdVars, queueVars, tickVars, socketVars, pollVars, netVars,
                   calls, enables>>

Join ==
    /\ pc[Main] = "join"
    /\ pc[Worker] = "done"
    /\ joinable' = FALSE
    /\ stateIsConnected' = FALSE
    /\ isConnected' = FALSE
    /\ Goto(Main, ret[Main])
    /\ UNCHANGED <<conVars, cmdVars, queueVars, isWorkerRunning, isThreadRunning, tickVars,
                   socketVars, pollVars, netVars, ret, msg, countVars>>

EnableCall ==
    /\ pc[Main] = "idle"
    /\ enables < MaxEnables
    /\ enables' = enables + 1
    /\ \/ isWorkerRunning /\ StopWorker("enabling")
       \/ ~isWorkerRunning /\ Goto(Main, "enabling") /\ UNCHANGED <<stateVars, ret, msg>>
    /\ UNCHANGED <<conVars, cmdVars, queueVars, tickVars, socketVars, pollVars, netVars,
                   calls, disables>>

EnableStart ==
    /\ pc[Main] = "enabling"
    /\ isThreadRunning' = TRUE /\ joinable' = TRUE /\ isWorkerRunning' = TRUE
    /\ pc' = [pc EXCEPT ![Main] = "idle", ![Worker] = "starting"]
    /\ UNCHANGED <<conVars, cmdVars, queueVars, isConnected, stateIsConnected, tickVars, socketVars,
                   pollVars, netVars, ret, msg, countVars>>

-----------------------------------------------------------------------------
\* The worker: WorkerThread::run() and, through it, TcpServer4::poll().

WorkerStart ==
    /\ pc[Worker] = "starting"
    /\ \/ /\ ~listening
          /\ listening' = TRUE
          /\ Goto(Worker, "loop")
          /\ UNCHANGED <<ret, msg>>
       \/ /\ listening \/ ServerFaults      \* startListening() throws
          /\ ConsolePrint(Worker, "done")
          /\ UNCHANGED listening
    /\ UNCHANGED <<conVars, cmdVars, queueVars, stateVars, tickVars, clientSocket, isSocketValid,
                   isClosing, pollVars, netVars, countVars>>

WorkerLoop ==
    /\ pc[Worker] = "loop"
    /\ Goto(Worker, IF isThreadRunning THEN "poll" ELSE "done")
    /\ UNCHANGED <<conVars, cmdVars, queueVars, stateVars, tickVars, socketVars, pollVars, netVars,
                   ret, msg, countVars>>

\* poll() reports what is there at this moment for both sockets, or times out.
Poll ==
    /\ pc[Worker] = "poll"
    /\ \/ clientSocket /= 0 /\ inbox[clientSocket] /= <<>> /\ pollEvent' = "in"
       \/ clientSocket \in gone /\ pollEvent' \in {"in", "hup"}
       \/ /\ clientSocket /= 0 => clientSocket \notin gone /\ inbox[clientSocket] = <<>>
          /\ pollEvent' = "none"
    /\ Goto(Worker, IF backlog /= <<>> THEN "accept" ELSE "read")
    /\ UNCHANGED <<conVars, cmdVars, queueVars, stateVars, tickVars, socketVars, chunk, sending,
                   netVars, ret, msg, countVars>>

\* poll() itself fails: stopListening() closes the client, with its callback, and the
\* exception ends the thread.
PollFails ==
    /\ pc[Worker] = "poll"
    /\ ServerFaults
    /\ \/ /\ clientSocket /= 0
          /\ clientSocket' = 0
          /\ isSocketValid' = FALSE
          /\ ConsolePrint(Worker, "failed")
       \/ /\ clientSocket = 0
          /\ Goto(Worker, "failed")
          /\ UNCHANGED <<ret, msg, clientSocket, isSocketValid>>
    /\ UNCHANGED <<conVars, cmdVars, queueVars, stateVars, tickVars, listening, isClosing, pollVars,
                   netVars, countVars>>

ServerFailed ==
    /\ pc[Worker] = "failed"
    /\ stateIsConnected' = FALSE
    /\ listening' = FALSE
    /\ isClosing' = FALSE
    /\ ConsolePrint(Worker, "done")
    /\ UNCHANGED <<conVars, cmdVars, queueVars, isConnected, isWorkerRunning, joinable,
                   isThreadRunning, tickVars, clientSocket, isSocketValid, pollVars, netVars,
                   countVars>>

\* Mutant of ClearQueue: the messages for the previous client stay.
KeepQueue == UNCHANGED printQueue

ClearQueue == printQueue' = <<>>

\* acceptConnections(): the first client is adopted by onConnAccepted(), whose two
\* critical sections are nested, the others are closed.
AcceptOne ==
    /\ pc[Worker] = "accept"
    /\ backlog /= <<>>
    /\ backlog' = Tail(backlog)
    /\ \/ /\ clientSocket = 0
          /\ clientSocket' = Head(backlog)
          /\ isSocketValid' = TRUE
          /\ stateIsConnected' = TRUE
          /\ ClearQueue
          /\ feed' = <<>> /\ sent' = <<>> /\ feedFrom' = printed + 1
       \/ /\ clientSocket /= 0
          /\ UNCHANGED <<clientSocket, isSocketValid, stateIsConnected, printQueue, feed, sent,
                         feedFrom>>
    /\ UNCHANGED <<conVars, cmdVars, cvWaiters, isConnected, isWorkerRunning, joinable,
                   isThreadRunning, tickVars, listening, isClosing, pollVars, inbox, gone, clients,
                   payloads, threadVars, countVars>>

AcceptEnd ==
    /\ pc[Worker] = "accept"
    /\ backlog = <<>>
    /\ Goto(Worker, "read")
    /\ UNCHANGED <<conVars, cmdVars, queueVars, stateVars, tickVars, socketVars, pollVars, netVars,
                   ret, msg, countVars>>

\* accept() fails: a connection that went away ends the loop, anything else throws.
AcceptFails ==
    /\ pc[Worker] = "accept"
    /\ ServerFaults
    /\ \/ /\ backlog /= <<>>
          /\ backlog' = Tail(backlog)
          /\ Goto(Worker, "read")
          /\ UNCHANGED <<ret, msg>>
       \/ ConsolePrint(Worker, "done") /\ UNCHANGED backlog
    /\ UNCHANGED <<conVars, cmdVars, queueVars, stateVars, tickVars, socketVars, pollVars, inbox,
                   gone, clients, payloads, countVars>>

\* onReadyRead(), and the branches of poll() that close the socket instead: it is
\* marked and goes away at the end of the poll.
CloseClient == isClosing' = TRUE /\ isSocketValid' = FALSE

ReadSkip ==
    /\ pc[Worker] = "read"
    /\ \/ pollEvent = "none" /\ UNCHANGED isClosing
       \/ pollEvent = "hup" /\ isClosing' = TRUE
       \/ pollEvent = "in" /\ isClosing /\ UNCHANGED isClosing
    /\ pollEvent' = "none"
    /\ Goto(Worker, "cleanup")
    /\ UNCHANGED <<conVars, cmdVars, queueVars, stateVars, tickVars, listening, clientSocket,
                   isSocketValid, chunk, sending, netVars, ret, msg, countVars>>

Read ==
    /\ pc[Worker] = "read"
    /\ pollEvent = "in" /\ ~isClosing
    /\ \/ /\ inbox[clientSocket] /= <<>>
          /\ chunk' = inbox[clientSocket]
          /\ inbox' = [inbox EXCEPT ![clientSocket] = <<>>]
          /\ Goto(Worker, "payload")
          /\ UNCHANGED <<ret, msg, isClosing, isSocketValid>>
       \/ /\ inbox[clientSocket] = <<>>        \* the end of the stream
          /\ CloseClient
          /\ Goto(Worker, "cleanup")
          /\ UNCHANGED <<ret, msg, chunk, inbox>>
       \/ /\ clientSocket \in gone             \* recv() fails
          /\ CloseClient
          /\ ConsolePrint(Worker, "cleanup")
          /\ UNCHANGED <<chunk, inbox>>
    /\ pollEvent' = "none"
    /\ UNCHANGED <<conVars, cmdVars, queueVars, stateVars, tickVars, listening, clientSocket,
                   sending, backlog, gone, clients, payloads, countVars>>

\* The parser calls onPayloadReceived() for each datagram.  A command is echoed to
\* the console with m_CommandQueueMutex held.
PayloadCommand ==
    /\ pc[Worker] = "payload"
    /\ chunk /= <<>> /\ Head(chunk)[2] = "command"
    /\ commandQueueMutex = NoThread
    /\ commandQueueMutex' = Worker
    /\ echoed' = Append(echoed, Head(chunk)[1])
    /\ ConsolePrint(Worker, "pushcmd")
    /\ UNCHANGED <<conVars, availableCommands, commandQueue, cmdBuffer, executed, queueVars,
                   stateVars, tickVars, socketVars, pollVars, netVars, countVars>>

PushCommand ==
    /\ pc[Worker] = "pushcmd"
    /\ commandQueue' = Append(commandQueue, Head(chunk)[1])
    /\ chunk' = Tail(chunk)
    /\ commandQueueMutex' = NoThread
    /\ Goto(Worker, "payload")
    /\ UNCHANGED <<conVars, availableCommands, cmdBuffer, echoed, executed, queueVars, stateVars,
                   tickVars, socketVars, pollEvent, sending, netVars, ret, msg, countVars>>

PayloadBad ==
    /\ pc[Worker] = "payload"
    /\ chunk /= <<>>
    /\ \/ /\ Head(chunk)[2] = "unknown"
          /\ chunk' = Tail(chunk)
          /\ ConsolePrint(Worker, "payload")
          /\ UNCHANGED <<isClosing, isSocketValid>>
       \/ /\ Head(chunk)[2] = "junk"
          /\ chunk' = <<>>
          /\ CloseClient
          /\ ConsolePrint(Worker, "cleanup")
    /\ UNCHANGED <<conVars, cmdVars, queueVars, stateVars, tickVars, listening, clientSocket,
                   pollEvent, sending, netVars, countVars>>

PayloadEnd ==
    /\ pc[Worker] = "payload"
    /\ chunk = <<>>
    /\ Goto(Worker, "cleanup")
    /\ UNCHANGED <<conVars, cmdVars, queueVars, stateVars, tickVars, socketVars, pollVars, netVars,
                   ret, msg, countVars>>

\* The end of poll(): onConnClosed() for a socket that was closed.
Cleanup ==
    /\ pc[Worker] = "cleanup"
    /\ \/ /\ isClosing
          /\ clientSocket' = 0
          /\ isSocketValid' = FALSE
          /\ ConsolePrint(Worker, "closed")
       \/ /\ ~isClosing
          /\ Goto(Worker, "update")
          /\ UNCHANGED <<ret, msg, clientSocket, isSocketValid>>
    /\ UNCHANGED <<conVars, cmdVars, queueVars, stateVars, tickVars, listening, isClosing, pollVars,
                   netVars, countVars>>

\* Mutant of MarkDisconnected: the main thread is not told.
KeepState == UNCHANGED stateIsConnected

MarkDisconnected == stateIsConnected' = FALSE

ClientClosed ==
    /\ pc[Worker] = "closed"
    /\ MarkDisconnected
    /\ isClosing' = FALSE
    /\ Goto(Worker, "update")
    /\ UNCHANGED <<conVars, cmdVars, queueVars, isConnected, isWorkerRunning, joinable,
                   isThreadRunning, tickVars, listening, clientSocket, isSocketValid, pollVars,
                   netVars, ret, msg, countVars>>

-----------------------------------------------------------------------------
\* updateConnectedClient()

\* A client that does not read makes send() take nothing, which write() reports as
\* success; one that is gone makes it fail.
Stalls == ClientsStall
Fails == clientSocket \in gone

WriteFailed ==
    /\ isClosing' = TRUE
    /\ ConsolePrint(Worker, "loop")

UpdateClient ==
    /\ pc[Worker] = "update"
    /\ \/ /\ ~isSocketValid
          /\ Goto(Worker, "loop")
          /\ UNCHANGED <<ret, msg, isClosing, availableCommands>>
       \/ /\ isSocketValid
          /\ availableCommands' = FALSE
          /\ \/ Goto(Worker, "send") /\ UNCHANGED <<ret, msg, isClosing>>
             \/ availableCommands /\ Fails /\ WriteFailed
    /\ UNCHANGED <<conVars, commandQueue, commandQueueMutex, cmdBuffer, echoed, executed, queueVars,
                   stateVars, tickVars, listening, clientSocket, isSocketValid, pollVars, netVars,
                   countVars>>

MsgToSend == printQueue /= <<>>

SendNext ==
    /\ pc[Worker] = "send"
    /\ MsgToSend
    /\ sending' = Head(printQueue)
    /\ printQueue' = Tail(printQueue)
    /\ Goto(Worker, "write")
    /\ UNCHANGED <<conVars, cmdVars, cvWaiters, feed, feedFrom, sent, stateVars, tickVars,
                   socketVars, pollEvent, chunk, netVars, ret, msg, countVars>>

SendWrite ==
    /\ pc[Worker] = "write"
    /\ \/ /\ sent' = Append(sent, sending)
          /\ Goto(Worker, "send")
          /\ UNCHANGED <<ret, msg, isClosing>>
       \/ /\ Stalls
          /\ sent' = Append(sent, Lost)
          /\ Goto(Worker, "send")
          /\ UNCHANGED <<ret, msg, isClosing>>
       \/ /\ Fails
          /\ sent' = Append(sent, Lost)
          /\ WriteFailed
    /\ sending' = 0
    /\ UNCHANGED <<conVars, cmdVars, printQueue, cvWaiters, feed, feedFrom, stateVars, tickVars,
                   listening, clientSocket, isSocketValid, pollEvent, chunk, netVars, countVars>>

SendEnd ==
    /\ pc[Worker] = "send"
    /\ ~MsgToSend
    /\ Goto(Worker, "notify")
    /\ UNCHANGED <<conVars, cmdVars, queueVars, stateVars, tickVars, socketVars, pollVars, netVars,
                   ret, msg, countVars>>

WakePrinters == cvWaiters' = {}

Notify ==
    /\ pc[Worker] = "notify"
    /\ WakePrinters
    /\ Goto(Worker, "loop")
    /\ UNCHANGED <<conVars, cmdVars, printQueue, feed, feedFrom, sent, stateVars, tickVars,
                   socketVars, pollVars, netVars, ret, msg, countVars>>

-----------------------------------------------------------------------------
\* The network and the program at the other end.

ClientConnects ==
    /\ listening
    /\ clients < MaxClients
    /\ clients' = clients + 1
    /\ backlog' = Append(backlog, clients + 1)
    /\ UNCHANGED <<conVars, cmdVars, queueVars, stateVars, tickVars, socketVars, pollVars, inbox,
                   gone, payloads, threadVars, countVars>>

ClientSends ==
    /\ payloads < MaxPayloads
    /\ payloads' = payloads + 1
    /\ \E c \in (1 .. clients) \ gone : \E kind \in Kinds :
         inbox' = [inbox EXCEPT ![c] = Append(@, <<payloads + 1, kind>>)]
    /\ UNCHANGED <<conVars, cmdVars, queueVars, stateVars, tickVars, socketVars, pollVars, backlog,
                   gone, clients, threadVars, countVars>>

ClientLeaves ==
    /\ ClientsLeave
    /\ \E c \in (1 .. clients) \ gone : gone' = gone \cup {c}
    /\ UNCHANGED <<conVars, cmdVars, queueVars, stateVars, tickVars, socketVars, pollVars, backlog,
                   inbox, clients, payloads, threadVars, countVars>>

-----------------------------------------------------------------------------
PrintStep(t) ==
    PrintLock(t) \/ PrintPush(t) \/ HostCheck(t) \/ HostEnqueue(t) \/ HostFull(t) \/ HostWake(t)
MainStep ==
    \/ TickApply \/ ReplayLock \/ ReplayNext \/ ReplayEnd \/ ListCommands \/ FetchCommands
    \/ Join \/ EnableStart
WorkerStep ==
    \/ WorkerStart \/ WorkerLoop \/ Poll \/ PollFails \/ ServerFailed
    \/ AcceptOne \/ AcceptEnd \/ AcceptFails
    \/ ReadSkip \/ Read \/ PayloadCommand \/ PushCommand \/ PayloadBad \/ PayloadEnd
    \/ Cleanup \/ ClientClosed \/ UpdateClient \/ SendNext \/ SendWrite \/ SendEnd \/ Notify
Call ==
    \/ \E t \in HostThreads : PrintCall(t)
    \/ TickRead \/ Execute \/ Disable \/ EnableCall
Environment ==
    \/ \E t \in HostThreads : SpuriousWake(t)
    \/ ClientConnects \/ ClientSends \/ ClientLeaves

Next == (\E t \in HostThreads : PrintStep(t)) \/ MainStep \/ WorkerStep \/ Call \/ Environment

Spec == Init /\ [][Next]_vars

\* Every thread takes the steps of its call, mutexes are granted in the end, and the
\* main loop keeps ticking.
Fairness ==
    /\ \A t \in Printers : SF_vars(PrintStep(t))
    /\ SF_vars(PrintStep(Worker) \/ WorkerStep)
    /\ SF_vars(PrintStep(Main) \/ MainStep)
    /\ SF_vars(TickRead)

FairSpec == Spec /\ Fairness
-----------------------------------------------------------------------------
\* Properties

\* The client is sent what was queued since it was accepted, in that order: nothing
\* that was queued for the client before it, nothing twice, and no message takes the
\* place of one that send() did not take.
FeedDelivered ==
    /\ Len(sent) <= Len(feed)
    /\ \A i \in DOMAIN sent : sent[i] \in {feed[i], Lost}

\* No gap between the replay and the live messages: once the main thread has replayed
\* the ring, every message since the oldest one replayed (since the accept, if the
\* main thread had not noticed that the previous client left) has been queued, those
\* included that were printed while the flag was set and the ring replayed.
Replaying == pc[Main] = "replaying" \/ (pc[Main] \in PrintLabels /\ ret[Main] = "replaying")
Settled == outputMutex = NoThread /\ pc[Main] /= "replay" /\ ~Replaying
FeedComplete ==
    isConnected /\ Settled => \A m \in feedFrom .. printed : \E i \in DOMAIN feed : feed[i] = m

\* The command whose echo is being printed.
InProgress ==
    IF pc[Worker] = "pushcmd" \/ (pc[Worker] \in PrintLabels /\ ret[Worker] = "pushcmd")
    THEN <<Head(chunk)[1]>> ELSE <<>>

\* The console runs the commands that it echoed, in the order of their echoes: none is
\* lost, repeated or overtaken on its way through the two queues.
CommandsInOrder == echoed = executed \o cmdBuffer \o commandQueue \o InProgress

\* Whenever the worker starts a round, the state that it shares with the main thread
\* says whether there is a client, although a join resets it from the other side.
StateMatchesClient ==
    pc[Worker] = "loop" => (stateIsConnected <=> clientSocket /= 0)

\* MAX_QUEUE_SIZE (extcon_host.h): "If it's more than that, print call will wait until
\* it's empty", and then go on.
WaitEnds == \A t \in HostThreads : pc[t] = "wait" ~> pc[t] /= "wait"

\* disable() (extcon_host.h): "Disconnects all clients and closes the server socket."
DisableCloses ==
    pc[Main] = "idle" /\ isWorkerRunning /\ ~joinable => ~listening /\ clientSocket = 0
=============================================================================
