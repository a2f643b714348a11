------------------------- MODULE ExtconHost_proofs -------------------------
(***************************************************************************)
(* Theorems about ExtconHost, for any printers, queue and ring sizes,      *)
(* kinds of payloads, faults and numbers of calls.                         *)
(***************************************************************************)
EXTENDS ExtconHost, MsgRing_proofs

-----------------------------------------------------------------------------
\* Who is where: only the worker runs the worker's code and only the main thread the
\* host's other half, there is no worker thread before the first enable() nor while
\* enable() starts one, and a print() goes back to where it was called from.

WorkerRets == {"done", "failed", "cleanup", "pushcmd", "payload", "closed", "loop"}

PlaceOf(t) ==
    /\ t = Worker => /\ pc[t] \in PrintLabels \cup WorkerLabels
                     /\ pc[t] \in PrintLabels => ret[t] \in WorkerRets
    /\ t = Main => /\ pc[t] \in PrintLabels \cup MainLabels
                   /\ pc[t] \in PrintLabels => ret[t] \in {"idle", "replaying"}
                   /\ pc[t] = "join" => ret[t] \in {"idle", "enabling"}
                   /\ pc[t] = "enabling" => pc[Worker] \in {"off", "done"}
    /\ t \in Printers => /\ pc[t] \in PrintLabels \cup {"idle"}
                         /\ pc[t] \in PrintLabels => ret[t] = "idle"

Placed ==
    /\ \A t \in HostThreads : PlaceOf(t)
    /\ ~isWorkerRunning => pc[Worker] = "off"

Booleans ==
    /\ isConnected \in BOOLEAN /\ stateIsConnected \in BOOLEAN /\ availableCommands \in BOOLEAN
    /\ isWorkerRunning \in BOOLEAN /\ joinable \in BOOLEAN /\ sawConnected \in BOOLEAN
    /\ isThreadRunning \in BOOLEAN /\ listening \in BOOLEAN
    /\ isSocketValid \in BOOLEAN /\ isClosing \in BOOLEAN

Types ==
    /\ outputMutex \in HostThreads \cup {NoThread}
    /\ ringMutex \in {Main, NoThread}
    /\ commandQueueMutex \in {Worker, NoThread}
    /\ cvWaiters \subseteq HostThreads
    /\ pollEvent \in {"none", "in", "hup"}
    /\ pc \in [HostThreads -> Labels] /\ ret \in [HostThreads -> Labels]
    /\ calls \in 0 .. MaxPrints /\ enables \in 0 .. MaxEnables /\ disables \in 0 .. MaxDisables

LEMMA InitPlaced == Init => Types /\ Placed
BY ThreadsAssumption, BoundsAssumption
   DEF Init, Types, Placed, PlaceOf, HostThreads, Labels, PrintLabels, MainLabels, WorkerLabels

LEMMA NextPlaced == Types /\ Placed /\ [Next]_vars => Types' /\ Placed'
<1> SUFFICES ASSUME Types, Placed, [Next]_vars PROVE Types' /\ Placed'
  OBVIOUS
<1> USE ThreadsAssumption, BoundsAssumption
    DEF Types, Placed, PlaceOf, HostThreads, Labels, PrintLabels, MainLabels, WorkerLabels, WorkerRets,
        Goto, ConsolePrint, Return, conVars, cmdVars, queueVars, stateVars, tickVars, socketVars,
        pollVars, netVars, threadVars, countVars
<1>1. ASSUME NEW t \in HostThreads, PrintStep(t) PROVE Types' /\ Placed'
  <2>1. CASE PrintLock(t)
    BY <2>1 DEF PrintLock
  <2>2. CASE PrintPush(t)
    BY <2>2 DEF PrintPush
  <2>3. CASE HostCheck(t)
    BY <2>3 DEF HostCheck
  <2>4. CASE HostEnqueue(t)
    BY <2>4 DEF HostEnqueue, QueueMsg
  <2>5. CASE HostFull(t)
    BY <2>5 DEF HostFull, WhenFull
  <2>6. CASE HostWake(t)
    BY <2>6 DEF HostWake, QueueMsg
  <2> QED
    BY <1>1, <2>1, <2>2, <2>3, <2>4, <2>5, <2>6 DEF PrintStep
<1>2. ASSUME MainStep PROVE Types' /\ Placed'
  <2>1. CASE TickApply
    BY <2>1 DEF TickApply
  <2>2. CASE ReplayLock
    BY <2>2 DEF ReplayLock
  <2>3. CASE ReplayNext
    BY <2>3 DEF ReplayNext, ReplayMsg
  <2>4. CASE ReplayEnd
    BY <2>4 DEF ReplayEnd
  <2>5. CASE ListCommands
    BY <2>5 DEF ListCommands
  <2>6. CASE FetchCommands
    BY <2>6 DEF FetchCommands, FetchInto
  <2>7. CASE Join
    BY <2>7 DEF Join
  <2>8. CASE EnableStart
    BY <2>8 DEF EnableStart
  <2> QED
    BY <1>2, <2>1, <2>2, <2>3, <2>4, <2>5, <2>6, <2>7, <2>8 DEF MainStep
<1>3. ASSUME WorkerStep PROVE Types' /\ Placed'
  <2>1. CASE WorkerStart
    BY <2>1 DEF WorkerStart
  <2>2. CASE WorkerLoop
    BY <2>2 DEF WorkerLoop
  <2>3. CASE Poll
    BY <2>3 DEF Poll
  <2>4. CASE PollFails
    BY <2>4 DEF PollFails
  <2>5. CASE ServerFailed
    BY <2>5 DEF ServerFailed
  <2>6. CASE AcceptOne
    BY <2>6 DEF AcceptOne, ClearQueue
  <2>7. CASE AcceptEnd
    BY <2>7 DEF AcceptEnd
  <2>8. CASE AcceptFails
    BY <2>8 DEF AcceptFails
  <2>9. CASE ReadSkip
    BY <2>9 DEF ReadSkip
  <2>10. CASE Read
    BY <2>10 DEF Read, CloseClient
  <2>11. CASE PayloadCommand
    BY <2>11 DEF PayloadCommand
  <2>12. CASE PushCommand
    BY <2>12 DEF PushCommand
  <2>13. CASE PayloadBad
    BY <2>13 DEF PayloadBad, CloseClient
  <2>14. CASE PayloadEnd
    BY <2>14 DEF PayloadEnd
  <2>15. CASE Cleanup
    BY <2>15 DEF Cleanup
  <2>16. CASE ClientClosed
    BY <2>16 DEF ClientClosed, MarkDisconnected
  <2>17. CASE UpdateClient
    BY <2>17 DEF UpdateClient, WriteFailed, Fails
  <2>18. CASE SendNext
    BY <2>18 DEF SendNext, MsgToSend
  <2>19. CASE SendWrite
    BY <2>19 DEF SendWrite, WriteFailed, Fails, Stalls
  <2>20. CASE SendEnd
    BY <2>20 DEF SendEnd, MsgToSend
  <2>21. CASE Notify
    BY <2>21 DEF Notify, WakePrinters
  <2> QED
    BY <1>3, <2>1, <2>2, <2>3, <2>4, <2>5, <2>6, <2>7, <2>8, <2>9, <2>10, <2>11, <2>12, <2>13,
       <2>14, <2>15, <2>16, <2>17, <2>18, <2>19, <2>20, <2>21 DEF WorkerStep
<1>4. ASSUME Call PROVE Types' /\ Placed'
  <2>1. ASSUME NEW t \in HostThreads, PrintCall(t) PROVE Types' /\ Placed'
    BY <2>1 DEF PrintCall
  <2>2. CASE TickRead
    BY <2>2 DEF TickRead
  <2>3. CASE Execute
    BY <2>3 DEF Execute
  <2>4. CASE Disable
    BY <2>4 DEF Disable, StopWorker
  <2>5. CASE EnableCall
    BY <2>5 DEF EnableCall, StopWorker
  <2> QED
    BY <1>4, <2>1, <2>2, <2>3, <2>4, <2>5 DEF Call
<1>5. ASSUME Environment PROVE Types' /\ Placed'
  <2>1. ASSUME NEW t \in HostThreads, SpuriousWake(t) PROVE Types' /\ Placed'
    BY <2>1 DEF SpuriousWake
  <2>2. CASE ClientConnects
    BY <2>2 DEF ClientConnects
  <2>3. CASE ClientSends
    BY <2>3 DEF ClientSends
  <2>4. CASE ClientLeaves
    BY <2>4 DEF ClientLeaves
  <2> QED
    BY <1>5, <2>1, <2>2, <2>3, <2>4 DEF Environment
<1>6. CASE UNCHANGED vars
  BY <1>6 DEF vars
<1> QED
  BY <1>1, <1>2, <1>3, <1>4, <1>5, <1>6 DEF Next

LEMMA InitBooleans == Init => Booleans
BY Zenon DEF Init, Booleans

LEMMA NextBooleans == Booleans /\ [Next]_vars => Booleans'
<1> SUFFICES ASSUME Booleans, [Next]_vars PROVE Booleans'
  OBVIOUS
<1> USE Zenon
    DEF Booleans, conVars, cmdVars, queueVars, stateVars, tickVars, socketVars, pollVars, netVars,
        threadVars, countVars
<1>1. ASSUME NEW t \in HostThreads, PrintStep(t) PROVE Booleans'
  <2>1. CASE PrintLock(t)
    BY <2>1 DEF PrintLock
  <2>2. CASE PrintPush(t)
    BY <2>2 DEF PrintPush
  <2>3. CASE HostCheck(t)
    BY <2>3 DEF HostCheck
  <2>4. CASE HostEnqueue(t)
    BY <2>4 DEF HostEnqueue, QueueMsg
  <2>5. CASE HostFull(t)
    BY <2>5 DEF HostFull, WhenFull
  <2>6. CASE HostWake(t)
    BY <2>6 DEF HostWake, QueueMsg
  <2> QED
    BY <1>1, <2>1, <2>2, <2>3, <2>4, <2>5, <2>6 DEF PrintStep
<1>2. ASSUME MainStep PROVE Booleans'
  <2>1. CASE TickApply
    BY <2>1 DEF TickApply
  <2>2. CASE ReplayLock
    BY <2>2 DEF ReplayLock
  <2>3. CASE ReplayNext
    BY <2>3 DEF ReplayNext, ReplayMsg
  <2>4. CASE ReplayEnd
    BY <2>4 DEF ReplayEnd
  <2>5. CASE ListCommands
    BY <2>5 DEF ListCommands
  <2>6. CASE FetchCommands
    BY <2>6 DEF FetchCommands, FetchInto
  <2>7. CASE Join
    BY <2>7 DEF Join
  <2>8. CASE EnableStart
    BY <2>8 DEF EnableStart
  <2> QED
    BY <1>2, <2>1, <2>2, <2>3, <2>4, <2>5, <2>6, <2>7, <2>8 DEF MainStep
<1>3. ASSUME WorkerStep PROVE Booleans'
  <2>1. CASE WorkerStart
    BY <2>1 DEF WorkerStart
  <2>2. CASE WorkerLoop
    BY <2>2 DEF WorkerLoop
  <2>3. CASE Poll
    BY <2>3 DEF Poll
  <2>4. CASE PollFails
    BY <2>4 DEF PollFails
  <2>5. CASE ServerFailed
    BY <2>5 DEF ServerFailed
  <2>6. CASE AcceptOne
    BY <2>6 DEF AcceptOne, ClearQueue
  <2>7. CASE AcceptEnd
    BY <2>7 DEF AcceptEnd
  <2>8. CASE AcceptFails
    BY <2>8 DEF AcceptFails
  <2>9. CASE ReadSkip
    BY <2>9 DEF ReadSkip
  <2>10. CASE Read
    BY <2>10 DEF Read, CloseClient
  <2>11. CASE PayloadCommand
    BY <2>11 DEF PayloadCommand
  <2>12. CASE PushCommand
    BY <2>12 DEF PushCommand
  <2>13. CASE PayloadBad
    BY <2>13 DEF PayloadBad, CloseClient
  <2>14. CASE PayloadEnd
    BY <2>14 DEF PayloadEnd
  <2>15. CASE Cleanup
    BY <2>15 DEF Cleanup
  <2>16. CASE ClientClosed
    BY <2>16 DEF ClientClosed, MarkDisconnected
  <2>17. CASE UpdateClient
    BY <2>17 DEF UpdateClient, WriteFailed, Fails
  <2>18. CASE SendNext
    BY <2>18 DEF SendNext, MsgToSend
  <2>19. CASE SendWrite
    BY <2>19 DEF SendWrite, WriteFailed, Fails, Stalls
  <2>20. CASE SendEnd
    BY <2>20 DEF SendEnd, MsgToSend
  <2>21. CASE Notify
    BY <2>21 DEF Notify, WakePrinters
  <2> QED
    BY <1>3, <2>1, <2>2, <2>3, <2>4, <2>5, <2>6, <2>7, <2>8, <2>9, <2>10, <2>11, <2>12, <2>13,
       <2>14, <2>15, <2>16, <2>17, <2>18, <2>19, <2>20, <2>21 DEF WorkerStep
<1>4. ASSUME Call PROVE Booleans'
  <2>1. ASSUME NEW t \in HostThreads, PrintCall(t) PROVE Booleans'
    BY <2>1 DEF PrintCall
  <2>2. CASE TickRead
    BY <2>2 DEF TickRead
  <2>3. CASE Execute
    BY <2>3 DEF Execute
  <2>4. CASE Disable
    BY <2>4 DEF Disable, StopWorker
  <2>5. CASE EnableCall
    BY <2>5 DEF EnableCall, StopWorker
  <2> QED
    BY <1>4, <2>1, <2>2, <2>3, <2>4, <2>5 DEF Call
<1>5. ASSUME Environment PROVE Booleans'
  <2>1. ASSUME NEW t \in HostThreads, SpuriousWake(t) PROVE Booleans'
    BY <2>1 DEF SpuriousWake
  <2>2. CASE ClientConnects
    BY <2>2 DEF ClientConnects
  <2>3. CASE ClientSends
    BY <2>3 DEF ClientSends
  <2>4. CASE ClientLeaves
    BY <2>4 DEF ClientLeaves
  <2> QED
    BY <1>5, <2>1, <2>2, <2>3, <2>4 DEF Environment
<1>6. CASE UNCHANGED vars
  BY <1>6 DEF vars
<1> QED
  BY <1>1, <1>2, <1>3, <1>4, <1>5, <1>6 DEF Next

-----------------------------------------------------------------------------
\* The ring and the messages that threads carry: every message is a number, since a
\* replay shows only slots that push() has written.

RingInv ==
    /\ ring \in Rings(Nat) /\ RingFilled(ring) /\ RingWritten(ring, Nat)
    /\ printed \in Nat
    /\ replayed \in 0 .. RingSize
    /\ msg \in [HostThreads -> Nat]

MsgType == msg \in [HostThreads -> Nat] => msg' \in [HostThreads -> Nat]

LEMMA RingSteps ==
    [Next]_vars => \/ UNCHANGED <<ring, printed, replayed>> /\ MsgType
                   \/ \E t \in HostThreads : PrintPush(t)
                   \/ ReplayLock \/ ReplayNext \/ ReplayEnd
<1> DEFINE Stays == UNCHANGED <<ring, printed, replayed>> /\ MsgType
<1> USE DEF MsgType, conVars, cmdVars, queueVars, stateVars, tickVars, socketVars, pollVars, netVars,
            threadVars, countVars, ConsolePrint, Return
<1>1. ASSUME NEW t \in HostThreads, PrintStep(t) PROVE Stays \/ PrintPush(t)
  BY <1>1 DEF PrintStep, PrintLock, HostCheck, HostEnqueue, HostFull, WhenFull, HostWake
<1>2. ASSUME MainStep PROVE Stays \/ ReplayLock \/ ReplayNext \/ ReplayEnd
  BY <1>2 DEF MainStep, TickApply, ListCommands, FetchCommands, Join, EnableStart
<1>3. ASSUME WorkerStep PROVE Stays
  BY <1>3 DEF WorkerStep, WorkerStart, WorkerLoop, Poll, PollFails, ServerFailed, AcceptOne,
              AcceptEnd, AcceptFails, ReadSkip, Read, PayloadCommand, PushCommand, PayloadBad,
              PayloadEnd, Cleanup, ClientClosed, UpdateClient, WriteFailed, SendNext, SendWrite,
              SendEnd, Notify
<1>4. ASSUME Call PROVE Stays
  BY <1>4 DEF Call, PrintCall, TickRead, Execute, Disable, EnableCall, StopWorker
<1>5. ASSUME Environment PROVE Stays
  BY <1>5 DEF Environment, SpuriousWake, ClientConnects, ClientSends, ClientLeaves
<1> QED
  BY <1>1, <1>2, <1>3, <1>4, <1>5 DEF Next, vars

LEMMA InitRing == Init => RingInv
BY RingSizeAssumption
   DEF Init, RingInv, EmptyRing, Rings, Slots, RingFilled, RingWritten

LEMMA NextRing == RingInv /\ [Next]_vars => RingInv'
<1> SUFFICES ASSUME RingInv, [Next]_vars PROVE RingInv'
  OBVIOUS
<1>1. CASE UNCHANGED <<ring, printed, replayed>> /\ MsgType
  BY <1>1 DEF RingInv, MsgType
<1>2. ASSUME NEW t \in HostThreads, PrintPush(t) PROVE RingInv'
  <2>1. ring' = RingPush(ring, printed + 1) /\ printed + 1 \in Nat
    BY <1>2 DEF PrintPush, RingInv
  <2>2. ring' \in Rings(Nat) /\ RingFilled(ring')
    BY <2>1, RingPushType DEF RingInv
  <2>3. RingWritten(ring', Nat)
    BY <2>1, RingPushWritten DEF RingInv
  <2> QED
    BY <1>2, <2>2, <2>3 DEF PrintPush, RingInv, tickVars
<1>3. CASE ReplayLock
  BY <1>3, RingSizeAssumption DEF ReplayLock, RingInv
<1>4. CASE ReplayNext
  <2>1. replayed + 1 \in 1 .. ring.size /\ replayed + 1 \in 0 .. RingSize
    BY <1>4, RingSizeAssumption DEF ReplayNext, RingInv, Rings
  <2>2. ReplayMsg \in Nat
    BY <2>1, RingShowsWritten DEF ReplayMsg, RingInv
  <2> QED
    BY <1>4, <2>1, <2>2 DEF ReplayNext, RingInv, conVars
<1>5. CASE ReplayEnd
  BY <1>5, RingSizeAssumption DEF ReplayEnd, RingInv
<1> QED
  BY <1>1, <1>2, <1>3, <1>4, <1>5, RingSteps

-----------------------------------------------------------------------------
\* The queue: what was queued since the client was accepted is what was taken from the
\* queue, then the message that the worker holds, then the queue.

Held == IF pc[Worker] = "write" THEN 1 ELSE 0

QueueInv ==
    /\ printQueue \in Seq(Nat) /\ Len(printQueue) <= MaxQueueSize
    /\ sending \in Nat
    /\ feed \in Seq(Nat) /\ sent \in Seq(Nat \cup {Lost})
    /\ Len(feed) = Len(sent) + Held + Len(printQueue)
    /\ \A i \in 1 .. Len(printQueue) : feed[Len(sent) + Held + i] = printQueue[i]
    /\ pc[Worker] = "write" => feed[Len(sent) + 1] = sending
    /\ \A i \in 1 .. Len(sent) : sent[i] \in {feed[i], Lost}

QueueStays == UNCHANGED <<printQueue, sending, feed, sent, Held>>

\* A message is queued where there is room.
Queues(t) ==
    /\ QueueMsg(t) /\ UNCHANGED <<sending, sent, Held>>
    /\ Len(printQueue) < MaxQueueSize \/ printQueue = <<>>

LEMMA QueueSteps ==
    ASSUME Types, Placed, [Next]_vars
    PROVE  \/ QueueStays
           \/ \E t \in HostThreads : Queues(t)
           \/ printQueue' = <<>> /\ feed' = <<>> /\ sent' = <<>> /\ UNCHANGED sending /\ Held' = 0
           \/ SendNext \/ SendWrite
<1> USE ThreadsAssumption
    DEF Types, Placed, PlaceOf, HostThreads, WorkerRets, PrintLabels, QueueStays, Held, Goto,
        conVars, cmdVars, queueVars, stateVars, tickVars, socketVars, pollVars, netVars,
        threadVars, countVars, ConsolePrint, Return
<1>1. ASSUME NEW t \in HostThreads, PrintStep(t) PROVE QueueStays \/ Queues(t)
  <2>1. CASE PrintLock(t)
    BY <2>1 DEF PrintLock
  <2>2. CASE PrintPush(t)
    BY <2>2 DEF PrintPush
  <2>3. CASE HostCheck(t)
    BY <2>3 DEF HostCheck
  <2>4. CASE HostEnqueue(t)
    BY <2>4 DEF HostEnqueue, Queues
  <2>5. CASE HostFull(t)
    BY <2>5 DEF HostFull, WhenFull
  <2>6. CASE HostWake(t)
    BY <2>6 DEF HostWake, Queues
  <2> QED
    BY <1>1, <2>1, <2>2, <2>3, <2>4, <2>5, <2>6 DEF PrintStep
<1>2. MainStep => QueueStays
  BY DEF MainStep, TickApply, ReplayLock, ReplayNext, ReplayEnd, ListCommands, FetchCommands, Join,
         EnableStart
<1>3. ASSUME WorkerStep, ~AcceptOne, ~SendNext, ~SendWrite PROVE QueueStays
  BY <1>3 DEF WorkerStep, WorkerStart, WorkerLoop, Poll, PollFails, ServerFailed,
              AcceptEnd, AcceptFails, ReadSkip, Read, PayloadCommand, PushCommand, PayloadBad,
              PayloadEnd, Cleanup, ClientClosed, UpdateClient, WriteFailed, SendEnd, Notify
<1>4. ASSUME AcceptOne
      PROVE  \/ QueueStays
             \/ printQueue' = <<>> /\ feed' = <<>> /\ sent' = <<>> /\ UNCHANGED sending /\ Held' = 0
  BY <1>4 DEF AcceptOne, ClearQueue
<1>5. Call => QueueStays
  BY DEF Call, PrintCall, TickRead, Execute, Disable, EnableCall, StopWorker
<1>6. Environment => QueueStays
  BY DEF Environment, SpuriousWake, ClientConnects, ClientSends, ClientLeaves
<1> QED
  BY <1>1, <1>2, <1>3, <1>4, <1>5, <1>6 DEF Next, vars

LEMMA InitQueue == Init => QueueInv
BY ThreadsAssumption, BoundsAssumption DEF Init, QueueInv, Held, HostThreads

LEMMA NextQueue ==
    ASSUME Types, Placed, RingInv, QueueInv, [Next]_vars
    PROVE  QueueInv'
<1> USE BoundsAssumption
<1> DEFINE ls == Len(sent)
           lq == Len(printQueue)
<1>0. /\ ls \in Nat /\ lq \in Nat /\ Held \in Nat
      /\ Len(feed) = ls + Held + lq
      /\ \A i \in 1 .. lq : feed[ls + Held + i] = printQueue[i]
      /\ \A i \in 1 .. ls : sent[i] \in {feed[i], Lost}
      /\ pc[Worker] = "write" => Held = 1 /\ feed[ls + 1] = sending
  BY DEF QueueInv, Held
<1> HIDE DEF ls, lq
<1>1. CASE QueueStays
  <2>1. pc'[Worker] = "write" <=> pc[Worker] = "write"
    BY <1>1 DEF QueueStays, Held
  <2> QED
    BY <1>1, <2>1 DEF QueueStays, QueueInv
<1>2. ASSUME NEW t \in HostThreads, Queues(t) PROVE QueueInv'
  <2>1. msg[t] \in Nat
    BY DEF RingInv
  <2>2. /\ printQueue' \in Seq(Nat) /\ Len(printQueue') = Len(printQueue) + 1
        /\ \A i \in 1 .. Len(printQueue) : printQueue'[i] = printQueue[i]
        /\ printQueue'[Len(printQueue) + 1] = msg[t]
    BY <1>2, <2>1, AppendProperties DEF QueueInv, Queues, QueueMsg
  <2>3. /\ feed' \in Seq(Nat) /\ Len(feed') = Len(feed) + 1
        /\ \A i \in 1 .. Len(feed) : feed'[i] = feed[i]
        /\ feed'[Len(feed) + 1] = msg[t]
    BY <1>2, <2>1, AppendProperties DEF QueueInv, Queues, QueueMsg
  <2>4. Len(feed') = ls + Held + Len(printQueue')
    BY <1>0, <2>2, <2>3 DEF lq
  <2>5. UNCHANGED <<sending, sent, Held>> /\ (pc'[Worker] = "write" <=> pc[Worker] = "write")
    BY <1>2 DEF Queues, Held
  <2>6. Len(printQueue') <= MaxQueueSize
    BY <1>2, <2>2 DEF Queues, QueueInv
  <2>7. ASSUME NEW i \in 1 .. Len(printQueue') PROVE feed'[ls + Held + i] = printQueue'[i]
    <3>1. CASE i \in 1 .. lq
      <4>1. ls + Held + i \in 1 .. Len(feed)
        BY <1>0, <3>1
      <4> QED
        BY <1>0, <2>2, <2>3, <3>1, <4>1 DEF lq
    <3>2. CASE i = lq + 1
      <4>1. ls + Held + i = Len(feed) + 1
        BY <1>0, <3>2
      <4> QED
        BY <2>2, <2>3, <3>2, <4>1 DEF lq
    <3> QED
      BY <1>0, <2>2, <3>1, <3>2 DEF lq
  <2>8. pc'[Worker] = "write" => feed'[ls + 1] = sending
    <3> SUFFICES ASSUME pc[Worker] = "write" PROVE feed'[ls + 1] = sending
      BY <2>5
    <3>1. ls + 1 \in 1 .. Len(feed)
      BY <1>0
    <3> QED
      BY <1>0, <2>3, <3>1
  <2>9. ASSUME NEW i \in 1 .. ls PROVE sent[i] \in {feed'[i], Lost}
    <3>1. i \in 1 .. Len(feed)
      BY <1>0
    <3> QED
      BY <1>0, <2>3, <3>1
  <2> QED
    BY <2>2, <2>3, <2>4, <2>5, <2>6, <2>7, <2>8, <2>9 DEF QueueInv, ls
<1>3. CASE printQueue' = <<>> /\ feed' = <<>> /\ sent' = <<>> /\ UNCHANGED sending /\ Held' = 0
  <2>1. pc'[Worker] /= "write"
    BY <1>3 DEF Held
  <2> QED
    BY <1>3, <2>1 DEF QueueInv
<1>4. CASE SendNext
  <2>1. pc[Worker] = "send" /\ pc'[Worker] = "write" /\ Held = 0 /\ Held' = 1
    BY <1>4, ThreadsAssumption DEF SendNext, Goto, Held, Types, HostThreads
  <2>2. printQueue /= <<>> /\ sending' = Head(printQueue) /\ printQueue' = Tail(printQueue)
        /\ UNCHANGED <<feed, sent>>
    BY <1>4 DEF SendNext, MsgToSend
  <2>3. /\ printQueue' \in Seq(Nat) /\ Len(printQueue') = Len(printQueue) - 1
        /\ \A i \in 1 .. Len(printQueue') : printQueue'[i] = printQueue[i + 1]
        /\ sending' = printQueue[1] /\ sending' \in Nat
    BY <2>2, HeadTailProperties DEF QueueInv
  <2>4. lq >= 1
    BY <1>0, <2>2 DEF QueueInv, lq
  <2>5. ASSUME NEW i \in 1 .. Len(printQueue') PROVE feed[ls + 1 + i] = printQueue'[i]
    <3>1. i + 1 \in 1 .. lq /\ ls + 1 + i = ls + Held + (i + 1)
      BY <1>0, <2>1, <2>3 DEF lq
    <3> QED
      BY <1>0, <2>3, <3>1
  <2>6. feed[ls + 1] = sending'
    <3>1. 1 \in 1 .. lq /\ ls + 1 = ls + Held + 1
      BY <1>0, <2>1, <2>4
    <3> QED
      BY <1>0, <2>3, <3>1
  <2>7. Len(feed) = ls + Held' + Len(printQueue')
    BY <1>0, <2>1, <2>3 DEF lq
  <2>8. Len(printQueue') <= MaxQueueSize
    BY <2>3 DEF QueueInv
  <2> QED
    BY <2>1, <2>2, <2>3, <2>5, <2>6, <2>7, <2>8 DEF QueueInv, ls
<1>5. CASE SendWrite
  <2>1. pc[Worker] = "write" /\ pc'[Worker] /= "write" /\ Held = 1 /\ Held' = 0
    BY <1>5, ThreadsAssumption
       DEF SendWrite, WriteFailed, ConsolePrint, Goto, Held, Types, HostThreads
  <2>2. UNCHANGED <<printQueue, feed>> /\ sending' = 0
    BY <1>5 DEF SendWrite
  <2>3. PICK m \in {sending, Lost} : sent' = Append(sent, m)
    BY <1>5 DEF SendWrite
  <2>4. m \in Nat \cup {Lost}
    BY DEF QueueInv
  <2>5. /\ sent' \in Seq(Nat \cup {Lost}) /\ Len(sent') = Len(sent) + 1
        /\ \A i \in 1 .. Len(sent) : sent'[i] = sent[i]
        /\ sent'[Len(sent) + 1] = m
    BY <2>3, <2>4, AppendProperties DEF QueueInv
  <2>6. m \in {feed[ls + 1], Lost}
    BY <1>0, <2>1
  <2>7. ASSUME NEW i \in 1 .. Len(sent') PROVE sent'[i] \in {feed[i], Lost}
    <3>1. CASE i \in 1 .. ls
      BY <1>0, <2>5, <3>1 DEF ls
    <3>2. CASE i = ls + 1
      BY <2>5, <2>6, <3>2 DEF ls
    <3> QED
      BY <1>0, <2>5, <3>1, <3>2 DEF ls
  <2>8. ASSUME NEW i \in 1 .. Len(printQueue') PROVE feed[Len(sent') + Held' + i] = printQueue'[i]
    BY <1>0, <2>1, <2>2, <2>5 DEF ls, lq
  <2>9. Len(feed) = Len(sent') + Held' + lq
    BY <1>0, <2>1, <2>5 DEF ls
  <2> QED
    BY <2>1, <2>2, <2>5, <2>7, <2>8, <2>9 DEF QueueInv, lq
<1> QED
  BY <1>1, <1>2, <1>3, <1>4, <1>5, QueueSteps

-----------------------------------------------------------------------------
\* The sockets and what the clients send: an event is only reported of a socket that
\* there is, and the command being echoed is the first of the chunk.

Reading == pc[Worker] \in {"accept", "read"} /\ pollEvent /= "none"
Echoing == pc[Worker] = "pushcmd" \/ (pc[Worker] \in PrintLabels /\ ret[Worker] = "pushcmd")

NetInv ==
    /\ clientSocket \in Clients \cup {0}
    /\ backlog \in Seq(Clients) /\ gone \subseteq Clients
    /\ clients \in 0 .. MaxClients /\ payloads \in 0 .. MaxPayloads
    /\ inbox \in [Clients -> Seq(Payloads)]
    /\ chunk \in Seq(Payloads)
    /\ Reading => clientSocket /= 0
    /\ Echoing => chunk /= <<>>

NetStays ==
    /\ UNCHANGED <<clientSocket, backlog, gone, clients, payloads, inbox, chunk>>
    /\ Reading' => Reading
    /\ Echoing' <=> Echoing

LEMMA NetSteps ==
    ASSUME Types, Placed, [Next]_vars
    PROVE  \/ NetStays
           \/ Poll \/ PollFails \/ AcceptOne \/ AcceptFails \/ Read \/ PayloadCommand
           \/ PushCommand \/ PayloadBad \/ Cleanup \/ ClientConnects \/ ClientSends \/ ClientLeaves
<1> USE ThreadsAssumption
    DEF Types, Placed, PlaceOf, HostThreads, WorkerRets, PrintLabels, NetStays, Reading, Echoing, Goto,
        conVars, cmdVars, queueVars, stateVars, tickVars, socketVars, pollVars, netVars,
        threadVars, countVars, ConsolePrint, Return
<1>1. ASSUME NEW t \in HostThreads, PrintStep(t) PROVE NetStays
  <2>1. CASE PrintLock(t)
    BY <2>1 DEF PrintLock
  <2>2. CASE PrintPush(t)
    BY <2>2 DEF PrintPush
  <2>3. CASE HostCheck(t)
    BY <2>3 DEF HostCheck
  <2>4. CASE HostEnqueue(t)
    BY <2>4 DEF HostEnqueue
  <2>5. CASE HostFull(t)
    BY <2>5 DEF HostFull, WhenFull
  <2>6. CASE HostWake(t)
    BY <2>6 DEF HostWake
  <2> QED
    BY <1>1, <2>1, <2>2, <2>3, <2>4, <2>5, <2>6 DEF PrintStep
<1>2. MainStep => NetStays
  BY DEF MainStep, TickApply, ReplayLock, ReplayNext, ReplayEnd, ListCommands, FetchCommands, Join,
         EnableStart
<1>3. ASSUME WorkerStep
      PROVE  \/ NetStays
             \/ Poll \/ PollFails \/ AcceptOne \/ AcceptFails \/ Read \/ PayloadCommand
             \/ PushCommand \/ PayloadBad \/ Cleanup
  BY <1>3 DEF WorkerStep, WorkerStart, WorkerLoop, ServerFailed, AcceptEnd, ReadSkip, PayloadEnd,
              ClientClosed, UpdateClient, WriteFailed, SendNext, SendWrite, SendEnd, Notify
<1>4. Call => NetStays
  BY DEF Call, PrintCall, TickRead, Execute, Disable, EnableCall, StopWorker
<1>5. Environment => NetStays \/ ClientConnects \/ ClientSends \/ ClientLeaves
  BY DEF Environment, SpuriousWake
<1> QED
  BY <1>1, <1>2, <1>3, <1>4, <1>5 DEF Next, vars

LEMMA SeqOfPart ==
    ASSUME NEW S, NEW s \in Seq(S), NEW t,
           t = s \/ (s /= <<>> /\ t = Tail(s))
    PROVE  t \in Seq(S)
BY HeadTailProperties

LEMMA InitNet == Init => NetInv
BY ThreadsAssumption, BoundsAssumption
   DEF Init, NetInv, Reading, Echoing, Clients, HostThreads, PrintLabels

LEMMA NextNet ==
    ASSUME Types, Placed, NetInv, [Next]_vars
    PROVE  NetInv'
<1>1. CASE NetStays
  BY <1>1 DEF NetStays, NetInv
<1>a. AcceptFails => backlog' \in Seq(Clients)
  <2>1. AcceptFails =>
          backlog' \in {backlog, Tail(backlog)} /\ (backlog = <<>> => backlog' = backlog)
    BY DEF AcceptFails
  <2> QED
    BY <2>1, SeqOfPart DEF NetInv
<1>b. Read => inbox' \in [Clients -> Seq(Payloads)] /\ chunk' \in Seq(Payloads)
  <2> SUFFICES ASSUME Read PROVE inbox' \in [Clients -> Seq(Payloads)] /\ chunk' \in Seq(Payloads)
    OBVIOUS
  <2>1. /\ chunk' = chunk \/ chunk' = inbox[clientSocket]
        /\ inbox' = inbox \/ inbox' = [inbox EXCEPT ![clientSocket] = <<>>]
    BY DEF Read
  <2>2. clientSocket \in Clients
    BY DEF Read, NetInv, Reading
  <2>3. <<>> \in Seq(Payloads)
    BY EmptySeq
  <2> QED
    BY <2>1, <2>2, <2>3 DEF NetInv
<1>c. PayloadBad => chunk' \in Seq(Payloads)
  <2>1. PayloadBad => chunk /= <<>> /\ chunk' \in {Tail(chunk), <<>>}
    BY DEF PayloadBad
  <2>2. <<>> \in Seq(Payloads)
    BY EmptySeq
  <2> QED
    BY <2>1, <2>2, SeqOfPart DEF NetInv
<1> USE ThreadsAssumption, BoundsAssumption
    DEF Types, Placed, PlaceOf, HostThreads, WorkerRets, PrintLabels, NetInv, Reading, Echoing, Goto,
        conVars, cmdVars, queueVars, stateVars, tickVars, socketVars, pollVars, netVars,
        threadVars, countVars, ConsolePrint
<1>2. CASE Poll
  BY <1>2 DEF Poll, Clients
<1>3. CASE PollFails
  BY <1>3 DEF PollFails
<1>4. CASE AcceptOne
  <2>1. Head(backlog) \in Clients /\ backlog' \in Seq(Clients)
    BY <1>4, HeadTailProperties DEF AcceptOne
  <2>2. Head(backlog) /= 0
    BY <2>1 DEF Clients
  <2> QED
    BY <1>4, <2>1, <2>2 DEF AcceptOne
<1>5. CASE AcceptFails
  BY <1>5, <1>a DEF AcceptFails
<1>6. CASE Read
  BY <1>6, <1>b DEF Read, CloseClient
<1>7. CASE PayloadCommand
  BY <1>7 DEF PayloadCommand
<1>8. CASE PushCommand
  <2>1. chunk' \in Seq(Payloads)
    BY <1>8, HeadTailProperties DEF PushCommand
  <2> QED
    BY <1>8, <2>1 DEF PushCommand
<1>9. CASE PayloadBad
  BY <1>9, <1>c DEF PayloadBad, CloseClient
<1>10. CASE Cleanup
  BY <1>10 DEF Cleanup
<1>11. CASE ClientConnects
  <2>1. clients + 1 \in Clients
    BY <1>11 DEF ClientConnects, Clients
  <2>2. backlog' \in Seq(Clients)
    BY <1>11, <2>1, AppendProperties DEF ClientConnects
  <2> QED
    BY <1>11, <2>2 DEF ClientConnects
<1>12. CASE ClientSends
  <2>1. PICK c \in 1 .. clients, kind \in Kinds :
          inbox' = [inbox EXCEPT ![c] = Append(@, <<payloads + 1, kind>>)]
    BY <1>12 DEF ClientSends
  <2>2. c \in Clients
    BY <2>1 DEF Clients
  <2>3. <<payloads + 1, kind>> \in Payloads
    BY <1>12 DEF ClientSends, Payloads
  <2>4. Append(inbox[c], <<payloads + 1, kind>>) \in Seq(Payloads)
    BY <2>2, <2>3, AppendProperties
  <2>5. inbox' \in [Clients -> Seq(Payloads)]
    BY <2>1, <2>2, <2>4
  <2> QED
    BY <1>12, <2>5 DEF ClientSends
<1>13. CASE ClientLeaves
  BY <1>13 DEF ClientLeaves, Clients
<1> QED
  BY <1>1, <1>2, <1>3, <1>4, <1>5, <1>6, <1>7, <1>8, <1>9, <1>10, <1>11, <1>12, <1>13, NetSteps

-----------------------------------------------------------------------------
\* The commands: those that the worker has echoed are the executed ones, then those on
\* their way.

Commands == 1 .. MaxPayloads

CmdInv ==
    /\ echoed \in Seq(Commands) /\ executed \in Seq(Commands)
    /\ cmdBuffer \in Seq(Commands) /\ commandQueue \in Seq(Commands)
    /\ CommandsInOrder

CmdStays == UNCHANGED <<echoed, executed, cmdBuffer, commandQueue, InProgress>>

LEMMA CmdSteps ==
    ASSUME Types, Placed, [Next]_vars
    PROVE  CmdStays \/ FetchCommands \/ Execute \/ PayloadCommand \/ PushCommand
<1> USE ThreadsAssumption
    DEF Types, Placed, PlaceOf, HostThreads, WorkerRets, PrintLabels, CmdStays, InProgress, Goto,
        conVars, cmdVars, queueVars, stateVars, tickVars, socketVars, pollVars, netVars,
        threadVars, countVars, ConsolePrint, Return
<1>1. ASSUME NEW t \in HostThreads, PrintStep(t) PROVE CmdStays
  <2>1. CASE PrintLock(t)
    BY <2>1 DEF PrintLock
  <2>2. CASE PrintPush(t)
    BY <2>2 DEF PrintPush
  <2>3. CASE HostCheck(t)
    BY <2>3 DEF HostCheck
  <2>4. CASE HostEnqueue(t)
    BY <2>4 DEF HostEnqueue
  <2>5. CASE HostFull(t)
    BY <2>5 DEF HostFull, WhenFull
  <2>6. CASE HostWake(t)
    BY <2>6 DEF HostWake
  <2> QED
    BY <1>1, <2>1, <2>2, <2>3, <2>4, <2>5, <2>6 DEF PrintStep
<1>2. MainStep => CmdStays \/ FetchCommands
  BY DEF MainStep, TickApply, ReplayLock, ReplayNext, ReplayEnd, ListCommands, Join, EnableStart
<1>3. ASSUME WorkerStep, ~Read, ~PayloadBad PROVE CmdStays \/ PayloadCommand \/ PushCommand
  BY <1>3 DEF WorkerStep, WorkerStart, WorkerLoop, Poll, PollFails, ServerFailed, AcceptOne,
              AcceptEnd, AcceptFails, ReadSkip, PayloadEnd, Cleanup, ClientClosed, UpdateClient,
              WriteFailed, SendNext, SendWrite, SendEnd, Notify
<1>4. Read \/ PayloadBad => CmdStays
  BY DEF Read, PayloadBad, CloseClient
<1>5. Call => CmdStays \/ Execute
  BY DEF Call, PrintCall, TickRead, Disable, EnableCall, StopWorker
<1>6. Environment => CmdStays
  BY DEF Environment, SpuriousWake, ClientConnects, ClientSends, ClientLeaves
<1> QED
  BY <1>1, <1>2, <1>3, <1>4, <1>5, <1>6 DEF Next, vars

\* Moving the head of t to the end of s does not change s \o t.
LEMMA MoveHead ==
    ASSUME NEW S, NEW s \in Seq(S), NEW t \in Seq(S), t /= <<>>
    PROVE  Append(s, Head(t)) \in Seq(S) /\ Tail(t) \in Seq(S)
           /\ Append(s, Head(t)) \o Tail(t) = s \o t
<1>1. Head(t) = t[1] /\ Head(t) \in S /\ Len(t) >= 1
  BY EmptySeq
<1>2. /\ Tail(t) \in Seq(S) /\ Len(Tail(t)) = Len(t) - 1
      /\ \A i \in 1 .. Len(Tail(t)) : Tail(t)[i] = t[i + 1]
  BY HeadTailProperties
<1> DEFINE a == Append(s, Head(t))
           b == Tail(t)
<1>3. /\ a \in Seq(S) /\ Len(a) = Len(s) + 1
      /\ \A i \in 1 .. Len(s) : a[i] = s[i]
      /\ a[Len(s) + 1] = t[1]
  BY <1>1, AppendProperties
<1> HIDE DEF a, b
<1>4. /\ a \o b \in Seq(S) /\ Len(a \o b) = Len(a) + Len(b)
      /\ \A i \in 1 .. Len(a) + Len(b) : (a \o b)[i] = IF i <= Len(a) THEN a[i] ELSE b[i - Len(a)]
  BY <1>2, <1>3, ConcatProperties DEF b
<1>5. /\ s \o t \in Seq(S) /\ Len(s \o t) = Len(s) + Len(t)
      /\ \A i \in 1 .. Len(s) + Len(t) : (s \o t)[i] = IF i <= Len(s) THEN s[i] ELSE t[i - Len(s)]
  BY ConcatProperties
<1>6. Len(a) + Len(b) = Len(s) + Len(t) /\ Len(s) \in Nat /\ Len(t) \in Nat
  BY <1>2, <1>3, LenProperties DEF b
<1>7. ASSUME NEW i \in 1 .. Len(a \o b) PROVE (a \o b)[i] = (s \o t)[i]
  <2>1. CASE i <= Len(s)
    BY <1>3, <1>4, <1>5, <1>6, <2>1
  <2>2. CASE i = Len(s) + 1
    BY <1>1, <1>3, <1>4, <1>5, <1>6, <2>2
  <2>3. CASE i > Len(s) + 1
    <3>1. i - Len(a) \in 1 .. Len(b) /\ (i - Len(a)) + 1 = i - Len(s)
      BY <1>3, <1>4, <1>6, <2>3
    <3> QED
      BY <1>2, <1>3, <1>4, <1>5, <1>6, <2>3, <3>1 DEF b
  <2>4. i \in Nat
    BY <1>4, <1>6
  <2>5. i <= Len(s) \/ i = Len(s) + 1 \/ i > Len(s) + 1
    BY <1>6, <2>4
  <2> QED
    BY <2>1, <2>2, <2>3, <2>5
<1>8. a \o b = s \o t
  BY <1>4, <1>5, <1>6, <1>7, SeqEqual
<1> QED
  BY <1>2, <1>3, <1>8 DEF a, b

LEMMA InitCmd == Init => CmdInv
BY ThreadsAssumption
   DEF Init, CmdInv, CommandsInOrder, InProgress, Commands, HostThreads, PrintLabels

LEMMA NextCmd ==
    ASSUME Types, Placed, NetInv, CmdInv, [Next]_vars
    PROVE  CmdInv'
<1>1. CASE CmdStays
  BY <1>1 DEF CmdStays, CmdInv, CommandsInOrder
<1>2. CASE FetchCommands
  <2>1. /\ cmdBuffer' = cmdBuffer \o commandQueue /\ commandQueue' = <<>>
        /\ UNCHANGED <<echoed, executed>>
    BY <1>2 DEF FetchCommands, FetchInto
  <2>2. UNCHANGED InProgress
    BY <1>2, ThreadsAssumption
       DEF FetchCommands, InProgress, Goto, Types, HostThreads, pollVars, threadVars
  <2>3. cmdBuffer' \in Seq(Commands) /\ commandQueue' \in Seq(Commands)
    BY <2>1, ConcatProperties, EmptySeq DEF CmdInv
  <2>4. executed \o cmdBuffer' \in Seq(Commands)
    BY <2>3, ConcatProperties DEF CmdInv
  <2>5. (executed \o cmdBuffer') \o <<>> = executed \o cmdBuffer'
    BY <2>4, ConcatEmptySeq
  <2>6. (executed \o cmdBuffer) \o commandQueue = executed \o cmdBuffer'
    BY <2>1, ConcatAssociative DEF CmdInv
  <2> QED
    BY <2>1, <2>2, <2>3, <2>5, <2>6 DEF CmdInv, CommandsInOrder
<1>3. CASE Execute
  <2>1. /\ executed' = Append(executed, Head(cmdBuffer)) /\ cmdBuffer' = Tail(cmdBuffer)
        /\ cmdBuffer /= <<>> /\ UNCHANGED <<echoed, commandQueue, InProgress>>
    BY <1>3 DEF Execute, InProgress, pollVars, threadVars
  <2>2. /\ executed' \in Seq(Commands) /\ cmdBuffer' \in Seq(Commands)
        /\ executed' \o cmdBuffer' = executed \o cmdBuffer
    BY <2>1, MoveHead DEF CmdInv
  <2> QED
    BY <2>1, <2>2 DEF CmdInv, CommandsInOrder
<1> DEFINE x == Head(chunk)[1]
           base == executed \o cmdBuffer
<1>4. chunk /= <<>> => x \in Commands
  BY HeadTailProperties DEF NetInv, Payloads, Commands
<1>5. base \in Seq(Commands) /\ base \o commandQueue \in Seq(Commands)
  BY ConcatProperties DEF CmdInv
<1> HIDE DEF x, base
<1>6. CASE PayloadCommand
  <2>1. /\ chunk /= <<>> /\ echoed' = Append(echoed, x)
        /\ UNCHANGED <<executed, cmdBuffer, commandQueue, chunk>>
    BY <1>6 DEF PayloadCommand, pollVars, x
  <2>2. InProgress = <<>> /\ InProgress' = <<x>>
    BY <1>6, ThreadsAssumption
       DEF PayloadCommand, InProgress, ConsolePrint, Goto, Types, HostThreads, PrintLabels, pollVars, x
  <2>3. echoed = base \o commandQueue
    BY <1>5, <2>2, ConcatEmptySeq DEF CmdInv, CommandsInOrder, base
  <2>4. echoed' = echoed \o <<x>> /\ echoed' \in Seq(Commands)
    BY <1>4, <2>1, AppendIsConcat, AppendProperties DEF CmdInv
  <2> QED
    BY <2>1, <2>2, <2>3, <2>4 DEF CmdInv, CommandsInOrder, base
<1>7. CASE PushCommand
  <2>1. commandQueue' = Append(commandQueue, x) /\ UNCHANGED <<echoed, executed, cmdBuffer>>
    BY <1>7 DEF PushCommand, x
  <2>2. chunk /= <<>> /\ InProgress = <<x>> /\ InProgress' = <<>>
    BY <1>7, ThreadsAssumption
       DEF PushCommand, InProgress, NetInv, Echoing, Goto, Types, HostThreads, PrintLabels, x
  <2>3. commandQueue' = commandQueue \o <<x>> /\ commandQueue' \in Seq(Commands)
    BY <1>4, <2>1, <2>2, AppendIsConcat, AppendProperties DEF CmdInv
  <2>4. <<x>> \in Seq(Commands)
    BY <1>4, <2>2
  <2>5. (base \o commandQueue) \o <<x>> = base \o commandQueue'
    <3>1. commandQueue \in Seq(Commands)
      BY DEF CmdInv
    <3>2. (base \o commandQueue) \o <<x>> = base \o (commandQueue \o <<x>>)
      BY <1>5, <2>4, <3>1, ConcatAssociative
    <3> QED
      BY <2>3, <3>2
  <2>6. (base \o commandQueue') \o <<>> = base \o commandQueue'
    <3>1. base \o commandQueue' \in Seq(Commands)
      BY <1>5, <2>3, ConcatProperties
    <3> QED
      BY <3>1, ConcatEmptySeq
  <2> QED
    BY <2>1, <2>2, <2>3, <2>5, <2>6 DEF CmdInv, CommandsInOrder, base
<1> QED
  BY <1>1, <1>2, <1>3, <1>6, <1>7, CmdSteps

-----------------------------------------------------------------------------
\* The shared state: it agrees with the socket at every label of a round but the two
\* where the socket is gone and the main thread has not been told.  A join may reset it
\* from the other side because a server that still listens is never started again.

At == IF pc[Worker] \in PrintLabels THEN ret[Worker] ELSE pc[Worker]

Round == {"loop", "poll", "accept", "read", "payload", "pushcmd", "cleanup", "update", "send",
          "write", "notify"}

StateInv ==
    /\ At \in Round => listening /\ (stateIsConnected <=> clientSocket /= 0)
    /\ At \in {"closed", "failed"} => listening /\ clientSocket = 0
    /\ ~listening => ~stateIsConnected /\ clientSocket = 0

StateStays ==
    /\ UNCHANGED <<listening, stateIsConnected, clientSocket>>
    /\ At' \in Round => At \in Round
    /\ At' \in {"closed", "failed"} => At \in {"closed", "failed"}

LEMMA StateSteps ==
    ASSUME Types, Placed, [Next]_vars
    PROVE  \/ StateStays
           \/ WorkerStart \/ PollFails \/ ServerFailed \/ AcceptOne \/ Cleanup \/ ClientClosed
           \/ Join
<1> USE ThreadsAssumption
    DEF Types, Placed, PlaceOf, HostThreads, WorkerRets, PrintLabels, StateStays, At, Round, Goto,
        conVars, cmdVars, queueVars, stateVars, tickVars, socketVars, pollVars, netVars,
        threadVars, countVars, ConsolePrint, Return
<1>1. ASSUME NEW t \in HostThreads, PrintStep(t) PROVE StateStays
  <2>1. CASE PrintLock(t)
    BY <2>1 DEF PrintLock
  <2>2. CASE PrintPush(t)
    BY <2>2 DEF PrintPush
  <2>3. CASE HostCheck(t)
    BY <2>3 DEF HostCheck
  <2>4. CASE HostEnqueue(t)
    BY <2>4 DEF HostEnqueue
  <2>5. CASE HostFull(t)
    BY <2>5 DEF HostFull, WhenFull
  <2>6. CASE HostWake(t)
    BY <2>6 DEF HostWake
  <2> QED
    BY <1>1, <2>1, <2>2, <2>3, <2>4, <2>5, <2>6 DEF PrintStep
<1>2. MainStep => StateStays \/ Join
  BY DEF MainStep, TickApply, ReplayLock, ReplayNext, ReplayEnd, ListCommands, FetchCommands,
         EnableStart
<1>3. ASSUME WorkerStep
      PROVE  \/ StateStays
             \/ WorkerStart \/ PollFails \/ ServerFailed \/ AcceptOne \/ Cleanup \/ ClientClosed
  BY <1>3 DEF WorkerStep, WorkerLoop, Poll, AcceptEnd, AcceptFails, ReadSkip, Read, CloseClient,
              PayloadCommand, PushCommand, PayloadBad, PayloadEnd, UpdateClient, WriteFailed,
              SendNext, SendWrite, SendEnd, Notify
<1>4. Call => StateStays
  BY DEF Call, PrintCall, TickRead, Execute, Disable, EnableCall, StopWorker
<1>5. Environment => StateStays
  BY DEF Environment, SpuriousWake, ClientConnects, ClientSends, ClientLeaves
<1> QED
  BY <1>1, <1>2, <1>3, <1>4, <1>5 DEF Next, vars

LEMMA InitState == Init => StateInv
BY ThreadsAssumption DEF Init, StateInv, At, Round, HostThreads, PrintLabels

LEMMA NextState ==
    ASSUME Types, Placed, NetInv, StateInv, [Next]_vars
    PROVE  StateInv'
<1>1. CASE StateStays
  BY <1>1 DEF StateStays, StateInv
<1>2. CASE AcceptOne
  <2>1. Head(backlog) \in Clients
    BY <1>2, HeadTailProperties DEF AcceptOne, NetInv
  <2>2. Head(backlog) /= 0
    BY <2>1, BoundsAssumption DEF Clients
  <2>3. UNCHANGED <<At, listening>> /\ At \in Round
    BY <1>2 DEF AcceptOne, At, Round, PrintLabels, threadVars
  <2>4. At \notin {"closed", "failed"}
    BY <2>3 DEF Round
  <2>5. \/ clientSocket' = Head(backlog) /\ stateIsConnected'
        \/ UNCHANGED <<clientSocket, stateIsConnected>>
    BY <1>2 DEF AcceptOne
  <2> QED
    BY <2>2, <2>3, <2>4, <2>5 DEF StateInv
<1> USE ThreadsAssumption
    DEF Types, HostThreads, PrintLabels, StateInv, At, Round, Goto, ConsolePrint, stateVars, socketVars
<1>3. CASE WorkerStart
  BY <1>3 DEF WorkerStart
<1>4. CASE PollFails
  BY <1>4 DEF PollFails
<1>5. CASE ServerFailed
  BY <1>5 DEF ServerFailed
<1>6. CASE Cleanup
  BY <1>6 DEF Cleanup
<1>7. CASE ClientClosed
  BY <1>7 DEF ClientClosed, MarkDisconnected
<1>8. CASE Join
  BY <1>8 DEF Join, Placed, PlaceOf
<1> QED
  BY <1>1, <1>2, <1>3, <1>4, <1>5, <1>6, <1>7, <1>8, StateSteps

-----------------------------------------------------------------------------
\* The feed: a message that the client is to be told of is queued, or a thread that found
\* the flag set carries it to the queue, or the replay will come to it.  Who carries one has
\* the output mutex, unless it is the replay, which keeps print() out by the ring's mutex.

Carries(t) == pc[t] \in {"host", "enqueue", "wait"}

MutexInv ==
    /\ \A t \in HostThreads :
         pc[t] = "push" \/ Carries(t) => outputMutex = t \/ (t = Main /\ Replaying)
    /\ Replaying => ringMutex = Main
    /\ pc[Main] \in {"lock", "push"} => ret[Main] /= "replaying"

\* The ring holds the last messages that were printed.
RingNumbers == \A i \in 1 .. ring.size : RingContents(ring)[i] = printed - ring.size + i

InFeed(m) == \E i \in DOMAIN feed : feed[i] = m
Carried(m) == \E t \in HostThreads : Carries(t) /\ msg[t] = m

FeedInv ==
    /\ feedFrom \in Int
    /\ isConnected /\ pc[Main] /= "replay" =>
         \A m \in feedFrom .. printed :
            InFeed(m) \/ Carried(m) \/ (Replaying /\ m > printed - ring.size + replayed)

FeedStays ==
    /\ UNCHANGED <<outputMutex, ringMutex, isConnected, printed, ring, replayed, feed, feedFrom>>
    /\ \A t \in HostThreads :
         /\ pc'[t] = "push" <=> pc[t] = "push"
         /\ Carries(t)' <=> Carries(t)
         /\ Carries(t) => msg'[t] = msg[t]
    /\ Replaying' <=> Replaying
    /\ pc'[Main] = "replay" <=> pc[Main] = "replay"
    /\ pc'[Main] \in {"lock", "push"} => ret'[Main] /= "replaying"

LEMMA FeedStaysKeeps == MutexInv /\ FeedInv /\ FeedStays => MutexInv' /\ FeedInv'
<1> SUFFICES ASSUME MutexInv, FeedInv, FeedStays PROVE MutexInv' /\ FeedInv'
  OBVIOUS
<1>1. MutexInv'
  BY DEF MutexInv, FeedStays
<1>2. \A m : (InFeed(m) => InFeed(m)') /\ (Carried(m) => Carried(m)')
  BY DEF InFeed, Carried, FeedStays
<1>3. FeedInv'
  BY <1>2 DEF FeedInv, FeedStays
<1> QED
  BY <1>1, <1>3

LEMMA FeedSteps ==
    ASSUME Types, Placed, MutexInv, [Next]_vars
    PROVE  \/ FeedStays
           \/ \E t \in HostThreads :
                PrintLock(t) \/ PrintPush(t) \/ HostCheck(t) \/ HostEnqueue(t) \/ HostWake(t)
           \/ TickApply \/ ReplayLock \/ ReplayNext \/ ReplayEnd \/ Join \/ AcceptOne
<1> USE ThreadsAssumption
    DEF Types, Placed, PlaceOf, MutexInv, HostThreads, WorkerRets, PrintLabels, FeedStays, Carries,
        Replaying, Goto, conVars, cmdVars, queueVars, stateVars, tickVars, socketVars, pollVars,
        netVars, threadVars, countVars, ConsolePrint
<1>1. ASSUME NEW t \in HostThreads, HostFull(t) PROVE FeedStays
  BY <1>1 DEF HostFull, WhenFull
<1>2. MainStep =>
        FeedStays \/ TickApply \/ ReplayLock \/ ReplayNext \/ ReplayEnd \/ Join
  BY DEF MainStep, ListCommands, FetchCommands, EnableStart
<1>3. ASSUME WorkerStep PROVE FeedStays \/ AcceptOne
  <2>1. CASE WorkerStart \/ WorkerLoop \/ Poll \/ PollFails \/ ServerFailed
    BY <2>1 DEF WorkerStart, WorkerLoop, Poll, PollFails, ServerFailed
  <2>2. CASE AcceptEnd \/ AcceptFails \/ ReadSkip \/ Read
    BY <2>2 DEF AcceptEnd, AcceptFails, ReadSkip, Read, CloseClient
  <2>3. CASE PayloadCommand \/ PushCommand \/ PayloadBad \/ PayloadEnd
    BY <2>3 DEF PayloadCommand, PushCommand, PayloadBad, PayloadEnd
  <2>4. CASE Cleanup \/ ClientClosed \/ UpdateClient
    BY <2>4 DEF Cleanup, ClientClosed, UpdateClient, WriteFailed
  <2>5. CASE SendNext \/ SendWrite \/ SendEnd \/ Notify
    BY <2>5 DEF SendNext, SendWrite, WriteFailed, SendEnd, Notify
  <2> QED
    BY <1>3, <2>1, <2>2, <2>3, <2>4, <2>5 DEF WorkerStep
<1>4. Call => FeedStays
  BY DEF Call, PrintCall, TickRead, Execute, Disable, EnableCall, StopWorker
<1>5. Environment => FeedStays
  BY DEF Environment, SpuriousWake, ClientConnects, ClientSends, ClientLeaves
<1>6. UNCHANGED vars => FeedStays
  BY DEF vars
<1> QED
  BY <1>1, <1>2, <1>3, <1>4, <1>5, <1>6 DEF Next, PrintStep

LEMMA InitFeed == Init => MutexInv /\ RingNumbers /\ FeedInv
BY ThreadsAssumption
   DEF Init, MutexInv, RingNumbers, FeedInv, EmptyRing, Carries, Replaying, HostThreads, PrintLabels

LEMMA NextNumbers ==
    ASSUME RingInv, RingNumbers, [Next]_vars
    PROVE  RingNumbers'
<1>1. CASE UNCHANGED <<ring, printed>>
  BY <1>1 DEF RingNumbers
<1>2. ASSUME NEW t \in HostThreads, PrintPush(t) PROVE RingNumbers'
  <2> DEFINE m == printed + 1
             old == RingContents(ring)
             new == RingContents(RingPush(ring, m))
  <2>1. ring' = RingPush(ring, m) /\ printed' = m /\ m \in Nat /\ printed \in Nat
    BY <1>2 DEF PrintPush, RingInv
  <2>2. ring \in Rings(Nat) /\ ring.size \in 0 .. RingSize
    BY DEF RingInv, Rings
  <2>3. ring'.size = IF ring.size < RingSize THEN ring.size + 1 ELSE ring.size
    BY <2>1 DEF RingPush
  <2>4. /\ old \in Seq(Nat \cup {NoMsg}) /\ Len(old) = ring.size
        /\ \A i \in 1 .. ring.size : old[i] = printed - ring.size + i
    BY <2>2, RingContentsAt DEF RingNumbers
  <2>5. new = IF Len(old) < RingSize THEN Append(old, m) ELSE Append(Tail(old), m)
    BY <2>1, <2>2, RingPushContents DEF RingInv
  <2> HIDE DEF m, old, new
  <2>6. CASE ring.size < RingSize
    <3>1. new = Append(old, m)
      BY <2>4, <2>5, <2>6
    <3>2. \A i \in 1 .. ring.size : new[i] = old[i]
      BY <2>4, <3>1
    <3>3. new[ring.size + 1] = m
      BY <2>4, <3>1
    <3>4. ring'.size = ring.size + 1 /\ m = printed + 1
      BY <2>3, <2>6 DEF m
    <3>5. ASSUME NEW i \in 1 .. ring.size + 1 PROVE new[i] = m - (ring.size + 1) + i
      <4> DEFINE n == ring.size
      <4>1. n \in Nat /\ printed \in Nat /\ m = printed + 1 /\ i \in 1 .. n + 1
        BY <2>1, <2>2, <3>4
      <4>2. i \in 1 .. n => new[i] = printed - n + i
        BY <2>4, <3>2
      <4>3. i = n + 1 => new[i] = m
        BY <3>3
      <4> HIDE DEF n
      <4>4. new[i] = m - (n + 1) + i
        BY <4>1, <4>2, <4>3
      <4> QED
        BY <4>4 DEF n
    <3> QED
      BY <2>1, <3>4, <3>5 DEF RingNumbers, new
  <2>7. CASE ~(ring.size < RingSize)
    <3>1. new = Append(Tail(old), m) /\ ring'.size = ring.size /\ ring.size = RingSize
      BY <2>2, <2>3, <2>4, <2>5, <2>7, RingSizeAssumption
    <3>2. /\ Tail(old) \in Seq(Nat \cup {NoMsg}) /\ Len(Tail(old)) = ring.size - 1
          /\ \A i \in 1 .. ring.size - 1 : Tail(old)[i] = old[i + 1]
      <4>1. old /= <<>>
        BY <2>4, <3>1, RingSizeAssumption
      <4> QED
        BY <2>4, <4>1, HeadTailProperties
    <3>3. /\ \A i \in 1 .. ring.size - 1 : new[i] = old[i + 1]
          /\ new[ring.size] = m
      <4> DEFINE t0 == Tail(old)
      <4>1. t0 \in Seq(Nat \cup {NoMsg}) /\ Len(t0) = ring.size - 1 /\ new = Append(t0, m)
        BY <3>1, <3>2
      <4>2. \A i \in 1 .. ring.size - 1 : t0[i] = old[i + 1]
        BY <3>2
      <4> HIDE DEF t0
      <4>3. \A i \in 1 .. ring.size - 1 : new[i] = t0[i]
        BY <2>2, <4>1
      <4>4. new[ring.size] = m
        BY <2>2, <4>1
      <4> QED
        BY <4>2, <4>3, <4>4
    <3>4. m = printed + 1
      BY DEF m
    <3>5. ASSUME NEW i \in 1 .. ring.size PROVE new[i] = m - ring.size + i
      <4> DEFINE n == ring.size
      <4>1. n \in Nat /\ printed \in Nat /\ m = printed + 1 /\ i \in 1 .. n
        BY <2>1, <2>2, <3>4
      <4>2. i \in 1 .. n - 1 => new[i] = old[i + 1]
        BY <3>3
      <4>3. i + 1 \in 1 .. n => old[i + 1] = printed - n + (i + 1)
        BY <2>4
      <4>4. i = n => new[i] = m
        BY <3>3
      <4> HIDE DEF n
      <4>5. new[i] = m - n + i
        BY <4>1, <4>2, <4>3, <4>4
      <4> QED
        BY <4>5 DEF n
    <3> QED
      BY <2>1, <3>1, <3>5 DEF RingNumbers, new
  <2> QED
    BY <2>6, <2>7
<1>3. CASE ReplayLock \/ ReplayNext \/ ReplayEnd
  BY <1>1, <1>3 DEF ReplayLock, ReplayNext, ReplayEnd, conVars
<1> QED
  BY <1>1, <1>2, <1>3, RingSteps

\* A thread that leaves print() with its message.
LEMMA ReturnKeeps ==
    ASSUME Types, Placed, MutexInv, NEW t \in HostThreads, Carries(t), Return(t),
           UNCHANGED <<ringMutex, ret>>
    PROVE  /\ MutexInv'
           /\ Replaying' <=> Replaying
           /\ pc'[Main] = "replay" <=> pc[Main] = "replay"
           /\ \A u \in HostThreads \ {t} : (Carries(u)' <=> Carries(u)) /\ msg'[u] = msg[u]
BY ThreadsAssumption
   DEF Types, Placed, PlaceOf, MutexInv, HostThreads, WorkerRets, PrintLabels, Carries, Replaying,
       Return, Goto

LEMMA NextFeed ==
    ASSUME Types, Placed, RingInv, QueueInv, RingNumbers, MutexInv, FeedInv, [Next]_vars
    PROVE  MutexInv' /\ FeedInv'
<1>1. CASE FeedStays
  BY <1>1, FeedStaysKeeps
<1>2. ASSUME NEW t \in HostThreads, PrintLock(t) PROVE MutexInv' /\ FeedInv'
  <2>1. /\ UNCHANGED <<ringMutex, isConnected, printed, ring, replayed, feed, feedFrom, ret, msg>>
        /\ pc[t] = "lock" /\ pc' = [pc EXCEPT ![t] = "push"]
        /\ outputMutex = NoThread /\ outputMutex' = t
    BY <1>2 DEF PrintLock, Goto, stateVars, queueVars, tickVars
  <2>2. MutexInv' /\ (Replaying' <=> Replaying) /\ (pc'[Main] = "replay" <=> pc[Main] = "replay")
    BY <2>1, ThreadsAssumption DEF Types, MutexInv, HostThreads, PrintLabels, Carries, Replaying
  <2>3. \A u \in HostThreads : Carries(u)' <=> Carries(u)
    BY <2>1 DEF Types, Carries
  <2>4. \A m : (InFeed(m) => InFeed(m)') /\ (Carried(m) => Carried(m)')
    BY <2>1, <2>3 DEF InFeed, Carried
  <2> QED
    BY <2>1, <2>2, <2>4 DEF FeedInv
<1>3. ASSUME NEW t \in HostThreads, PrintPush(t) PROVE MutexInv' /\ FeedInv'
  <2>1. /\ UNCHANGED <<outputMutex, ringMutex, isConnected, replayed, feed, feedFrom, ret>>
        /\ pc[t] = "push" /\ pc' = [pc EXCEPT ![t] = "host"]
        /\ ringMutex = NoThread /\ printed' = printed + 1 /\ msg' = [msg EXCEPT ![t] = printed + 1]
    BY <1>3 DEF PrintPush, Goto, stateVars, queueVars, tickVars
  <2>2. ~Replaying
    BY <2>1, ThreadsAssumption DEF MutexInv, HostThreads
  <2>3. MutexInv' /\ ~Replaying' /\ (pc'[Main] = "replay" <=> pc[Main] = "replay")
    BY <2>1, <2>2, ThreadsAssumption DEF Types, MutexInv, HostThreads, PrintLabels, Carries, Replaying
  <2>4. \A u \in HostThreads : Carries(u) => Carries(u)' /\ msg'[u] = msg[u]
    BY <2>1 DEF Types, RingInv, Carries
  <2>5. \A m : (InFeed(m) => InFeed(m)') /\ (Carried(m) => Carried(m)')
    BY <2>1, <2>4 DEF InFeed, Carried
  <2>6. ASSUME NEW m, m = printed + 1 PROVE Carried(m)'
    <3>1. Carries(t)' /\ msg'[t] = m
      BY <2>1, <2>6 DEF Types, RingInv, Carries
    <3> QED
      BY <3>1 DEF Carried
  <2>7. ASSUME isConnected', pc'[Main] /= "replay", NEW m \in feedFrom' .. printed'
        PROVE  InFeed(m)' \/ Carried(m)'
    <3>1. printed \in Nat /\ feedFrom \in Int
      BY DEF RingInv, FeedInv
    <3>2. m = printed + 1 \/ m \in feedFrom .. printed
      BY <2>1, <3>1
    <3> QED
      BY <2>1, <2>2, <2>3, <2>5, <2>6, <2>7, <3>2 DEF FeedInv
  <2> QED
    BY <2>1, <2>3, <2>7 DEF FeedInv
<1>4. ASSUME NEW t \in HostThreads, HostCheck(t) PROVE MutexInv' /\ FeedInv'
  <2>1. /\ UNCHANGED <<ringMutex, isConnected, printed, ring, replayed, feed, feedFrom, ret>>
        /\ Carries(t)
    BY <1>4 DEF HostCheck, Carries, stateVars, queueVars, tickVars
  <2>2. CASE isConnected
    <3>1. pc' = [pc EXCEPT ![t] = "enqueue"] /\ UNCHANGED <<msg, outputMutex>> /\ pc[t] = "host"
      BY <1>4, <2>2 DEF HostCheck, Goto
    <3>2. FeedStays
      BY <2>1, <3>1, ThreadsAssumption
         DEF Types, MutexInv, HostThreads, PrintLabels, FeedStays, Carries, Replaying
    <3> QED
      BY <3>2, FeedStaysKeeps
  <2>3. CASE ~isConnected
    <3>1. Return(t)
      BY <1>4, <2>3 DEF HostCheck
    <3> QED
      BY <2>1, <2>3, <3>1, ReturnKeeps DEF FeedInv
  <2> QED
    BY <2>2, <2>3
<1>5. ASSUME NEW t \in HostThreads, HostEnqueue(t) \/ HostWake(t) PROVE MutexInv' /\ FeedInv'
  <2>1. /\ UNCHANGED <<ringMutex, isConnected, printed, ring, replayed, feedFrom, ret>>
        /\ Carries(t)
    BY <1>5 DEF HostEnqueue, HostWake, Carries, stateVars, tickVars
  <2>2. CASE QueueMsg(t) /\ Return(t)
    <3>1. feed \in Seq(Nat) /\ msg[t] \in Nat /\ feed' = Append(feed, msg[t])
      BY <2>2 DEF QueueInv, RingInv, QueueMsg
    <3>2. \A i \in DOMAIN feed : i \in DOMAIN feed' /\ feed'[i] = feed[i]
      BY <3>1, AppendProperties
    <3>3. Len(feed) + 1 \in DOMAIN feed' /\ feed'[Len(feed) + 1] = msg[t]
      BY <3>1, AppendProperties
    <3>4. ASSUME NEW m, m = msg[t] PROVE InFeed(m)'
      BY <3>3, <3>4 DEF InFeed
    <3>5. \A m : InFeed(m) => InFeed(m)'
      BY <3>2 DEF InFeed
    <3>6. /\ MutexInv' /\ (Replaying' <=> Replaying)
          /\ pc'[Main] = "replay" <=> pc[Main] = "replay"
          /\ \A u \in HostThreads \ {t} : (Carries(u)' <=> Carries(u)) /\ msg'[u] = msg[u]
      BY <2>1, <2>2, ReturnKeeps
    <3>7. \A m : Carried(m) => Carried(m)' \/ m = msg[t]
      BY <3>6 DEF Carried
    <3>8. \A m : InFeed(m) \/ Carried(m) => InFeed(m)' \/ Carried(m)'
      BY <3>4, <3>5, <3>7
    <3> QED
      BY <2>1, <3>6, <3>8 DEF FeedInv
  <2>3. CASE UNCHANGED <<feed, pc, msg, outputMutex>>
    <3>1. FeedStays
      BY <2>1, <2>3 DEF MutexInv, FeedStays, Carries, Replaying
    <3> QED
      BY <3>1, FeedStaysKeeps
  <2> QED
    BY <1>5, <2>2, <2>3 DEF HostEnqueue, HostWake
<1>6. CASE TickApply
  <2>1. /\ UNCHANGED <<outputMutex, ringMutex, printed, ring, replayed, feed, feedFrom, ret, msg>>
        /\ pc[Main] = "apply" /\ isConnected' = sawConnected
        /\ pc' = [pc EXCEPT ![Main] = IF sawConnected /\ ~isConnected THEN "replay" ELSE "fetch"]
    BY <1>6 DEF TickApply, Goto, conVars, queueVars, tickVars
  <2>2. pc'[Main] \in {"replay", "fetch"} /\ \A u \in HostThreads \ {Main} : pc'[u] = pc[u]
    BY <2>1 DEF Types, HostThreads
  <2>3. MutexInv' /\ ~Replaying' /\ ~Replaying
    BY <2>1, <2>2 DEF MutexInv, HostThreads, PrintLabels, Carries, Replaying
  <2>4. \A u \in HostThreads : Carries(u) => Carries(u)'
    BY <2>1, <2>2 DEF Carries
  <2>5. \A m : (InFeed(m) => InFeed(m)') /\ (Carried(m) => Carried(m)')
    BY <2>1, <2>4 DEF InFeed, Carried
  <2>6. isConnected' /\ pc'[Main] /= "replay" => isConnected /\ pc[Main] /= "replay"
    BY <2>1, <2>2 DEF Types, HostThreads
  <2> QED
    BY <2>1, <2>3, <2>5, <2>6 DEF FeedInv
<1>7. CASE Join
  <2>1. /\ UNCHANGED <<outputMutex, ringMutex, printed, feedFrom, ret>> /\ isConnected' = FALSE
        /\ pc[Main] = "join" /\ pc' = [pc EXCEPT ![Main] = ret[Main]]
    BY <1>7 DEF Join, Goto, conVars, queueVars
  <2>2. ret[Main] \in {"idle", "enabling"}
    BY <2>1 DEF Placed, PlaceOf, HostThreads
  <2>3. pc'[Main] \in {"idle", "enabling"} /\ \A u \in HostThreads \ {Main} : pc'[u] = pc[u]
    BY <2>1, <2>2 DEF Types, HostThreads
  <2>4. MutexInv'
    BY <2>1, <2>3 DEF MutexInv, HostThreads, PrintLabels, Carries, Replaying
  <2> QED
    BY <2>1, <2>4 DEF FeedInv
<1>8. CASE ReplayLock
  <2>1. /\ UNCHANGED <<outputMutex, printed, ring, ret>>
        /\ pc[Main] = "replay" /\ pc' = [pc EXCEPT ![Main] = "replaying"]
        /\ ringMutex' = Main /\ replayed' = 0 /\ feedFrom' = printed - ring.size + 1
    BY <1>8 DEF ReplayLock, Goto
  <2>2. pc'[Main] = "replaying" /\ \A u \in HostThreads \ {Main} : pc'[u] = pc[u]
    BY <2>1 DEF Types, HostThreads
  <2>3. MutexInv' /\ Replaying'
    BY <2>1, <2>2 DEF MutexInv, HostThreads, PrintLabels, Carries, Replaying
  <2>4. printed \in Nat /\ ring.size \in Nat
    BY RingSizeAssumption DEF RingInv, Rings
  <2>5. feedFrom' \in Int /\ \A m \in feedFrom' .. printed' : m > printed' - ring'.size + replayed'
    BY <2>1, <2>4
  <2> QED
    BY <2>3, <2>5 DEF FeedInv
<1>9. CASE ReplayNext
  <2>1. /\ UNCHANGED <<outputMutex, ringMutex, isConnected, printed, ring, feed, feedFrom>>
        /\ pc[Main] = "replaying" /\ pc' = [pc EXCEPT ![Main] = "host"]
        /\ ret' = [ret EXCEPT ![Main] = "replaying"] /\ msg' = [msg EXCEPT ![Main] = ReplayMsg]
        /\ replayed < ring.size /\ replayed' = replayed + 1
    BY <1>9 DEF ReplayNext, Goto, conVars, queueVars, stateVars
  <2>2. /\ pc'[Main] = "host" /\ ret'[Main] = "replaying" /\ msg'[Main] = ReplayMsg
        /\ \A u \in HostThreads \ {Main} : pc'[u] = pc[u] /\ msg'[u] = msg[u]
    BY <2>1 DEF Types, RingInv, HostThreads
  <2>3. MutexInv' /\ Replaying' /\ Replaying
    BY <2>1, <2>2 DEF MutexInv, HostThreads, PrintLabels, Carries, Replaying
  <2>4. printed \in Nat /\ ring.size \in Nat /\ replayed \in Nat /\ feedFrom \in Int
    BY RingSizeAssumption DEF RingInv, Rings, FeedInv
  <2>5. ReplayMsg = printed - ring.size + (replayed + 1)
    BY <2>1, <2>4 DEF ReplayMsg, RingNumbers
  <2>6. \A m : (InFeed(m) => InFeed(m)') /\ (Carried(m) => Carried(m)')
    <3>1. \A u \in HostThreads : Carries(u) => Carries(u)' /\ msg'[u] = msg[u]
      BY <2>1, <2>2 DEF Carries
    <3> QED
      BY <2>1, <3>1 DEF InFeed, Carried
  <2>7. ASSUME NEW m, m = ReplayMsg PROVE Carried(m)'
    <3>1. Carries(Main)' /\ Main \in HostThreads /\ msg'[Main] = m
      BY <2>2, <2>7 DEF Carries, HostThreads
    <3> QED
      BY <3>1 DEF Carried
  <2>8. \A m \in feedFrom .. printed :
          m > printed - ring.size + replayed =>
            m = printed - ring.size + (replayed + 1) \/ m > printed - ring.size + (replayed + 1)
    BY <2>4
  <2> QED
    BY <2>1, <2>3, <2>5, <2>6, <2>7, <2>8, Zenon DEF FeedInv
<1>10. CASE ReplayEnd
  <2>1. /\ UNCHANGED <<outputMutex, isConnected, printed, ring, feed, feedFrom, ret, msg>>
        /\ pc[Main] = "replaying" /\ pc' = [pc EXCEPT ![Main] = "list"]
        /\ ringMutex' = NoThread /\ replayed = ring.size
    BY <1>10 DEF ReplayEnd, Goto, queueVars, stateVars
  <2>2. pc'[Main] = "list" /\ \A u \in HostThreads \ {Main} : pc'[u] = pc[u]
    BY <2>1 DEF Types, HostThreads
  <2>3. MutexInv'
    BY <2>1, <2>2 DEF MutexInv, HostThreads, PrintLabels, Carries, Replaying
  <2>4. printed \in Nat /\ ring.size \in Nat /\ feedFrom \in Int
    BY RingSizeAssumption DEF RingInv, Rings, FeedInv
  <2>5. \A m : (InFeed(m) => InFeed(m)') /\ (Carried(m) => Carried(m)')
    <3>1. \A u \in HostThreads : Carries(u) => Carries(u)' /\ msg'[u] = msg[u]
      BY <2>1, <2>2 DEF Carries
    <3> QED
      BY <2>1, <3>1 DEF InFeed, Carried
  <2>6. \A m \in feedFrom .. printed : ~(m > printed - ring.size + replayed)
    BY <2>1, <2>4
  <2>7. pc[Main] /= "replay"
    BY <2>1
  <2> QED
    BY <2>1, <2>3, <2>4, <2>5, <2>6, <2>7, Zenon DEF FeedInv
<1>11. CASE AcceptOne
  <2>1. /\ UNCHANGED <<outputMutex, ringMutex, isConnected, printed, ring, replayed, pc, ret, msg>>
        /\ \/ feedFrom' = printed + 1
           \/ UNCHANGED <<feed, feedFrom>>
    BY <1>11 DEF AcceptOne, conVars, tickVars, threadVars
  <2>2. CASE feedFrom' = printed + 1
    <3>1. printed \in Nat /\ printed' = printed
      BY <2>1 DEF RingInv
    <3>2. feedFrom' \in Int /\ feedFrom' .. printed' = {}
      BY <2>2, <3>1
    <3>3. MutexInv'
      BY <2>1 DEF MutexInv, Carries, Replaying
    <3> QED
      BY <3>2, <3>3 DEF FeedInv
  <2>3. CASE UNCHANGED <<feed, feedFrom>>
    <3>1. FeedStays
      BY <2>1, <2>3 DEF MutexInv, FeedStays, Carries, Replaying
    <3> QED
      BY <3>1, FeedStaysKeeps
  <2> QED
    BY <2>1, <2>2, <2>3
<1> QED
  BY <1>1, <1>2, <1>3, <1>4, <1>5, <1>6, <1>7, <1>8, <1>9, <1>10, <1>11, FeedSteps

-----------------------------------------------------------------------------
\* The theorems.

IInv ==
    /\ Types /\ Placed /\ Booleans
    /\ RingInv /\ QueueInv
    /\ NetInv /\ CmdInv /\ StateInv
    /\ RingNumbers /\ MutexInv /\ FeedInv

THEOREM HostInvariant == Spec => []IInv
<1>1. Init => IInv
  BY InitPlaced, InitBooleans, InitRing, InitQueue, InitNet, InitCmd, InitState, InitFeed DEF IInv
<1>2. IInv /\ [Next]_vars => IInv'
  BY NextPlaced, NextBooleans, NextRing, NextQueue, NextNet, NextCmd, NextState,
     NextNumbers, NextFeed DEF IInv
<1> QED
  BY <1>1, <1>2, PTL DEF Spec

\* Type correctness; with it, the queue for the client never exceeds MAX_QUEUE_SIZE, and
\* a replay only shows messages that were printed.
THEOREM HostTypeCorrect == Spec => []TypeOK
<1>1. IInv => TypeOK
  BY DEF IInv, Types, Booleans, RingInv, QueueInv, NetInv, CmdInv, Commands, TypeOK
<1> QED
  BY <1>1, HostInvariant, PTL

\* sendMessages(): a client is sent what was queued since it was accepted, in that order,
\* nothing from before it and nothing twice.
THEOREM FeedIsDelivered == Spec => []FeedDelivered
<1>1. QueueInv => FeedDelivered
  <2> SUFFICES ASSUME QueueInv PROVE FeedDelivered
    OBVIOUS
  <2>1. DOMAIN sent = 1 .. Len(sent)
    BY LenProperties DEF QueueInv
  <2>2. Len(sent) <= Len(feed)
    BY DEF QueueInv, Held
  <2> QED
    BY <2>1, <2>2 DEF QueueInv, FeedDelivered
<1>2. IInv => FeedDelivered
  BY <1>1 DEF IInv
<1> QED
  BY <1>2, HostInvariant, PTL

\* tick(), onClientConnected() and print(): once the ring is replayed, nothing that was
\* printed since its oldest message is missing from what was queued, although threads print
\* while the flag is set and the ring is replayed.
THEOREM FeedHasNoGap == Spec => []FeedComplete
<1>1. ASSUME Types, MutexInv, FeedInv, isConnected, Settled, NEW m \in feedFrom .. printed
      PROVE  \E i \in DOMAIN feed : feed[i] = m
  <2>1. ~Carried(m)
    BY <1>1, ThreadsAssumption DEF MutexInv, Settled, Carried, HostThreads
  <2> QED
    BY <1>1, <2>1 DEF FeedInv, Settled, InFeed
<1>2. IInv => FeedComplete
  BY <1>1 DEF IInv, FeedComplete
<1> QED
  BY <1>2, HostInvariant, PTL

\* onPayloadReceived() and fetchCommands(): the console runs the commands that the worker
\* echoed, each once and in that order.
THEOREM CommandsKeepOrder == Spec => []CommandsInOrder
<1>1. IInv => CommandsInOrder
  BY DEF IInv, CmdInv
<1> QED
  BY <1>1, HostInvariant, PTL

\* onConnAccepted(), onConnClosed(), join(): when the worker starts a round, the state it
\* shares with the main thread says whether it has a client.
THEOREM SharedStateIsTrue == Spec => []StateMatchesClient
<1>1. StateInv => StateMatchesClient
  BY DEF StateInv, StateMatchesClient, At, Round, PrintLabels
<1>2. IInv => StateMatchesClient
  BY <1>1 DEF IInv
<1> QED
  BY <1>2, HostInvariant, PTL
=============================================================================
