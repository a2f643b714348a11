------------------------ MODULE ConsoleOutput_proofs ------------------------
(***************************************************************************)
(* Theorems about ConsoleOutput, for any threads, receivers, ring size and *)
(* number of messages, and one about the program with a console that       *)
(* MCConsole runs beside others.                                           *)
(***************************************************************************)
EXTENDS MCConsole, MsgRing_proofs, FiniteSetTheorems

-----------------------------------------------------------------------------
\* Who is where: a thread's label fits the function it is in, only the main thread
\* flushes, replays and registers, and whoever is past the lock owns the mutex.

PlaceOf(t) ==
    /\ pc[t] = "idle" <=> job[t] = "none"
    /\ job[t] \in {"flush", "report", "replay", "update"} => t = Main
    /\ job[t] = "print" => pc[t] \in {"lock", "push", "deliver", "show"}
    /\ job[t] = "report" => pc[t] = "lock" /\ outputMutex = t
    /\ job[t] = "flush" => pc[t] \in {"lock", "drain", "asserting", "deliver", "show"}
    /\ job[t] = "replay" => pc[t] \in {"ringlock", "deliver", "show"}
    /\ job[t] = "update" <=> pc[t] \in {"reset", "scan"}
    /\ pc[t] \in {"idle", "lock", "push", "reset", "drain", "asserting"} => at[t] = 0
    /\ job[t] \in {"print", "flush"} /\ pc[t] /= "lock" => outputMutex = t
    /\ job[t] = "replay" /\ pc[t] /= "ringlock" => ringMutex = t
    /\ pc[t] = "show" \/ job[t] = "replay" => at[t] \in Receivers

Placed == \A t \in Threads : PlaceOf(t)

Types ==
    /\ outputMutex \in Threads \cup {NoThread}
    /\ ringMutex \in {Main, NoThread}
    /\ recvList \subseteq Receivers
    /\ threadSafeOutput \in BOOLEAN
    /\ pc \in [Threads -> Labels]
    /\ job \in [Threads -> Jobs]
    /\ at \in [Threads -> Receivers \cup {0}]
    /\ running \in BOOLEAN

LEMMA InitPlaced == Init => Types /\ Placed
BY ThreadsAssumption DEF Init, Types, Placed, PlaceOf, Labels, Jobs

LEMMA NextPlaced == Types /\ Placed /\ [Next]_vars => Types' /\ Placed'
<1> SUFFICES ASSUME Types, Placed, [Next]_vars PROVE Types' /\ Placed'
  OBVIOUS
<1> USE ThreadsAssumption, ReceiversAssumption
    DEF Types, Placed, PlaceOf, Labels, Jobs, Goto, Begin, Finish, Printing, ReleaseOutput,
        locks, receiverVars, messageVars, threadVars, history
<1>1. ASSUME NEW t \in Threads, PrintStep(t) PROVE Types' /\ Placed'
  <2>1. CASE PrintLock(t)
    BY <2>1 DEF PrintLock, OutputMutexFree
  <2>2. CASE PrintNow(t)
    BY <2>2 DEF PrintNow, PushMsg
  <2>3. CASE PrintQueued(t)
    BY <2>3 DEF PrintQueued, PushMsg
  <2>4. CASE Deliver(t)
    BY <2>4 DEF Deliver, IsNext, Remaining
  <2>5. CASE ShowDone(t)
    BY <2>5 DEF ShowDone
  <2>6. CASE PrintEnd(t)
    BY <2>6 DEF PrintEnd
  <2> QED
    BY <1>1, <2>1, <2>2, <2>3, <2>4, <2>5, <2>6 DEF PrintStep
<1>2. ASSUME MainStep PROVE Types' /\ Placed'
  <2>1. CASE FlushLock
    BY <2>1 DEF FlushLock, OutputMutexFree
  <2>2. CASE AssertReport
    BY <2>2 DEF AssertReport
  <2>3. CASE Drain
    BY <2>3 DEF Drain
  <2>4. CASE DrainNext
    BY <2>4 DEF DrainNext
  <2>5. CASE DrainEnd
    BY <2>5 DEF DrainEnd
  <2>6. CASE ReplayLock
    BY <2>6 DEF ReplayLock
  <2>7. CASE ReplayShow
    BY <2>7 DEF ReplayShow
  <2>8. CASE ReplayEnd
    BY <2>8 DEF ReplayEnd
  <2>9. CASE UpdateReset
    BY <2>9 DEF UpdateReset
  <2>10. CASE UpdateScan
    BY <2>10 DEF UpdateScan, IsNext, Remaining, Accumulate
  <2>11. CASE UpdateEnd
    BY <2>11 DEF UpdateEnd
  <2> QED
    BY <1>2, <2>1, <2>2, <2>3, <2>4, <2>5, <2>6, <2>7, <2>8, <2>9, <2>10, <2>11 DEF MainStep
<1>3. ASSUME Call PROVE Types' /\ Placed'
  <2>1. ASSUME NEW t \in Threads, PrintCall(t) PROVE Types' /\ Placed'
    BY <2>1 DEF PrintCall
  <2>2. CASE FlushCall
    BY <2>2 DEF FlushCall
  <2>3. CASE ReplayCall
    BY <2>3 DEF ReplayCall
  <2>4. CASE AddReceiver
    BY <2>4 DEF AddReceiver
  <2>5. CASE RemoveReceiver
    BY <2>5 DEF RemoveReceiver
  <2>6. CASE StartThreads
    BY <2>6 DEF StartThreads
  <2>7. CASE JoinThreads
    BY <2>7 DEF JoinThreads
  <2> QED
    BY <1>3, <2>1, <2>2, <2>3, <2>4, <2>5, <2>6, <2>7 DEF Call
<1>4. CASE UNCHANGED vars
  BY <1>4 DEF vars
<1> QED
  BY <1>1, <1>2, <1>3, <1>4 DEF Next

-----------------------------------------------------------------------------
\* The flag: while other threads run it says whether every receiver is thread-safe,
\* and a thread that delivers directly found it so.

FlagInv ==
    /\ ~running => \A t \in Threads \ {Main} : pc[t] = "idle"
    /\ job[Main] = "update" => ~running
    /\ job[Main] /= "update" => (threadSafeOutput <=> recvList \subseteq SafeReceivers)
    /\ pc[Main] = "scan" =>
         (threadSafeOutput <=> \A r \in recvList : r <= at[Main] => r \in SafeReceivers)
    /\ \A t \in Threads \ {Main} :
         /\ pc[t] \in {"deliver", "show"} => recvList \subseteq SafeReceivers
         /\ pc[t] = "show" => at[t] \in recvList

LEMMA PositionsAreNat ==
    ASSUME Types
    PROVE  at[Main] \in Nat /\ \A q \in recvList : q \in Nat
<1>1. at[Main] \in Receivers \cup {0}
  BY ThreadsAssumption DEF Types
<1>2. Receivers \subseteq Nat /\ recvList \subseteq Receivers
  BY ReceiversAssumption, Zenon DEF Types
<1>3. \A q \in Receivers : q \in Nat
  BY <1>2, Zenon
<1>4. at[Main] \in Receivers \/ at[Main] = 0
  BY <1>1, Zenon
<1>5. at[Main] \in Nat
  BY <1>3, <1>4
<1>6. \A q \in recvList : q \in Nat
  BY <1>2, Zenon
<1> QED
  BY <1>5, <1>6, Zenon

LEMMA InitFlag == Init => FlagInv
BY ThreadsAssumption DEF Init, FlagInv

LEMMA NextFlag ==
    ASSUME LateRegistration = FALSE, Types, Placed, FlagInv, [Next]_vars
    PROVE  FlagInv'
<1> USE ThreadsAssumption, ReceiversAssumption
    DEF Types, Placed, PlaceOf, FlagInv, Labels, Jobs, Goto, Begin, Finish, Printing,
        locks, receiverVars, messageVars, threadVars, history
<1>1. ASSUME NEW t \in Threads, PrintStep(t) PROVE FlagInv'
  <2>1. CASE PrintLock(t)
    BY <2>1 DEF PrintLock
  <2>2. CASE PrintNow(t)
    BY <2>2 DEF PrintNow, PushMsg, PrintsDirectly
  <2>3. CASE PrintQueued(t)
    BY <2>3 DEF PrintQueued, PushMsg
  <2>4. CASE Deliver(t)
    BY <2>4 DEF Deliver, IsNext, Remaining
  <2>5. CASE ShowDone(t)
    BY <2>5 DEF ShowDone
  <2>6. CASE PrintEnd(t)
    BY <2>6 DEF PrintEnd
  <2> QED
    BY <1>1, <2>1, <2>2, <2>3, <2>4, <2>5, <2>6 DEF PrintStep
<1>2. ASSUME MainStep PROVE FlagInv'
  <2>1. CASE FlushLock
    BY <2>1 DEF FlushLock
  <2>2. CASE AssertReport
    BY <2>2 DEF AssertReport
  <2>3. CASE Drain
    BY <2>3 DEF Drain
  <2>4. CASE DrainNext
    BY <2>4 DEF DrainNext
  <2>5. CASE DrainEnd
    BY <2>5 DEF DrainEnd
  <2>6. CASE ReplayLock
    BY <2>6 DEF ReplayLock
  <2>7. CASE ReplayShow
    BY <2>7 DEF ReplayShow
  <2>8. CASE ReplayEnd
    BY <2>8 DEF ReplayEnd
  <2>9. CASE UpdateReset
    BY <2>9 DEF UpdateReset
  <2>10. CASE UpdateScan
    <3>1. PICK r \in recvList : /\ IsNext(r, at[Main])
                                /\ threadSafeOutput' = Accumulate(r)
                                /\ at' = [at EXCEPT ![Main] = r]
      BY <2>10 DEF UpdateScan
    <3>2. \A q \in recvList : q <= r <=> (q <= at[Main] \/ q = r)
      <4>1. at[Main] \in Nat /\ \A q \in recvList : q \in Nat
        BY PositionsAreNat
      <4>2. r > at[Main] /\ \A q \in recvList : q > at[Main] => r <= q
        BY <3>1 DEF IsNext, Remaining
      <4> QED
        BY <4>1, <4>2
    <3>3. threadSafeOutput' <=> \A q \in recvList : q <= r => q \in SafeReceivers
      BY <2>10, <3>1, <3>2 DEF UpdateScan, Accumulate
    <3>4. UNCHANGED <<pc, job, recvList, running>> /\ at'[Main] = r
      BY <2>10, <3>1 DEF UpdateScan
    <3> QED
      BY <2>10, <3>1, <3>3, <3>4 DEF UpdateScan
  <2>11. CASE UpdateEnd
    <3>1. \A q \in recvList : q <= at[Main]
      <4>1. at[Main] \in Nat /\ \A q \in recvList : q \in Nat
        BY PositionsAreNat
      <4>2. \A q \in recvList : ~(q > at[Main])
        BY <2>11 DEF UpdateEnd, Remaining
      <4> QED
        BY <4>1, <4>2
    <3>2. threadSafeOutput <=> recvList \subseteq SafeReceivers
      BY <2>11, <3>1 DEF UpdateEnd
    <3> QED
      BY <2>11, <3>2 DEF UpdateEnd
  <2> QED
    BY <1>2, <2>1, <2>2, <2>3, <2>4, <2>5, <2>6, <2>7, <2>8, <2>9, <2>10, <2>11 DEF MainStep
<1>3. ASSUME Call PROVE FlagInv'
  <2>1. ASSUME NEW t \in Threads, PrintCall(t) PROVE FlagInv'
    BY <2>1 DEF PrintCall
  <2>2. CASE FlushCall
    BY <2>2 DEF FlushCall
  <2>3. CASE ReplayCall
    BY <2>3 DEF ReplayCall
  <2>4. CASE AddReceiver
    BY <2>4 DEF AddReceiver, MayRegister
  <2>5. CASE RemoveReceiver
    BY <2>5 DEF RemoveReceiver, MayRegister
  <2>6. CASE StartThreads
    BY <2>6 DEF StartThreads
  <2>7. CASE JoinThreads
    BY <2>7 DEF JoinThreads
  <2> QED
    BY <1>3, <2>1, <2>2, <2>3, <2>4, <2>5, <2>6, <2>7 DEF Call
<1>4. CASE UNCHANGED vars
  BY <1>4 DEF vars
<1> QED
  BY <1>1, <1>2, <1>3, <1>4 DEF Next

\* In a program that registers its receivers before it starts other threads, a
\* receiver that is not thread-safe is called by the main thread only: print()'s test
\* of the flag and the delayed queue suffice, whatever the receivers and the threads.
THEOREM UnsafeReceiversOnMain ==
    ASSUME LateRegistration = FALSE
    PROVE  Spec => []UnsafeOnMainOnly
<1>1. Init => Types /\ Placed /\ FlagInv
  BY InitPlaced, InitFlag
<1>2. Types /\ Placed /\ FlagInv /\ [Next]_vars => (Types /\ Placed /\ FlagInv)'
  BY NextPlaced, NextFlag
<1>3. Types /\ Placed /\ FlagInv => UnsafeOnMainOnly
  BY DEF Types, FlagInv, UnsafeOnMainOnly
<1> QED
  BY <1>1, <1>2, <1>3, PTL DEF Spec

\* In such a program the flag that print() reads is never stale: while other threads
\* run, output is direct exactly if every registered receiver is thread-safe.
THEOREM FlagIsNeverStale ==
    ASSUME LateRegistration = FALSE
    PROVE  Spec => []FlagAgreesWithReceivers
<1>1. Init => Types /\ Placed /\ FlagInv
  BY InitPlaced, InitFlag
<1>2. Types /\ Placed /\ FlagInv /\ [Next]_vars => (Types /\ Placed /\ FlagInv)'
  BY NextPlaced, NextFlag
<1>3. Types /\ Placed /\ FlagInv => FlagAgreesWithReceivers
  BY DEF FlagInv, FlagAgreesWithReceivers
<1> QED
  BY <1>1, <1>2, <1>3, PTL DEF Spec

-----------------------------------------------------------------------------
\* The messages: a print() in progress has room left in the log, so that its message
\* is one of Msgs, and the slots of the ring that a replay reads were written.

Bounded == Len(log) + Cardinality(PrintsInProgress) <= MaxMsgs

LogType == log \in Seq([by : Threads, queued : BOOLEAN])

\* A step that is none of PrintCall, PrintNow and PrintQueued.
KeepsPrints == PrintsInProgress' = PrintsInProgress /\ log' = log

LEMMA InitBounded == Init => Bounded /\ LogType
<1> SUFFICES ASSUME Init PROVE Bounded /\ LogType
  OBVIOUS
<1>1. PrintsInProgress = {}
  BY DEF Init, PrintsInProgress
<1>2. Cardinality(PrintsInProgress) = 0
  BY <1>1, FS_EmptySet
<1> QED
  BY <1>2, OptionsAssumption DEF Init, Bounded, LogType

LEMMA PrintsAreFinite == IsFiniteSet(PrintsInProgress) /\ Cardinality(PrintsInProgress) \in Nat
<1>1. PrintsInProgress \subseteq Threads
  BY DEF PrintsInProgress
<1>2. IsFiniteSet(PrintsInProgress)
  BY <1>1, ThreadsAssumption, FS_Subset
<1> QED
  BY <1>2, FS_CardinalityType

\* Only a thread between its call and its push is counted.
LEMMA PushLeaves ==
    ASSUME Types, Placed, Bounded, LogType, NEW t \in Threads, PushMsg(t), pc'[t] \in {"idle", "deliver"},
           \A u \in Threads \ {t} : pc'[u] = pc[u] /\ job'[u] = job[u]
    PROVE  Len(log) + 1 \in Msgs /\ Bounded' /\ LogType'
<1>1. t \in PrintsInProgress
  BY DEF Types, Placed, PlaceOf, PushMsg, PrintsInProgress, Labels, Jobs
<1>2. PrintsInProgress' = PrintsInProgress \ {t}
  BY <1>1 DEF PrintsInProgress
<1>3. Cardinality(PrintsInProgress \ {t}) = Cardinality(PrintsInProgress) - 1
  BY <1>1, PrintsAreFinite, FS_RemoveElement
<1>4. Cardinality(PrintsInProgress') \in Nat
  <2>1. IsFiniteSet(PrintsInProgress')
    BY <1>2, PrintsAreFinite, FS_RemoveElement
  <2> QED
    BY <2>1, FS_CardinalityType
<1>5. Len(log) \in Nat /\ MaxMsgs \in Nat
  BY OptionsAssumption DEF LogType
<1>6. LogType' /\ Len(log') = Len(log) + 1
  BY DEF PushMsg, LogType, PrintsDirectly, Types
<1>7. Len(log) + 1 <= MaxMsgs
  BY <1>2, <1>3, <1>4, <1>5, PrintsAreFinite DEF Bounded
<1> QED
  BY <1>2, <1>3, <1>5, <1>6, <1>7, PrintsAreFinite DEF Bounded, Msgs

LEMMA NextBounded ==
    ASSUME Types, Placed, Bounded, LogType, [Next]_vars
    PROVE  Bounded' /\ LogType'
<1> USE DEF Types, Goto, Begin, Finish, Printing,
        locks, receiverVars, messageVars, threadVars, history
<1>1. ASSUME KeepsPrints PROVE Bounded' /\ LogType'
  BY <1>1 DEF KeepsPrints, Bounded, LogType
<1>2. ASSUME NEW t \in Threads, PrintCall(t) PROVE Bounded' /\ LogType'
  <2>1. t \notin PrintsInProgress /\ PrintsInProgress' = PrintsInProgress \cup {t}
    BY <1>2 DEF PrintCall, PrintsInProgress
  <2>2. Cardinality(PrintsInProgress') = Cardinality(PrintsInProgress) + 1
    BY <2>1, PrintsAreFinite, FS_AddElement
  <2>3. Len(log) \in Nat /\ MaxMsgs \in Nat
    BY OptionsAssumption DEF LogType
  <2>4. log' = log /\ Len(log) + Cardinality(PrintsInProgress) < MaxMsgs
    BY <1>2 DEF PrintCall
  <2> QED
    BY <2>2, <2>3, <2>4, PrintsAreFinite DEF Bounded, LogType
<1>3. ASSUME NEW t \in Threads, PrintStep(t) PROVE Bounded' /\ LogType'
  <2>1. CASE PrintLock(t)
    BY <2>1, <1>1 DEF PrintLock, KeepsPrints, PrintsInProgress
  <2>2. CASE PrintNow(t)
    BY <2>2, PushLeaves DEF PrintNow
  <2>3. CASE PrintQueued(t)
    BY <2>3, PushLeaves DEF PrintQueued
  <2>4. CASE Deliver(t)
    BY <2>4, <1>1 DEF Deliver, KeepsPrints, PrintsInProgress
  <2>5. CASE ShowDone(t)
    BY <2>5, <1>1 DEF ShowDone, KeepsPrints, PrintsInProgress
  <2>6. CASE PrintEnd(t)
    BY <2>6, <1>1 DEF PrintEnd, KeepsPrints, PrintsInProgress
  <2> QED
    BY <1>3, <2>1, <2>2, <2>3, <2>4, <2>5, <2>6 DEF PrintStep
<1>4. ASSUME MainStep PROVE KeepsPrints
  <2> USE ThreadsAssumption DEF Placed, PlaceOf, KeepsPrints, PrintsInProgress
  <2>1. CASE FlushLock
    BY <2>1 DEF FlushLock
  <2>2. CASE AssertReport
    BY <2>2 DEF AssertReport
  <2>3. CASE Drain
    BY <2>3 DEF Drain
  <2>4. CASE DrainNext
    BY <2>4 DEF DrainNext
  <2>5. CASE DrainEnd
    BY <2>5 DEF DrainEnd
  <2>6. CASE ReplayLock
    BY <2>6 DEF ReplayLock
  <2>7. CASE ReplayShow
    BY <2>7 DEF ReplayShow
  <2>8. CASE ReplayEnd
    BY <2>8 DEF ReplayEnd
  <2>9. CASE UpdateReset
    BY <2>9 DEF UpdateReset
  <2>10. CASE UpdateScan
    BY <2>10 DEF UpdateScan
  <2>11. CASE UpdateEnd
    BY <2>11 DEF UpdateEnd
  <2> QED
    BY <1>4, <2>1, <2>2, <2>3, <2>4, <2>5, <2>6, <2>7, <2>8, <2>9, <2>10, <2>11 DEF MainStep
<1>5. ASSUME FlushCall \/ ReplayCall \/ AddReceiver \/ RemoveReceiver PROVE KeepsPrints
  <2> USE ThreadsAssumption DEF KeepsPrints, PrintsInProgress
  <2>1. CASE FlushCall
    BY <2>1 DEF FlushCall
  <2>2. CASE ReplayCall
    BY <2>2 DEF ReplayCall
  <2>3. CASE AddReceiver
    BY <2>3 DEF AddReceiver
  <2>4. CASE RemoveReceiver
    BY <2>4 DEF RemoveReceiver
  <2> QED
    BY <1>5, <2>1, <2>2, <2>3, <2>4
<1>6. ASSUME StartThreads \/ JoinThreads \/ UNCHANGED vars PROVE KeepsPrints
  BY <1>6 DEF StartThreads, JoinThreads, vars, KeepsPrints, PrintsInProgress
<1> QED
  BY <1>1, <1>2, <1>3, <1>4, <1>5, <1>6 DEF Next, Call

-----------------------------------------------------------------------------
\* The ring: only push() changes it, and only with a message of Msgs.

Written(i) == ring.size < RingSize => i < ring.size

RingInv ==
    /\ ring \in Rings(Msgs)
    /\ RingFilled(ring)
    /\ \A i \in Slots : Written(i) => ring.buf[i] \in Msgs

LEMMA InitRing == Init => RingInv
BY RingSizeAssumption DEF Init, RingInv, Rings, RingFilled, EmptyRing, Slots, Written

LEMMA PushKeepsRing ==
    ASSUME RingInv, NEW m \in Msgs, ring' = RingPush(ring, m)
    PROVE  RingInv'
<1>1. ring' \in Rings(Msgs) /\ RingFilled(ring')
  BY RingPushType DEF RingInv
<1>2. \A i \in Slots : Written(i)' => ring'.buf[i] \in Msgs
  BY RingSizeAssumption DEF RingInv, RingPush, Rings, RingFilled, Slots, Written
<1> QED
  BY <1>1, <1>2 DEF RingInv

\* A step pushes one message, for which there was room, or leaves the ring alone.
LEMMA RingSteps ==
    ASSUME Types, Placed, Bounded, LogType, [Next]_vars
    PROVE  \/ \E m \in Msgs : ring' = RingPush(ring, m)
           \/ ring' = ring
<1> USE DEF messageVars
<1>1. ASSUME NEW t \in Threads, PrintStep(t)
      PROVE  (\E m \in Msgs : ring' = RingPush(ring, m)) \/ ring' = ring
  <2> USE DEF Types, Goto, Finish
  <2>1. CASE PrintNow(t)
    BY <2>1, PushLeaves DEF PrintNow, PushMsg
  <2>2. CASE PrintQueued(t)
    BY <2>2, PushLeaves DEF PrintQueued, PushMsg
  <2> QED
    BY <1>1, <2>1, <2>2 DEF PrintStep, PrintLock, Deliver, ShowDone, PrintEnd
<1>2. MainStep => ring' = ring
  BY DEF MainStep, FlushLock, AssertReport, Drain, DrainNext, DrainEnd, ReplayLock,
         ReplayShow, ReplayEnd, UpdateReset, UpdateScan, UpdateEnd
<1>3. Call => ring' = ring
  BY DEF Call, PrintCall, FlushCall, ReplayCall, AddReceiver, RemoveReceiver,
         StartThreads, JoinThreads
<1>4. UNCHANGED vars => ring' = ring
  BY DEF vars
<1> QED
  BY <1>1, <1>2, <1>3, <1>4 DEF Next

LEMMA NextRing ==
    ASSUME Types, Placed, Bounded, LogType, RingInv, [Next]_vars
    PROVE  RingInv'
<1>1. CASE \E m \in Msgs : ring' = RingPush(ring, m)
  BY <1>1, PushKeepsRing
<1>2. CASE ring' = ring
  BY <1>2 DEF RingInv, Written
<1> QED
  BY <1>1, <1>2, RingSteps

\* Whatever the threads do, what a replay would show is at every moment the most recent
\* RingSize messages, oldest first: the ring implements MsgHistory.
THEOREM RingImplementsHistory == Spec => HistorySpec
<1> DEFINE Inv == Types /\ Placed /\ Bounded /\ LogType /\ RingInv
<1>1. Init => Inv
  BY InitPlaced, InitBounded, InitRing
<1>2. Inv /\ [Next]_vars => Inv'
  BY NextPlaced, NextBounded, NextRing
<1>3. Init => History!Init
  BY RingSizeAssumption DEF Init, History!Init, EmptyRing, RingContents
<1>4. Inv /\ [Next]_vars => [History!Next]_(RingContents(ring))
  <2> SUFFICES ASSUME Inv, [Next]_vars PROVE [History!Next]_(RingContents(ring))
    OBVIOUS
  <2>1. ASSUME NEW m \in Msgs, ring' = RingPush(ring, m) PROVE History!Next
    <3>1. RingContents(ring') = IF Len(RingContents(ring)) < RingSize
                                THEN Append(RingContents(ring), m)
                                ELSE Append(Tail(RingContents(ring)), m)
      BY <2>1, RingPushContents DEF RingInv
    <3> QED
      BY <3>1 DEF History!Next, History!Remember
  <2> QED
    BY <2>1, RingSteps
<1> QED
  BY <1>1, <1>2, <1>3, <1>4, PTL DEF Spec, HistorySpec, History!Spec

-----------------------------------------------------------------------------
\* The types of what is carried from place to place, and with them TypeOK.

Carried ==
    /\ threadedMsgQueue \in Seq(Msgs)
    /\ msg \in [Threads -> Msgs \cup {0}]
    /\ replayed \in Seq(Msgs)
    /\ owed \in [Receivers -> SUBSET Msgs]
    /\ shown \in [Receivers -> Seq(Msgs)]
    /\ \A t \in Threads :
         job[t] \in {"print", "flush"} /\ pc[t] \in {"deliver", "show"} => msg[t] \in Msgs
    /\ job[Main] = "flush" /\ pc[Main] \in {"deliver", "show"} => threadedMsgQueue /= <<>>

LEMMA InitCarried == Init => Carried
BY ThreadsAssumption DEF Init, Carried

LEMMA NextCarried ==
    ASSUME Types, Placed, Bounded, LogType, RingInv, Carried, [Next]_vars
    PROVE  Carried'
<1> USE ThreadsAssumption DEF Types, Carried, Goto, Begin, Finish, Labels, Jobs,
        locks, receiverVars, messageVars, threadVars, history
<1>1. ASSUME NEW t \in Threads, PrintStep(t) PROVE Carried'
  <2>1. CASE PrintLock(t)
    BY <2>1 DEF PrintLock
  <2>2. CASE PrintNow(t)
    <3>1. Len(log) + 1 \in Msgs
      BY <2>2, PushLeaves DEF PrintNow
    <3>2. /\ UNCHANGED <<threadedMsgQueue, replayed, shown, job>>
          /\ msg' = [msg EXCEPT ![t] = Len(log) + 1]
          /\ pc' = [pc EXCEPT ![t] = "deliver"] /\ pc[t] = "push"
          /\ owed' = [r \in Receivers |-> IF r \in recvList THEN owed[r] \cup {Len(log) + 1}
                                          ELSE owed[r]]
      BY <2>2 DEF PrintNow, PushMsg
    <3>3. job[t] /= "flush"
      BY <3>2 DEF Placed, PlaceOf
    <3>4. msg' \in [Threads -> Msgs \cup {0}] /\ owed' \in [Receivers -> SUBSET Msgs]
      BY <3>1, <3>2
    <3>5. ASSUME NEW u \in Threads, job'[u] \in {"print", "flush"}, pc'[u] \in {"deliver", "show"}
          PROVE  msg'[u] \in Msgs
      BY <3>1, <3>2, <3>5
    <3>6. job'[Main] = "flush" /\ pc'[Main] \in {"deliver", "show"} => threadedMsgQueue' /= <<>>
      BY <3>2, <3>3
    <3> QED
      BY <3>2, <3>4, <3>5, <3>6
  <2>3. CASE PrintQueued(t)
    <3>1. Len(log) + 1 \in Msgs
      BY <2>3, PushLeaves DEF PrintQueued
    <3>2. threadedMsgQueue' \in Seq(Msgs) /\ threadedMsgQueue' /= <<>>
      <4>1. threadedMsgQueue' = Append(threadedMsgQueue, Len(log) + 1)
        BY <2>3 DEF PrintQueued, Enqueue
      <4>2. threadedMsgQueue \in Seq(Msgs)
        OBVIOUS
      <4> QED
        BY <3>1, <4>1, <4>2, AppendProperties
    <3> QED
      BY <2>3, <3>1, <3>2 DEF PrintQueued, PushMsg
  <2>4. CASE Deliver(t)
    <3>1. msg[t] \in Msgs
      BY <2>4 DEF Deliver, Placed, PlaceOf, Printing
    <3>2. PICK r \in recvList : shown' = [shown EXCEPT ![r] = Append(@, msg[t])]
      BY <2>4 DEF Deliver
    <3>3. shown' \in [Receivers -> Seq(Msgs)]
      BY <3>1, <3>2
    <3>4. UNCHANGED <<threadedMsgQueue, msg, replayed, owed, job>> /\ pc[t] = "deliver"
      BY <2>4 DEF Deliver
    <3> QED
      BY <2>4, <3>1, <3>3, <3>4 DEF Deliver
  <2>5. CASE ShowDone(t)
    BY <2>5 DEF ShowDone
  <2>6. CASE PrintEnd(t)
    BY <2>6 DEF PrintEnd
  <2> QED
    BY <1>1, <2>1, <2>2, <2>3, <2>4, <2>5, <2>6 DEF PrintStep
<1>2. ASSUME MainStep PROVE Carried'
  <2>1. CASE FlushLock
    BY <2>1 DEF FlushLock
  <2>2. CASE AssertReport
    BY <2>2 DEF AssertReport
  <2>3. CASE Drain
    <3>1. Head(threadedMsgQueue) \in Msgs
      BY <2>3 DEF Drain, MsgToDrain
    <3> QED
      BY <2>3, <3>1 DEF Drain, MsgToDrain
  <2>4. CASE DrainNext
    <3>1. msg[Main] \in Msgs
      BY <2>4 DEF DrainNext
    <3>2. threadedMsgQueue' = Tail(threadedMsgQueue)
      BY <2>4 DEF DrainNext
    <3>3. threadedMsgQueue /= <<>>
      BY <2>4 DEF DrainNext
    <3> QED
      BY <2>4, <3>2, <3>3 DEF DrainNext
  <2>5. CASE DrainEnd
    BY <2>5 DEF DrainEnd
  <2>6. CASE ReplayLock
    BY <2>6 DEF ReplayLock, Placed, PlaceOf
  <2>7. CASE ReplayShow
    <3>1. Len(replayed) \in Nat /\ Len(replayed) < ring.size
      BY <2>7 DEF ReplayShow
    <3>2. RingContents(ring)[Len(replayed) + 1] \in Msgs
      <4> DEFINE i == Len(replayed) + 1
      <4>1. i \in 1 .. ring.size
        BY <3>1 DEF RingInv, Rings
      <4>2. RingContents(ring)[i] = ring.buf[SlotOf(ring, i)]
        BY <4>1, RingContentsAt DEF RingInv
      <4>3. SlotOf(ring, i) \in Slots /\ Written(SlotOf(ring, i))
        BY <4>1, RingSizeAssumption DEF RingInv, Rings, SlotOf, Slots, Written
      <4> QED
        BY <4>2, <4>3 DEF RingInv
    <3>3. replayed' \in Seq(Msgs)
      BY <2>7, <3>2 DEF ReplayShow
    <3> QED
      BY <2>7, <3>3 DEF ReplayShow
  <2>8. CASE ReplayEnd
    BY <2>8 DEF ReplayEnd
  <2>9. CASE UpdateReset
    BY <2>9 DEF UpdateReset
  <2>10. CASE UpdateScan
    BY <2>10 DEF UpdateScan
  <2>11. CASE UpdateEnd
    BY <2>11 DEF UpdateEnd
  <2> QED
    BY <1>2, <2>1, <2>2, <2>3, <2>4, <2>5, <2>6, <2>7, <2>8, <2>9, <2>10, <2>11 DEF MainStep
<1>3. ASSUME Call PROVE Carried'
  <2>1. ASSUME NEW t \in Threads, PrintCall(t) PROVE Carried'
    BY <2>1 DEF PrintCall
  <2>2. CASE FlushCall
    BY <2>2 DEF FlushCall
  <2>3. CASE ReplayCall
    BY <2>3 DEF ReplayCall
  <2>4. CASE AddReceiver
    <3>1. owed' \in [Receivers -> SUBSET Msgs]
      BY <2>4 DEF AddReceiver
    <3> QED
      BY <2>4, <3>1 DEF AddReceiver
  <2>5. CASE RemoveReceiver
    BY <2>5 DEF RemoveReceiver
  <2>6. CASE StartThreads
    BY <2>6 DEF StartThreads
  <2>7. CASE JoinThreads
    BY <2>7 DEF JoinThreads
  <2> QED
    BY <1>3, <2>1, <2>2, <2>3, <2>4, <2>5, <2>6, <2>7 DEF Call
<1>4. CASE UNCHANGED vars
  BY <1>4 DEF vars
<1> QED
  BY <1>1, <1>2, <1>3, <1>4 DEF Next

\* The console's state keeps its type: no message outside those printed enters a queue,
\* a ring slot that is read or a receiver, and only the main thread holds the ring.
THEOREM TypeCorrect == Spec => []TypeOK
<1> DEFINE Inv == Types /\ Placed /\ Bounded /\ LogType /\ RingInv /\ Carried
<1>1. Init => Inv
  BY InitPlaced, InitBounded, InitRing, InitCarried
<1>2. Inv /\ [Next]_vars => Inv'
  BY NextPlaced, NextBounded, NextRing, NextCarried
<1>3. Inv => TypeOK
  <2> SUFFICES ASSUME Inv PROVE TypeOK
    OBVIOUS
  <2>1. Len(log) <= MaxMsgs
    BY PrintsAreFinite, OptionsAssumption DEF Bounded, LogType
  <2> QED
    BY <2>1 DEF Types, LogType, RingInv, Carried, TypeOK
<1> QED
  BY <1>1, <1>2, <1>3, PTL DEF Spec
-----------------------------------------------------------------------------
\* Replays.

\* The ring holds the last messages of the log, and so does what a replay has shown.
RingTail == \A i \in 1 .. ring.size : RingContents(ring)[i] = Len(log) - ring.size + i

ReplayInv ==
    /\ ringMutex = NoThread => replayed = <<>>
    /\ ReplayIsSnapshot

\* A step pushes the next message of the log, while nobody replays, or leaves both alone.
LEMMA LogSteps ==
    ASSUME Types, Placed, Bounded, LogType, [Next]_vars
    PROVE  \/ /\ Len(log) + 1 \in Msgs
              /\ ring' = RingPush(ring, Len(log) + 1)
              /\ \E e : log' = Append(log, e)
              /\ ringMutex = NoThread
              /\ UNCHANGED <<ringMutex, replayed>>
           \/ UNCHANGED <<ring, log>>
<1> USE DEF messageVars
<1>1. ASSUME NEW t \in Threads, PrintNow(t) \/ PrintQueued(t)
      PROVE  /\ Len(log) + 1 \in Msgs
             /\ ring' = RingPush(ring, Len(log) + 1)
             /\ \E e : log' = Append(log, e)
             /\ ringMutex = NoThread
             /\ UNCHANGED <<ringMutex, replayed>>
  <2>1. PushMsg(t)
    BY <1>1 DEF PrintNow, PrintQueued
  <2>2. Len(log) + 1 \in Msgs
    BY <1>1, <2>1, PushLeaves DEF PrintNow, PrintQueued, Types, Goto, Finish
  <2>3. UNCHANGED <<ringMutex, replayed>>
    BY <1>1 DEF PrintNow, PrintQueued, locks
  <2> QED
    BY <2>1, <2>2, <2>3 DEF PushMsg, RingMutexFree
<1>2. ASSUME NEW t \in Threads, PrintStep(t), ~ (PrintNow(t) \/ PrintQueued(t))
      PROVE  UNCHANGED <<ring, log>>
  BY <1>2 DEF PrintStep, PrintLock, Deliver, ShowDone, PrintEnd
<1>3. MainStep => UNCHANGED <<ring, log>>
  BY DEF MainStep, FlushLock, AssertReport, Drain, DrainNext, DrainEnd, ReplayLock,
         ReplayShow, ReplayEnd, UpdateReset, UpdateScan, UpdateEnd
<1>4. Call => UNCHANGED <<ring, log>>
  BY DEF Call, PrintCall, FlushCall, ReplayCall, AddReceiver, RemoveReceiver,
         StartThreads, JoinThreads
<1>5. UNCHANGED vars => UNCHANGED <<ring, log>>
  BY DEF vars
<1> QED
  BY <1>1, <1>2, <1>3, <1>4, <1>5 DEF Next

LEMMA NextRingTail ==
    ASSUME Types, Placed, Bounded, LogType, RingInv, RingTail, [Next]_vars
    PROVE  RingTail'
<1>1. CASE UNCHANGED <<ring, log>>
  BY <1>1 DEF RingTail
<1>2. CASE /\ Len(log) + 1 \in Msgs
           /\ ring' = RingPush(ring, Len(log) + 1)
           /\ \E e : log' = Append(log, e)
  <2> DEFINE old == RingContents(ring)
             new == RingContents(ring')
  <2>1. new = IF Len(old) < RingSize THEN Append(old, Len(log) + 1)
                                     ELSE Append(Tail(old), Len(log) + 1)
    BY <1>2, RingPushContents DEF RingInv
  <2> DEFINE n == ring.size
             k == Len(log)
  <2>2. old \in Seq(Msgs \cup {NoMsg}) /\ Len(old) = n
    BY RingContentsAt DEF RingInv
  <2>3. \A i \in 1 .. n : old[i] = k - n + i
    BY DEF RingTail
  <2>4. k \in Nat /\ Len(log') = k + 1
    BY <1>2 DEF LogType
  <2>5. n \in Nat /\ n <= RingSize /\ RingSize \in Nat \ {0}
    BY RingSizeAssumption DEF RingInv, Rings
  <2>6. ring'.size = IF n < RingSize THEN n + 1 ELSE n
    BY <1>2 DEF RingPush
  <2> HIDE DEF old, new, n, k
  <2>7. CASE n < RingSize
    <3>1. new = Append(old, k + 1) /\ ring'.size = n + 1
      BY <2>1, <2>2, <2>6, <2>7 DEF k
    <3>2. ASSUME NEW i \in 1 .. n + 1 PROVE new[i] = (k + 1) - (n + 1) + i
      <4>1. CASE i = n + 1
        BY <2>2, <2>4, <2>5, <3>1, <4>1
      <4>2. CASE i \in 1 .. n
        <5>1. new[i] = old[i]
          BY <2>2, <2>5, <3>1, <4>2
        <5> QED
          BY <2>3, <2>4, <2>5, <4>2, <5>1
      <4> QED
        BY <2>5, <4>1, <4>2
    <3> QED
      BY <2>4, <3>1, <3>2 DEF RingTail, new
  <2>8. CASE ~ (n < RingSize)
    <3>1. new = Append(Tail(old), k + 1) /\ ring'.size = n
      BY <2>1, <2>2, <2>6, <2>8 DEF k
    <3>2. old /= <<>> /\ Len(Tail(old)) = n - 1 /\ Tail(old) \in Seq(Msgs \cup {NoMsg})
      BY <2>2, <2>5, <2>8
    <3>3. ASSUME NEW i \in 1 .. n PROVE new[i] = (k + 1) - n + i
      <4>1. CASE i = n
        BY <2>4, <2>5, <3>1, <3>2, <4>1
      <4>2. CASE i \in 1 .. n - 1
        <5>1. new[i] = Tail(old)[i]
          BY <2>5, <3>1, <3>2, <4>2
        <5>2. Tail(old)[i] = old[i + 1] /\ i + 1 \in 1 .. n
          BY <2>2, <2>5, <3>2, <4>2
        <5>3. old[i + 1] = k - n + (i + 1)
          BY <2>3, <5>2
        <5>4. new[i] = k - n + (i + 1)
          BY <5>1, <5>2, <5>3, Zenon
        <5> QED
          BY <2>4, <2>5, <4>2, <5>4
      <4> QED
        BY <2>5, <4>1, <4>2
    <3> QED
      BY <2>4, <3>1, <3>3 DEF RingTail, new
  <2> QED
    BY <2>7, <2>8
<1> QED
  BY <1>1, <1>2, LogSteps

LEMMA NextReplay ==
    ASSUME Types, Placed, Bounded, LogType, RingInv, Carried, RingTail, ReplayInv, [Next]_vars
    PROVE  ReplayInv'
<1> USE ThreadsAssumption DEF ReplayInv, ReplayIsSnapshot
<1>1. CASE ringMutex = NoThread /\ UNCHANGED <<ringMutex, replayed>>
  BY <1>1
<1>2. CASE UNCHANGED <<ring, log>> /\ UNCHANGED <<ringMutex, replayed>>
  BY <1>2
<1>3. CASE ReplayLock
  BY <1>3 DEF ReplayLock
<1>4. CASE ReplayEnd
  BY <1>4 DEF ReplayEnd
<1>5. CASE ReplayShow
  <2> DEFINE n == Len(replayed) + 1
  <2>1. replayed \in Seq(Msgs) /\ n \in 1 .. ring.size
    BY <1>5 DEF ReplayShow, Carried, RingInv, Rings
  <2>2. replayed' = Append(replayed, RingContents(ring)[n]) /\ UNCHANGED <<ringMutex, ring, log>>
    BY <1>5 DEF ReplayShow, locks, messageVars
  <2>3. ringMutex = Main
    BY <1>5 DEF ReplayShow, Placed, PlaceOf
  <2>4. RingContents(ring)[n] = Len(log) - ring.size + n
    BY <2>1 DEF RingTail
  <2> HIDE DEF n
  <2>5. ASSUME NEW i \in DOMAIN replayed' PROVE replayed'[i] = Len(log') - ring'.size + i
    <3>1. DOMAIN replayed' = 1 .. n /\ DOMAIN replayed = 1 .. n - 1 /\ n \in Nat
      BY <2>1, <2>2 DEF n
    <3>2. CASE i = n
      BY <2>1, <2>2, <2>4, <3>2 DEF n
    <3>3. CASE i /= n
      <4>1. i \in DOMAIN replayed /\ replayed'[i] = replayed[i]
        BY <2>1, <2>2, <3>1, <3>3
      <4> QED
        BY <2>2, <2>3, <4>1
    <3> QED
      BY <3>2, <3>3
  <2> QED
    BY <2>2, <2>3, <2>5
<1>6. ~ (ReplayLock \/ ReplayShow \/ ReplayEnd) => UNCHANGED <<ringMutex, replayed>>
  <2>1. \A t \in Threads : PrintStep(t) => UNCHANGED <<ringMutex, replayed>>
    BY DEF PrintStep, PrintLock, PrintNow, PrintQueued, Deliver, ShowDone, PrintEnd, locks
  <2>2. MainStep => ReplayLock \/ ReplayShow \/ ReplayEnd \/ UNCHANGED <<ringMutex, replayed>>
    BY DEF MainStep, FlushLock, AssertReport, Drain, DrainNext, DrainEnd, UpdateReset,
           UpdateScan, UpdateEnd, locks
  <2>3. Call => UNCHANGED <<ringMutex, replayed>>
    BY DEF Call, PrintCall, FlushCall, ReplayCall, AddReceiver, RemoveReceiver,
           StartThreads, JoinThreads, locks
  <2> QED
    BY <2>1, <2>2, <2>3 DEF Next, vars, locks
<1> QED
  BY <1>1, <1>2, <1>3, <1>4, <1>5, <1>6, LogSteps

\* A replay shows one moment of the history, consecutive messages up to the latest one, for
\* any ring size and whatever the other threads print meanwhile: they wait for the ring.
THEOREM ReplaysAreSnapshots == Spec => []ReplayIsSnapshot
<1> DEFINE Inv == Types /\ Placed /\ Bounded /\ LogType /\ RingInv /\ Carried /\ RingTail /\ ReplayInv
<1>1. Init => Inv
  <2>1. Init => RingTail /\ ReplayInv
    BY ThreadsAssumption DEF Init, RingTail, ReplayInv, ReplayIsSnapshot, EmptyRing
  <2> QED
    BY <2>1, InitPlaced, InitBounded, InitRing, InitCarried
<1>2. Inv /\ [Next]_vars => Inv'
  BY NextPlaced, NextBounded, NextRing, NextCarried, NextRingTail, NextReplay
<1>3. Inv => ReplayIsSnapshot
  BY DEF ReplayInv
<1> QED
  BY <1>1, <1>2, <1>3, PTL DEF Spec
-----------------------------------------------------------------------------
\* Messages on their way: of the thread that owns the mutex, to the receivers its loop has
\* not reached, and of the queue, whose front the drain in progress has given to some.

Delivering(t) == job[t] \in {"print", "flush"} /\ pc[t] \in {"deliver", "show"}
DeliversNow(t) == job[t] = "print" /\ Delivering(t)
Draining == job[Main] = "flush" /\ Delivering(Main)
FrontGiven(r) == Draining /\ at[Main] >= r

\* The queue holds queued messages in the order of the log; a thread that delivers directly
\* delivers the last message of the log, and a drain the front of the queue.
WayInv ==
    /\ \A k \in DOMAIN threadedMsgQueue :
         threadedMsgQueue[k] \in DOMAIN log /\ log[threadedMsgQueue[k]].queued
    /\ \A k, l \in DOMAIN threadedMsgQueue :
         k < l => threadedMsgQueue[k] < threadedMsgQueue[l]
    /\ \A t \in Threads : ~Delivering(t) => msg[t] = 0
    /\ \A t \in Threads :
         DeliversNow(t) => msg[t] = Len(log) /\ msg[t] \in DOMAIN log /\ ~log[msg[t]].queued
    /\ Draining => msg[Main] = threadedMsgQueue[1]

\* What a receiver was given is behind everything of the same path it still awaits.
GivenInv ==
    \A r \in Receivers : \A i \in DOMAIN shown[r] :
        /\ shown[r][i] \in DOMAIN log
        /\ log[shown[r][i]].queued =>
             \A k \in DOMAIN threadedMsgQueue :
                 shown[r][i] < threadedMsgQueue[k] \/ (k = 1 /\ FrontGiven(r))
        /\ ~log[shown[r][i]].queued =>
             \A t \in Threads : DeliversNow(t) => shown[r][i] < msg[t] \/ at[t] >= r

\* A step that gives, takes and moves no message.
KeepsMessages ==
    /\ UNCHANGED <<log, threadedMsgQueue, shown, owed, recvList, msg>>
    /\ \A t \in Threads :
         /\ Delivering(t)' <=> Delivering(t)
         /\ Delivering(t) => job'[t] = job[t] /\ at'[t] = at[t]

MovesMessages ==
    \/ \E t \in Threads : PrintNow(t) \/ PrintQueued(t) \/ Deliver(t) \/ PrintEnd(t)
    \/ Drain \/ DrainNext \/ AddReceiver \/ RemoveReceiver

LEMMA InitWay == Init => WayInv /\ GivenInv /\ ShownInOrder
BY ThreadsAssumption DEF Init, WayInv, GivenInv, ShownInOrder, Delivering, DeliversNow, Draining

LEMMA OwnerDelivers ==
    ASSUME Placed, NEW t \in Threads, Delivering(t)
    PROVE  outputMutex = t
BY DEF Placed, PlaceOf, Delivering

LEMMA MessageSteps ==
    ASSUME Types, Placed, Carried, WayInv, [Next]_vars
    PROVE  MovesMessages \/ KeepsMessages
<1> USE ThreadsAssumption
    DEF Types, Goto, Begin, Finish, Labels, Jobs, Delivering, KeepsMessages,
        locks, receiverVars, messageVars, threadVars, history
<1>1. ASSUME NEW t \in Threads, PrintStep(t) PROVE MovesMessages \/ KeepsMessages
  <2>1. CASE PrintLock(t)
    BY <2>1 DEF PrintLock
  <2>2. CASE ShowDone(t)
    BY <2>2 DEF ShowDone
  <2> QED
    BY <1>1, <2>1, <2>2 DEF PrintStep, MovesMessages
<1>2. ASSUME MainStep PROVE MovesMessages \/ KeepsMessages
  <2>1. CASE FlushLock
    BY <2>1 DEF FlushLock
  <2>2. CASE AssertReport
    BY <2>2 DEF AssertReport, Placed, PlaceOf
  <2>3. CASE DrainEnd
    <3>1. msg[Main] = 0
      BY <2>3 DEF DrainEnd, WayInv
    <3>2. msg' = msg
      BY <2>3, <3>1 DEF DrainEnd, Carried
    <3> QED
      BY <2>3, <3>2 DEF DrainEnd
  <2>4. CASE ReplayLock
    BY <2>4 DEF ReplayLock, Placed, PlaceOf
  <2>5. CASE ReplayShow
    BY <2>5 DEF ReplayShow
  <2>6. CASE ReplayEnd
    <3>1. msg[Main] = 0
      BY <2>6 DEF ReplayEnd, WayInv
    <3>2. msg' = msg
      BY <2>6, <3>1 DEF ReplayEnd, Carried
    <3> QED
      BY <2>6, <3>2 DEF ReplayEnd
  <2>7. CASE UpdateReset
    BY <2>7 DEF UpdateReset
  <2>8. CASE UpdateScan
    BY <2>8 DEF UpdateScan
  <2>9. CASE UpdateEnd
    <3>1. msg[Main] = 0
      BY <2>9 DEF UpdateEnd, WayInv
    <3>2. msg' = msg
      BY <2>9, <3>1 DEF UpdateEnd, Carried
    <3> QED
      BY <2>9, <3>2 DEF UpdateEnd
  <2> QED
    BY <1>2, <2>1, <2>2, <2>3, <2>4, <2>5, <2>6, <2>7, <2>8, <2>9 DEF MainStep, MovesMessages
<1>3. ASSUME Call PROVE MovesMessages \/ KeepsMessages
  <2>1. ASSUME NEW t \in Threads, PrintCall(t) PROVE KeepsMessages
    BY <2>1 DEF PrintCall
  <2>2. CASE FlushCall
    BY <2>2 DEF FlushCall
  <2>3. CASE ReplayCall
    BY <2>3 DEF ReplayCall
  <2>4. CASE StartThreads
    BY <2>4 DEF StartThreads
  <2>5. CASE JoinThreads
    BY <2>5 DEF JoinThreads
  <2> QED
    BY <1>3, <2>1, <2>2, <2>3, <2>4, <2>5 DEF Call, MovesMessages
<1>4. CASE UNCHANGED vars
  BY <1>4 DEF vars
<1> QED
  BY <1>1, <1>2, <1>3, <1>4 DEF Next

\* What a print() that reaches its push knows.
LEMMA PushFacts ==
    ASSUME Types, Placed, Bounded, LogType, Carried, WayInv,
           NEW t \in Threads, PrintNow(t) \/ PrintQueued(t)
    PROVE  /\ Len(log) \in Nat /\ Len(log) + 1 \in Msgs
           /\ DOMAIN log = 1 .. Len(log)
           /\ log' = Append(log, [by |-> t, queued |-> ~PrintsDirectly(t)])
           /\ DOMAIN log' = 1 .. Len(log) + 1 /\ Len(log') = Len(log) + 1
           /\ \A m \in DOMAIN log : log'[m] = log[m]
           /\ log'[Len(log) + 1].queued = ~PrintsDirectly(t)
           /\ job[t] = "print"
           /\ \A u \in Threads : ~Delivering(u) /\ msg[u] = 0
           /\ \A u \in Threads \ {t} : pc'[u] = pc[u] /\ job'[u] = job[u] /\ at'[u] = at[u] /\ msg'[u] = msg[u]
           /\ UNCHANGED <<shown, recvList>>
<1>1. PushMsg(t) /\ pc[t] = "push"
  BY DEF PrintNow, PrintQueued, PushMsg
<1>2. Len(log) + 1 \in Msgs
  BY <1>1, PushLeaves DEF PrintNow, PrintQueued, Types, Goto, Finish
<1>3. log \in Seq([by : Threads, queued : BOOLEAN]) /\ Len(log) \in Nat /\ DOMAIN log = 1 .. Len(log)
  BY DEF LogType
<1>4. log' = Append(log, [by |-> t, queued |-> ~PrintsDirectly(t)])
  BY <1>1 DEF PushMsg
<1>5. DOMAIN log' = 1 .. Len(log) + 1 /\ Len(log') = Len(log) + 1 /\ \A m \in DOMAIN log : log'[m] = log[m]
  BY <1>3, <1>4
<1>6. log'[Len(log) + 1].queued = ~PrintsDirectly(t)
  BY <1>3, <1>4
<1>7. job[t] = "print" /\ outputMutex = t
  BY <1>1 DEF Types, Placed, PlaceOf, Jobs
<1>8. \A u \in Threads : ~Delivering(u) /\ msg[u] = 0
  <2>1. ASSUME NEW u \in Threads, Delivering(u) PROVE FALSE
    <3>1. u = t
      BY <1>7, <2>1, OwnerDelivers
    <3> QED
      BY <1>1, <2>1, <3>1 DEF Delivering
  <2> QED
    BY <2>1 DEF WayInv
<1>9. UNCHANGED <<shown, recvList>>
  BY DEF PrintNow, PrintQueued, receiverVars
<1>10. \A u \in Threads \ {t} : pc'[u] = pc[u] /\ job'[u] = job[u] /\ at'[u] = at[u] /\ msg'[u] = msg[u]
  BY DEF PrintNow, PrintQueued, Goto, Finish, Types, Carried
<1> QED
  BY <1>2, <1>3, <1>4, <1>5, <1>6, <1>7, <1>8, <1>9, <1>10

\* What a step of the loop over the receivers knows.
LEMMA DeliverFacts ==
    ASSUME Types, Placed, Carried, NEW t \in Threads, Deliver(t)
    PROVE  /\ Delivering(t) /\ Delivering(t)'
           /\ \A u \in Threads : Delivering(u) \/ Delivering(u)' => u = t
           /\ UNCHANGED <<log, threadedMsgQueue, msg, job, recvList, owed>>
           /\ \A u \in Threads \ {t} : at'[u] = at[u]
           /\ at[t] \in Nat
           /\ \E r \in recvList : /\ r \in Receivers
                                  /\ IsNext(r, at[t]) /\ at[t] < r
                                  /\ at'[t] = r
                                  /\ shown' = [shown EXCEPT ![r] = Append(@, msg[t])]
<1>1. Delivering(t) /\ pc[t] = "deliver"
  BY DEF Deliver, Printing, Delivering, Placed, PlaceOf
<1>2. Delivering(t)'
  BY <1>1 DEF Deliver, Delivering, Goto, Types
<1>3. ASSUME NEW u \in Threads, Delivering(u) \/ Delivering(u)' PROVE u = t
  <2>1. u /= t => Delivering(u)
    BY <1>3 DEF Deliver, Delivering, Goto, Types
  <2> QED
    BY <1>1, <2>1, OwnerDelivers
<1>4. PICK r \in recvList : /\ IsNext(r, at[t])
                            /\ at' = [at EXCEPT ![t] = r]
                            /\ shown' = [shown EXCEPT ![r] = Append(@, msg[t])]
  BY DEF Deliver
<1>5. r \in Receivers /\ at'[t] = r /\ \A u \in Threads \ {t} : at'[u] = at[u]
  BY <1>4 DEF Types
<1>6. at[t] \in Nat /\ at[t] < r
  <2>1. at[t] \in Receivers \cup {0} /\ r > at[t] /\ r \in Receivers
    BY <1>4, <1>5 DEF Types, IsNext, Remaining
  <2>2. \A q \in Receivers : q \in Nat
    BY ReceiversAssumption
  <2>3. at[t] \in Nat
    BY <2>1, <2>2
  <2> QED
    BY <2>1, <2>3
<1>7. UNCHANGED <<log, threadedMsgQueue, msg, job, recvList, owed>>
  BY DEF Deliver, messageVars, receiverVars
<1> QED
  BY <1>1, <1>2, <1>3, <1>4, <1>5, <1>6, <1>7

LEMMA KeptWay == KeepsMessages /\ WayInv => WayInv'
BY ThreadsAssumption DEF KeepsMessages, WayInv, DeliversNow, Draining, Delivering

LEMMA NextWay ==
    ASSUME Types, Placed, Bounded, LogType, Carried, WayInv, [Next]_vars
    PROVE  WayInv'
<1> DEFINE q == threadedMsgQueue
<1>0. q \in Seq(Msgs) /\ DOMAIN q = 1 .. Len(q) /\ Len(q) \in Nat
  BY DEF Carried
<1>1. ASSUME NEW t \in Threads, PrintNow(t) PROVE WayInv'
  <2> DEFINE n == Len(log) + 1
  <2>1. PrintsDirectly(t) /\ q' = q /\ job' = job
    BY <1>1 DEF PrintNow
  <2>2. pc'[t] = "deliver" /\ msg'[t] = n
    BY <1>1 DEF PrintNow, Goto, Types, Carried
  <2>0. /\ Len(log) \in Nat /\ DOMAIN log = 1 .. Len(log)
        /\ DOMAIN log' = 1 .. n /\ Len(log') = n
        /\ log'[n].queued = ~PrintsDirectly(t)
        /\ \A m \in DOMAIN log : log'[m] = log[m]
    BY <1>1, PushFacts
  <2>3. ~log'[n].queued /\ n = Len(log') /\ n \in DOMAIN log'
    <3>1. ~log'[n].queued
      BY <2>0, <2>1, Zenon
    <3> QED
      BY <2>0, <3>1
  <2>4. \A u \in Threads \ {t} : ~Delivering(u)' /\ msg'[u] = 0
    BY <1>1, PushFacts DEF Delivering
  <2>5. DeliversNow(t)' /\ ~(job'[t] = "flush")
    BY <1>1, <2>1, <2>2, PushFacts DEF DeliversNow, Delivering
  <2>6. \A k \in DOMAIN q : q[k] \in DOMAIN log' /\ log'[q[k]].queued
    <3>1. \A k \in DOMAIN q : q[k] \in DOMAIN log /\ log[q[k]].queued
      BY DEF WayInv
    <3>2. \A m \in DOMAIN log : m \in DOMAIN log'
      BY <2>0
    <3> QED
      BY <2>0, <3>1, <3>2, Zenon
  <2>7. \A u \in Threads : ~Delivering(u)' => msg'[u] = 0
    BY <2>4, <2>5 DEF DeliversNow
  <2>8. \A u \in Threads : DeliversNow(u)' => u = t
    BY <2>4 DEF DeliversNow
  <2>9. ~Draining'
    BY <2>4, <2>5, ThreadsAssumption DEF Draining
  <2>10. \A k, l \in DOMAIN q : k < l => q[k] < q[l]
    BY DEF WayInv
  <2>11. q' = threadedMsgQueue'
    OBVIOUS
  <2> HIDE DEF q, n
  <2> QED
    BY <2>1, <2>2, <2>3, <2>6, <2>7, <2>8, <2>9, <2>10, <2>11 DEF WayInv
<1>2. ASSUME NEW t \in Threads, PrintQueued(t) PROVE WayInv'
  <2> DEFINE n == Len(log) + 1
  <2>1. ~PrintsDirectly(t) /\ q' = Append(q, n)
    BY <1>2 DEF PrintQueued, Enqueue
  <2>2. pc'[t] = "idle" /\ msg'[t] = 0
    BY <1>2 DEF PrintQueued, Finish, Goto, Types, Carried
  <2>0. /\ Len(log) \in Nat /\ DOMAIN log = 1 .. Len(log)
        /\ DOMAIN log' = 1 .. n /\ n \in Msgs
        /\ log'[n].queued = ~PrintsDirectly(t)
        /\ \A m \in DOMAIN log : log'[m] = log[m]
    BY <1>2, PushFacts
  <2>3. log'[n].queued /\ n \in DOMAIN log' /\ n \in Nat
    <3>1. log'[n].queued
      BY <2>0, <2>1, Zenon
    <3> QED
      BY <2>0, <3>1
  <2>4. \A u \in Threads : ~Delivering(u)' /\ msg'[u] = 0
    BY <1>2, <2>2, PushFacts DEF Delivering
  <2>5. \A k \in DOMAIN q : q[k] \in DOMAIN log' /\ log'[q[k]].queued /\ q[k] < n
    <3>1. \A k \in DOMAIN q : q[k] \in DOMAIN log /\ log[q[k]].queued
      BY DEF WayInv
    <3>2. \A m \in DOMAIN log : m \in DOMAIN log' /\ m < n
      BY <2>0
    <3> QED
      BY <2>0, <3>1, <3>2, Zenon
  <2>6. DOMAIN q' = 1 .. Len(q) + 1 /\ q'[Len(q) + 1] = n /\ \A k \in DOMAIN q : q'[k] = q[k]
    BY <1>0, <2>0, <2>1
  <2>7. \A k, l \in DOMAIN q : k < l => q[k] < q[l]
    BY DEF WayInv
  <2>8. q' = threadedMsgQueue'
    OBVIOUS
  <2> HIDE DEF q, n
  <2>9. \A k \in DOMAIN q' : q'[k] \in DOMAIN log' /\ log'[q'[k]].queued
    BY <1>0, <2>3, <2>5, <2>6
  <2>10. \A k, l \in DOMAIN q' : k < l => q'[k] < q'[l]
    BY <1>0, <2>5, <2>6, <2>7
  <2> QED
    BY <2>4, <2>8, <2>9, <2>10, ThreadsAssumption DEF WayInv, DeliversNow, Draining
<1>3. ASSUME NEW t \in Threads, Deliver(t) PROVE WayInv'
  <2>1. UNCHANGED <<log, threadedMsgQueue, msg, job>>
    BY <1>3, DeliverFacts
  <2>2. \A u \in Threads : Delivering(u)' <=> Delivering(u)
    BY <1>3, DeliverFacts
  <2> QED
    BY <2>1, <2>2, ThreadsAssumption DEF WayInv, DeliversNow, Draining
<1>4. ASSUME NEW t \in Threads, PrintEnd(t) PROVE WayInv'
  <2>1. UNCHANGED <<log, threadedMsgQueue>> /\ pc'[t] = "idle" /\ msg'[t] = 0
    BY <1>4 DEF PrintEnd, messageVars, Finish, Goto, Types, Carried
  <2>2. \A u \in Threads \ {t} : UNCHANGED <<pc[u], job[u], msg[u]>>
    BY <1>4 DEF PrintEnd, Finish, Goto, Types, Carried
  <2> QED
    BY <2>1, <2>2, ThreadsAssumption DEF WayInv, DeliversNow, Draining, Delivering
<1>5. CASE Drain
  <2>1. UNCHANGED <<log, threadedMsgQueue, job>> /\ pc'[Main] = "deliver" /\ msg'[Main] = Head(q)
    BY <1>5, ThreadsAssumption DEF Drain, messageVars, Goto, Types, Carried
  <2>2. \A u \in Threads \ {Main} : UNCHANGED <<pc[u], msg[u]>>
    BY <1>5 DEF Drain, Goto, Types, Carried
  <2>3. job[Main] = "flush" /\ Head(q) = q[1]
    BY <1>0, <1>5, ThreadsAssumption DEF Drain, MsgToDrain, Placed, PlaceOf, Types, Jobs
  <2> QED
    BY <2>1, <2>2, <2>3, ThreadsAssumption DEF WayInv, DeliversNow, Draining, Delivering
<1>6. CASE DrainNext
  <2>1. /\ UNCHANGED <<log, job>> /\ pc'[Main] = "drain" /\ msg'[Main] = 0
        /\ job[Main] = "flush" /\ q /= <<>> /\ q' = Tail(q)
    BY <1>6, ThreadsAssumption DEF DrainNext, Goto, Types, Carried
  <2>2. \A u \in Threads \ {Main} : UNCHANGED <<pc[u], msg[u]>>
    BY <1>6 DEF DrainNext, Goto, Types, Carried
  <2>3. DOMAIN q' = 1 .. Len(q) - 1 /\ \A k \in DOMAIN q' : q'[k] = q[k + 1] /\ k + 1 \in DOMAIN q
    BY <1>0, <2>1
  <2>4. \A k \in DOMAIN q : q[k] \in DOMAIN log /\ log[q[k]].queued
    BY DEF WayInv
  <2>5. \A k, l \in DOMAIN q : k < l => q[k] < q[l]
    BY DEF WayInv
  <2>6. q' = threadedMsgQueue'
    OBVIOUS
  <2>7. \A u \in Threads : ~Delivering(u) => msg[u] = 0
    BY DEF WayInv
  <2>8. \A u \in Threads : DeliversNow(u) => msg[u] = Len(log) /\ msg[u] \in DOMAIN log /\ ~log[msg[u]].queued
    BY DEF WayInv
  <2> HIDE DEF q
  <2>9. \A k \in DOMAIN q' : q'[k] \in DOMAIN log /\ log[q'[k]].queued
    BY <2>3, <2>4
  <2>10. \A k, l \in DOMAIN q' : k < l => q'[k] < q'[l]
    <3>1. \A k \in DOMAIN q' : k \in Int
      BY <1>0, <2>3
    <3> QED
      BY <2>3, <2>5, <3>1
  <2> QED
    BY <2>1, <2>2, <2>6, <2>7, <2>8, <2>9, <2>10, ThreadsAssumption
       DEF WayInv, DeliversNow, Draining, Delivering
<1>7. CASE AddReceiver \/ RemoveReceiver
  <2>1. UNCHANGED <<log, threadedMsgQueue, msg>> /\ pc[Main] = "idle" /\ pc'[Main] = "reset"
    BY <1>7, ThreadsAssumption DEF AddReceiver, RemoveReceiver, messageVars, Begin, Goto, Types
  <2>2. \A u \in Threads \ {Main} : UNCHANGED <<pc[u], job[u]>>
    BY <1>7 DEF AddReceiver, RemoveReceiver, Begin, Goto, Types
  <2> QED
    BY <2>1, <2>2, ThreadsAssumption DEF WayInv, DeliversNow, Draining, Delivering
<1> QED
  BY <1>1, <1>2, <1>3, <1>4, <1>5, <1>6, <1>7, KeptWay, MessageSteps DEF MovesMessages

\* What a message that was given, queued or direct, has ahead of it.
LEMMA GivenIs ==
    ASSUME GivenInv, NEW r \in Receivers, NEW i \in DOMAIN shown[r]
    PROVE  /\ shown[r][i] \in DOMAIN log
           /\ log[shown[r][i]].queued =>
                \A k \in DOMAIN threadedMsgQueue :
                    shown[r][i] < threadedMsgQueue[k] \/ (k = 1 /\ FrontGiven(r))
           /\ ~log[shown[r][i]].queued =>
                \A t \in Threads : DeliversNow(t) => shown[r][i] < msg[t] \/ at[t] >= r
BY DEF GivenInv

LEMMA KeptGiven ==
    ASSUME KeepsMessages, GivenInv
    PROVE  GivenInv'
<1>1. UNCHANGED <<log, threadedMsgQueue, shown, msg>>
  BY DEF KeepsMessages
<1>2. \A t \in Threads : DeliversNow(t)' => DeliversNow(t) /\ at'[t] = at[t]
  BY DEF KeepsMessages, DeliversNow
<1>3. \A r : FrontGiven(r) => FrontGiven(r)'
  BY ThreadsAssumption DEF KeepsMessages, FrontGiven, Draining
<1> QED
  BY <1>1, <1>2, <1>3 DEF GivenInv

\* The message that a loop gives next is not behind anything the receiver was given.
LEMMA NextIsLater ==
    ASSUME Types, Placed, Carried, WayInv, GivenInv,
           NEW t \in Threads, Delivering(t), NEW r \in Receivers, at[t] \in Nat, at[t] < r,
           NEW i \in DOMAIN shown[r], log[shown[r][i]].queued = log[msg[t]].queued
    PROVE  shown[r][i] < msg[t]
<1>0. r \in Nat
  BY ReceiversAssumption
<1>1. CASE job[t] = "flush"
  <2>1. t = Main /\ Draining /\ msg[t] = threadedMsgQueue[1] /\ 1 \in DOMAIN threadedMsgQueue
    BY <1>1, ThreadsAssumption DEF Placed, PlaceOf, Draining, WayInv, Carried, Delivering
  <2>2. log[msg[t]].queued
    BY <2>1 DEF WayInv
  <2>3. ~FrontGiven(r)
    BY <1>0, <2>1 DEF FrontGiven
  <2> QED
    BY <2>1, <2>2, <2>3, GivenIs
<1>2. CASE job[t] = "print"
  <2>1. DeliversNow(t) /\ ~log[msg[t]].queued
    BY <1>2 DEF DeliversNow, WayInv
  <2> QED
    BY <1>0, <2>1, GivenIs
<1> QED
  BY <1>1, <1>2 DEF Delivering

LEMMA NextGiven ==
    ASSUME Types, Placed, Bounded, LogType, Carried, WayInv, GivenInv, [Next]_vars
    PROVE  GivenInv'
<1> DEFINE q == threadedMsgQueue
<1>0. q \in Seq(Msgs) /\ DOMAIN q = 1 .. Len(q) /\ Len(q) \in Nat
  BY DEF Carried
<1>1. ASSUME NEW t \in Threads, PrintNow(t) PROVE GivenInv'
  <2> DEFINE n == Len(log) + 1
  <2>1. q' = q /\ msg'[t] = n
    BY <1>1 DEF PrintNow, Types, Carried
  <2>2. /\ Len(log) \in Nat /\ DOMAIN log = 1 .. Len(log) /\ DOMAIN log' = 1 .. n
        /\ \A m \in DOMAIN log : log'[m] = log[m]
        /\ shown' = shown
    BY <1>1, PushFacts
  <2>3. \A m \in DOMAIN log : m \in DOMAIN log' /\ m < n
    BY <2>2
  <2>4. \A u \in Threads : DeliversNow(u)' => u = t
    BY <1>1, PushFacts DEF DeliversNow, Delivering
  <2>5. \A r : ~FrontGiven(r)
    BY <1>1, PushFacts, ThreadsAssumption DEF FrontGiven, Draining
  <2>6. q' = threadedMsgQueue'
    OBVIOUS
  <2> HIDE DEF n
  <2> SUFFICES ASSUME NEW r \in Receivers, NEW i \in DOMAIN shown[r]
               PROVE  /\ shown[r][i] \in DOMAIN log'
                      /\ log'[shown[r][i]].queued =>
                           \A k \in DOMAIN q : shown[r][i] < q[k]
                      /\ ~log'[shown[r][i]].queued =>
                           \A u \in Threads : DeliversNow(u)' => shown[r][i] < msg'[u]
    BY <2>1, <2>2, <2>6 DEF GivenInv
  <2>7. shown[r][i] \in DOMAIN log
    BY GivenIs
  <2>8. log[shown[r][i]].queued => \A k \in DOMAIN q : shown[r][i] < q[k]
    BY <2>5, GivenIs
  <2> QED
    BY <2>1, <2>2, <2>3, <2>4, <2>7, <2>8, Zenon
<1>2. ASSUME NEW t \in Threads, PrintQueued(t) PROVE GivenInv'
  <2> DEFINE n == Len(log) + 1
  <2>1. q' = Append(q, n)
    BY <1>2 DEF PrintQueued, Enqueue
  <2>2. /\ Len(log) \in Nat /\ DOMAIN log = 1 .. Len(log) /\ DOMAIN log' = 1 .. n
        /\ \A m \in DOMAIN log : log'[m] = log[m]
        /\ shown' = shown /\ n \in Msgs
    BY <1>2, PushFacts
  <2>3. \A m \in DOMAIN log : m \in DOMAIN log' /\ m < n
    BY <2>2
  <2>4. \A u \in Threads : ~DeliversNow(u)'
    <3>1. pc'[t] = "idle"
      BY <1>2 DEF PrintQueued, Finish, Goto, Types
    <3> QED
      BY <1>2, <3>1, PushFacts DEF DeliversNow, Delivering
  <2>5. \A r : ~FrontGiven(r)
    BY <1>2, PushFacts, ThreadsAssumption DEF FrontGiven, Draining
  <2>6. \A k \in DOMAIN q' : q'[k] = n \/ (k \in DOMAIN q /\ q'[k] = q[k])
    BY <1>0, <2>1, <2>2
  <2>7. q' = threadedMsgQueue'
    OBVIOUS
  <2> HIDE DEF n
  <2> SUFFICES ASSUME NEW r \in Receivers, NEW i \in DOMAIN shown[r]
               PROVE  /\ shown[r][i] \in DOMAIN log'
                      /\ log'[shown[r][i]].queued =>
                           \A k \in DOMAIN q' : shown[r][i] < q'[k]
    BY <2>2, <2>4, <2>7 DEF GivenInv
  <2>8. shown[r][i] \in DOMAIN log
    BY GivenIs
  <2>9. log[shown[r][i]].queued => \A k \in DOMAIN q : shown[r][i] < q[k]
    BY <2>5, GivenIs
  <2> QED
    BY <2>2, <2>3, <2>6, <2>8, <2>9, Zenon
<1>3. ASSUME NEW t \in Threads, Deliver(t) PROVE GivenInv'
  <2>1. /\ UNCHANGED <<log, threadedMsgQueue, msg, job>>
        /\ Delivering(t)
        /\ \A u \in Threads : Delivering(u)' <=> Delivering(u)
        /\ \A u \in Threads : Delivering(u) => u = t
        /\ at[t] \in Nat
    BY <1>3, DeliverFacts
  <2>2. PICK r \in Receivers : /\ at[t] < r /\ at'[t] = r
                               /\ shown' = [shown EXCEPT ![r] = Append(@, msg[t])]
    BY <1>3, DeliverFacts
  <2>3. \A p \in Receivers : p \in Nat
    BY ReceiversAssumption
  <2>4. \A p \in Receivers : FrontGiven(p) => FrontGiven(p)'
    <3>1. Draining => Draining' /\ t = Main
      BY <2>1, ThreadsAssumption DEF Draining
    <3> QED
      BY <2>1, <2>2, <2>3, <3>1 DEF FrontGiven
  <2>5. \A u \in Threads : DeliversNow(u)' => DeliversNow(u) /\ u = t
    BY <2>1 DEF DeliversNow
  <2>6. \A p \in Receivers : at[t] >= p => at'[t] >= p
    BY <2>1, <2>2, <2>3
  <2>7. msg[t] \in Msgs /\ shown \in [Receivers -> Seq(Msgs)]
    BY <2>1 DEF Carried, Delivering
  <2> SUFFICES ASSUME NEW p \in Receivers, NEW i \in DOMAIN shown'[p]
               PROVE  /\ shown'[p][i] \in DOMAIN log
                      /\ log[shown'[p][i]].queued =>
                           \A k \in DOMAIN threadedMsgQueue :
                               shown'[p][i] < threadedMsgQueue[k] \/ (k = 1 /\ FrontGiven(p)')
                      /\ ~log[shown'[p][i]].queued =>
                           \A u \in Threads : DeliversNow(u)' => shown'[p][i] < msg[u] \/ at'[u] >= p
    BY <2>1 DEF GivenInv
  <2>8. CASE i \in DOMAIN shown[p] /\ shown'[p][i] = shown[p][i]
    <3>1. /\ shown[p][i] \in DOMAIN log
          /\ log[shown[p][i]].queued =>
               \A k \in DOMAIN threadedMsgQueue :
                   shown[p][i] < threadedMsgQueue[k] \/ (k = 1 /\ FrontGiven(p))
          /\ ~log[shown[p][i]].queued =>
               \A u \in Threads : DeliversNow(u) => shown[p][i] < msg[u] \/ at[u] >= p
      BY <2>8, GivenIs
    <3> QED
      BY <2>4, <2>5, <2>6, <2>8, <3>1, Zenon
  <2>9. CASE p = r /\ shown'[p][i] = msg[t]
    <3>0. r \in Nat /\ at'[t] >= r
      BY <2>2, <2>3
    <3>1. CASE job[t] = "flush"
      <4>1. t = Main /\ Draining /\ msg[t] = q[1] /\ 1 \in DOMAIN q
        BY <2>1, <3>1, ThreadsAssumption DEF Placed, PlaceOf, Draining, WayInv, Carried, Delivering
      <4>2. FrontGiven(r)'
        BY <2>1, <3>0, <4>1 DEF FrontGiven, Draining
      <4>3. \A k \in DOMAIN q : k = 1 \/ q[1] < q[k]
        <5>1. \A k \in DOMAIN q : k = 1 \/ 1 < k
          BY <1>0
        <5> QED
          BY <4>1, <5>1 DEF WayInv
      <4>4. msg[t] \in DOMAIN log
        BY <4>1 DEF WayInv
      <4>5. ~DeliversNow(t)
        BY <3>1 DEF DeliversNow
      <4> QED
        BY <2>5, <2>9, <4>1, <4>2, <4>3, <4>4, <4>5, Zenon
    <3>2. CASE job[t] = "print"
      <4>1. msg[t] \in DOMAIN log /\ ~log[msg[t]].queued
        BY <2>1, <3>2 DEF WayInv, DeliversNow
      <4> QED
        BY <2>5, <2>9, <3>0, <4>1, Zenon
    <3> QED
      BY <2>1, <3>1, <3>2 DEF Delivering
  <2>10. \/ i \in DOMAIN shown[p] /\ shown'[p][i] = shown[p][i]
         \/ p = r /\ shown'[p][i] = msg[t]
    BY <2>2, <2>7
  <2> QED
    BY <2>8, <2>9, <2>10
<1>4. ASSUME NEW t \in Threads, PrintEnd(t) PROVE GivenInv'
  <2>1. UNCHANGED <<log, threadedMsgQueue, shown>> /\ pc'[t] = "idle" /\ job[t] /= "flush"
    BY <1>4 DEF PrintEnd, messageVars, history, Finish, Goto, Types, Printing
  <2>2. \A u \in Threads \ {t} : UNCHANGED <<pc[u], job[u], msg[u], at[u]>>
    BY <1>4 DEF PrintEnd, Finish, Goto, Types, Carried
  <2>3. \A u \in Threads : DeliversNow(u)' => DeliversNow(u) /\ msg'[u] = msg[u] /\ at'[u] = at[u]
    BY <2>1, <2>2 DEF DeliversNow, Delivering
  <2>4. \A r : FrontGiven(r) => FrontGiven(r)'
    BY <2>1, <2>2, ThreadsAssumption DEF FrontGiven, Draining, Delivering
  <2> QED
    BY <2>1, <2>3, <2>4 DEF GivenInv
<1>5. CASE Drain
  <2>1. UNCHANGED <<log, threadedMsgQueue, shown, job>> /\ pc[Main] = "drain"
    BY <1>5 DEF Drain, messageVars, history
  <2>2. \A u \in Threads \ {Main} : UNCHANGED <<pc[u], msg[u], at[u]>>
    BY <1>5 DEF Drain, Goto, Types, Carried
  <2>3. job[Main] = "flush"
    BY <2>1, ThreadsAssumption DEF Placed, PlaceOf, Types, Jobs
  <2>4. \A u \in Threads : DeliversNow(u)' => DeliversNow(u) /\ msg'[u] = msg[u] /\ at'[u] = at[u]
    BY <2>1, <2>2, <2>3 DEF DeliversNow, Delivering
  <2>5. \A r : ~FrontGiven(r)
    BY <2>1 DEF FrontGiven, Draining, Delivering
  <2> QED
    BY <2>1, <2>4, <2>5 DEF GivenInv
<1>6. CASE DrainNext
  <2>1. /\ UNCHANGED <<log, shown, job>>
        /\ job[Main] = "flush" /\ q /= <<>> /\ q' = Tail(q)
    BY <1>6, ThreadsAssumption DEF DrainNext, Carried, history
  <2>2. \A u \in Threads \ {Main} : UNCHANGED <<pc[u], msg[u], at[u]>>
    BY <1>6 DEF DrainNext, Goto, Types, Carried
  <2>3. \A k \in DOMAIN q' : q'[k] = q[k + 1] /\ k + 1 \in DOMAIN q /\ k + 1 /= 1
    BY <1>0, <2>1
  <2>4. \A u \in Threads : DeliversNow(u)' => DeliversNow(u) /\ msg'[u] = msg[u] /\ at'[u] = at[u]
    BY <2>1, <2>2 DEF DeliversNow, Delivering
  <2>5. q' = threadedMsgQueue'
    OBVIOUS
  <2> SUFFICES ASSUME NEW r \in Receivers, NEW i \in DOMAIN shown[r]
               PROVE  /\ shown[r][i] \in DOMAIN log
                      /\ log[shown[r][i]].queued =>
                           \A k \in DOMAIN q' : shown[r][i] < q'[k]
                      /\ ~log[shown[r][i]].queued =>
                           \A u \in Threads : DeliversNow(u)' => shown[r][i] < msg'[u] \/ at'[u] >= r
    BY <2>1, <2>5 DEF GivenInv
  <2>6. /\ shown[r][i] \in DOMAIN log
        /\ log[shown[r][i]].queued =>
             \A k \in DOMAIN q : shown[r][i] < q[k] \/ (k = 1 /\ FrontGiven(r))
        /\ ~log[shown[r][i]].queued =>
             \A u \in Threads : DeliversNow(u) => shown[r][i] < msg[u] \/ at[u] >= r
    BY GivenIs
  <2> HIDE DEF q
  <2> QED
    BY <2>3, <2>4, <2>6
<1>7. CASE AddReceiver \/ RemoveReceiver
  <2>1. UNCHANGED <<log, threadedMsgQueue, msg, at>> /\ pc[Main] = "idle" /\ pc'[Main] = "reset"
    BY <1>7, ThreadsAssumption DEF AddReceiver, RemoveReceiver, messageVars, Begin, Goto, Types
  <2>2. \A u \in Threads \ {Main} : UNCHANGED <<pc[u], job[u]>>
    BY <1>7 DEF AddReceiver, RemoveReceiver, Begin, Goto, Types
  <2>3. \A u \in Threads : DeliversNow(u)' => DeliversNow(u)
    BY <2>1, <2>2 DEF DeliversNow, Delivering
  <2>4. \A r : ~FrontGiven(r)
    BY <2>1 DEF FrontGiven, Draining, Delivering
  <2>5. \A r \in Receivers : shown'[r] = shown[r] \/ shown'[r] = <<>>
    BY <1>7 DEF AddReceiver, RemoveReceiver, Carried
  <2>6. \A r \in Receivers : \A i \in DOMAIN shown'[r] : i \in DOMAIN shown[r] /\ shown'[r] = shown[r]
    BY <2>5
  <2> QED
    BY <2>1, <2>3, <2>4, <2>6 DEF GivenInv
<1> QED
  BY <1>1, <1>2, <1>3, <1>4, <1>5, <1>6, <1>7, KeptGiven, MessageSteps DEF MovesMessages

\* A step gives at most one message to one receiver; the others keep or forget theirs.
LEMMA NextOrder ==
    ASSUME Types, Placed, Bounded, LogType, Carried, WayInv, GivenInv, ShownInOrder, [Next]_vars
    PROVE  ShownInOrder'
<1>1. ASSUME \A m \in DOMAIN log : log'[m] = log[m],
             \A r \in Receivers : shown'[r] = shown[r] \/ shown'[r] = <<>>
      PROVE  ShownInOrder'
  <2> SUFFICES ASSUME NEW r \in Receivers, NEW i \in DOMAIN shown'[r], NEW j \in DOMAIN shown'[r],
                      i < j, log'[shown'[r][i]].queued = log'[shown'[r][j]].queued
               PROVE  shown'[r][i] < shown'[r][j]
    BY DEF ShownInOrder
  <2>1. shown'[r] = shown[r] /\ i \in DOMAIN shown[r] /\ j \in DOMAIN shown[r]
    BY <1>1
  <2>2. shown[r][i] \in DOMAIN log /\ shown[r][j] \in DOMAIN log
    BY <2>1, GivenIs
  <2>3. log[shown[r][i]].queued = log[shown[r][j]].queued
    BY <1>1, <2>1, <2>2, Zenon
  <2> QED
    BY <2>1, <2>3 DEF ShownInOrder
<1>2. ASSUME NEW t \in Threads, Deliver(t) PROVE ShownInOrder'
  <2>1. Delivering(t) /\ at[t] \in Nat /\ log' = log
    BY <1>2, DeliverFacts
  <2>2. PICK r \in Receivers : at[t] < r /\ shown' = [shown EXCEPT ![r] = Append(@, msg[t])]
    BY <1>2, DeliverFacts
  <2>3. msg[t] \in Msgs /\ shown \in [Receivers -> Seq(Msgs)]
    BY <2>1 DEF Carried, Delivering
  <2> SUFFICES ASSUME NEW p \in Receivers, NEW i \in DOMAIN shown'[p], NEW j \in DOMAIN shown'[p],
                      i < j, log[shown'[p][i]].queued = log[shown'[p][j]].queued
               PROVE  shown'[p][i] < shown'[p][j]
    BY <2>1 DEF ShownInOrder
  <2>4. \/ i \in DOMAIN shown[p] /\ j \in DOMAIN shown[p]
           /\ shown'[p][i] = shown[p][i] /\ shown'[p][j] = shown[p][j]
        \/ p = r /\ i \in DOMAIN shown[p] /\ shown'[p][i] = shown[p][i] /\ shown'[p][j] = msg[t]
    BY <2>2, <2>3
  <2> QED
    BY <2>1, <2>2, <2>4, NextIsLater DEF ShownInOrder
<1>3. ASSUME KeepsMessages PROVE ShownInOrder'
  BY <1>1, <1>3 DEF KeepsMessages
<1>4. ASSUME NEW t \in Threads, PrintNow(t) \/ PrintQueued(t) PROVE ShownInOrder'
  BY <1>1, <1>4, PushFacts
<1>5. ASSUME NEW t \in Threads, PrintEnd(t) PROVE ShownInOrder'
  BY <1>1, <1>5 DEF PrintEnd, messageVars, history
<1>6. CASE Drain \/ DrainNext
  BY <1>1, <1>6 DEF Drain, DrainNext, messageVars, history
<1>7. CASE AddReceiver \/ RemoveReceiver
  <2>1. \A r \in Receivers : shown'[r] = shown[r] \/ shown'[r] = <<>>
    BY <1>7 DEF AddReceiver, RemoveReceiver, Carried
  <2> QED
    BY <1>1, <1>7, <2>1 DEF AddReceiver, RemoveReceiver, messageVars
<1> QED
  BY <1>2, <1>3, <1>4, <1>5, <1>6, <1>7, MessageSteps DEF MovesMessages

\* Every receiver is given the messages of one path in the order in which they were
\* printed, whatever threads print, receivers come and go and messages wait in the queue.
THEOREM ReceiversShownInOrder == Spec => []ShownInOrder
<1> DEFINE Inv == /\ Types /\ Placed /\ Bounded /\ LogType /\ RingInv /\ Carried
                  /\ WayInv /\ GivenInv /\ ShownInOrder
<1>1. Init => Inv
  BY InitPlaced, InitBounded, InitRing, InitCarried, InitWay
<1>2. Inv /\ [Next]_vars => Inv'
  BY NextPlaced, NextBounded, NextRing, NextCarried, NextWay, NextGiven, NextOrder
<1> QED
  BY <1>1, <1>2, PTL DEF Spec

-----------------------------------------------------------------------------
\* No message is lost: what a receiver is entitled to is what it was given and what is on
\* its way to it.

Given(r, m) == \E i \in DOMAIN shown[r] : shown[r][i] = m
InQueueFor(r, m) ==
    \E k \in DOMAIN threadedMsgQueue : threadedMsgQueue[k] = m /\ ~(k = 1 /\ FrontGiven(r))
InHandFor(r, m) == \E t \in Threads : DeliversNow(t) /\ at[t] < r /\ msg[t] = m
OnItsWay(r, m) == InQueueFor(r, m) \/ InHandFor(r, m)

OnceInv ==
    /\ \A r \in recvList : \A m \in Msgs : m \in owed[r] <=> Given(r, m) \/ OnItsWay(r, m)
    /\ \A r \in Receivers \ recvList : shown[r] = <<>>

LEMMA KeptOnce ==
    ASSUME KeepsMessages, OnceInv
    PROVE  OnceInv'
<1>1. UNCHANGED <<threadedMsgQueue, shown, owed, recvList, msg>>
  BY DEF KeepsMessages
<1>2. \A t \in Threads : /\ DeliversNow(t)' <=> DeliversNow(t)
                         /\ DeliversNow(t) => at'[t] = at[t]
  BY DEF KeepsMessages, DeliversNow, Delivering
<1>3. \A r : FrontGiven(r)' <=> FrontGiven(r)
  BY ThreadsAssumption DEF KeepsMessages, FrontGiven, Draining, Delivering
<1>4. \A r, m : OnItsWay(r, m)' <=> OnItsWay(r, m)
  BY <1>1, <1>2, <1>3 DEF OnItsWay, InQueueFor, InHandFor
<1>5. \A r, m : Given(r, m)' <=> Given(r, m)
  BY <1>1 DEF Given
<1> QED
  BY <1>1, <1>4, <1>5 DEF OnceInv

\* A message that is printed is on its way to every receiver.
LEMMA PushOnce ==
    ASSUME Types, Placed, Bounded, LogType, Carried, WayInv, OnceInv,
           NEW t \in Threads, PrintNow(t) \/ PrintQueued(t)
    PROVE  OnceInv'
<1> DEFINE n == Len(log) + 1
           q == threadedMsgQueue
<1>1. UNCHANGED <<shown, recvList>> /\ n \in Msgs
  BY PushFacts
<1>2. \A r \in recvList : owed'[r] = owed[r] \cup {n}
  BY DEF PrintNow, PrintQueued, PushMsg, Types
<1>3. \A u \in Threads : ~Delivering(u)
  BY PushFacts
<1>4. \A r : ~FrontGiven(r)
  BY <1>3, ThreadsAssumption DEF FrontGiven, Draining
<1>5. \A u \in Threads \ {t} : ~Delivering(u)'
  BY <1>3, PushFacts DEF Delivering
<1>6. ~Draining'
  <2>1. job'[t] /= "flush"
    <3>1. job[t] = "print"
      BY PushFacts
    <3> QED
      BY <3>1 DEF PrintNow, PrintQueued, Finish, Types
  <2> QED
    BY <1>5, <2>1, ThreadsAssumption DEF Draining
<1>7. \A r : ~FrontGiven(r)'
  BY <1>6 DEF FrontGiven
<1>8. \A r \in recvList : \A m \in Msgs : OnItsWay(r, m)' <=> OnItsWay(r, m) \/ m = n
  <2>1. CASE PrintNow(t)
    <3>1. threadedMsgQueue' = threadedMsgQueue
      BY <2>1 DEF PrintNow
    <3>2. DeliversNow(t)' /\ msg'[t] = n /\ at'[t] = 0
      <4>1. job'[t] = "print" /\ at'[t] = at[t] /\ pc[t] = "push"
        BY <2>1, PushFacts DEF PrintNow, PushMsg
      <4>2. at[t] = 0
        BY <4>1 DEF Placed, PlaceOf
      <4> QED
        BY <2>1, <4>1, <4>2 DEF PrintNow, DeliversNow, Delivering, Goto, Types, Carried
    <3>3. \A r \in recvList : 0 < r
      BY ReceiversAssumption DEF Types
    <3>4. \A r, m : InQueueFor(r, m)' <=> InQueueFor(r, m)
      BY <1>4, <1>7, <3>1 DEF InQueueFor
    <3>5. \A r, m : ~InHandFor(r, m)
      BY <1>3 DEF InHandFor, DeliversNow
    <3>6. \A r \in recvList : \A m : InHandFor(r, m)' <=> m = n
      BY <1>5, <3>2, <3>3 DEF InHandFor, DeliversNow
    <3> HIDE DEF n, q
    <3> QED
      BY <3>4, <3>5, <3>6 DEF OnItsWay
  <2>2. CASE PrintQueued(t)
    <3>1. q' = Append(q, n) /\ q \in Seq(Msgs)
      BY <2>2 DEF PrintQueued, Enqueue, Carried
    <3>2. /\ \A k \in DOMAIN q' : q'[k] = n \/ (k \in DOMAIN q /\ q'[k] = q[k])
          /\ \A k \in DOMAIN q : k \in DOMAIN q' /\ q'[k] = q[k]
          /\ \E k \in DOMAIN q' : q'[k] = n
      <4>1. /\ DOMAIN q = 1 .. Len(q) /\ Len(q) \in Nat
            /\ DOMAIN q' = 1 .. Len(q) + 1 /\ q'[Len(q) + 1] = n
            /\ \A k \in DOMAIN q : q'[k] = q[k]
        BY <1>1, <3>1
      <4> HIDE DEF q, n
      <4>2. Len(q) + 1 \in DOMAIN q'
        BY <4>1
      <4> QED
        BY <4>1, <4>2
    <3>3. ~DeliversNow(t)'
      BY <2>2 DEF PrintQueued, Finish, Goto, Types, DeliversNow, Delivering
    <3>4. \A r, m : ~InHandFor(r, m) /\ ~InHandFor(r, m)'
      BY <1>3, <1>5, <3>3 DEF InHandFor, DeliversNow
    <3>5. q' = threadedMsgQueue'
      OBVIOUS
    <3>6. \A r, m : InQueueFor(r, m) <=> \E k \in DOMAIN q : q[k] = m
      BY <1>4 DEF InQueueFor
    <3>7. \A r, m : InQueueFor(r, m)' <=> \E k \in DOMAIN q' : q'[k] = m
      BY <1>7, <3>5 DEF InQueueFor
    <3> HIDE DEF n, q
    <3>8. \A r, m : InQueueFor(r, m)' <=> InQueueFor(r, m) \/ m = n
      BY <3>2, <3>6, <3>7, Zenon
    <3> QED
      BY <3>4, <3>8 DEF OnItsWay
  <2> QED
    BY <2>1, <2>2
<1>9. \A r, m : Given(r, m)' <=> Given(r, m)
  BY <1>1 DEF Given
<1> HIDE DEF n, q
<1> QED
  BY <1>1, <1>2, <1>8, <1>9 DEF OnceInv

\* A step of the loop gives the message to the next receiver, and no other receiver is passed.
LEMMA DeliverOnce ==
    ASSUME Types, Placed, Carried, WayInv, OnceInv, NEW t \in Threads, Deliver(t)
    PROVE  OnceInv'
<1> DEFINE q == threadedMsgQueue
<1>1. /\ UNCHANGED <<threadedMsgQueue, msg, job, recvList, owed>>
      /\ Delivering(t)
      /\ \A u \in Threads : Delivering(u)' <=> Delivering(u)
      /\ \A u \in Threads : Delivering(u) => u = t
      /\ at[t] \in Nat
  BY DeliverFacts
<1>2. PICK r \in recvList : /\ r \in Receivers /\ IsNext(r, at[t])
                            /\ at[t] < r /\ at'[t] = r
                            /\ shown' = [shown EXCEPT ![r] = Append(@, msg[t])]
  BY DeliverFacts
<1>3. \A p \in recvList : p \in Nat
  BY ReceiversAssumption DEF Types
<1>4. msg[t] \in Msgs /\ shown \in [Receivers -> Seq(Msgs)]
  BY <1>1 DEF Carried, Delivering
<1>5. \A p \in recvList : p /= r => (at[t] >= p <=> at'[t] >= p) /\ (at[t] < p <=> at'[t] < p)
  <2>1. \A p \in recvList : p > at[t] => r <= p
    BY <1>2 DEF IsNext, Remaining
  <2> QED
    BY <1>1, <1>2, <1>3, <2>1
<1>6. \A u \in Threads : DeliversNow(u)' <=> DeliversNow(u)
  BY <1>1 DEF DeliversNow
<1>7. Draining' <=> Draining
  BY <1>1, ThreadsAssumption DEF Draining
<1>8. Draining => t = Main /\ msg[t] = q[1] /\ 1 \in DOMAIN q
  BY <1>1, ThreadsAssumption DEF Draining, WayInv, Carried, Delivering
<1>9. \A p \in recvList : p /= r => \A m : OnItsWay(p, m)' <=> OnItsWay(p, m)
  <2> SUFFICES ASSUME NEW p \in recvList, p /= r, NEW m PROVE OnItsWay(p, m)' <=> OnItsWay(p, m)
    OBVIOUS
  <2>1. FrontGiven(p)' <=> FrontGiven(p)
    BY <1>5, <1>7, <1>8 DEF FrontGiven
  <2>2. \A u \in Threads : DeliversNow(u) => u = t
    BY <1>1 DEF DeliversNow
  <2>3. InHandFor(p, m)' <=> InHandFor(p, m)
    BY <1>1, <1>5, <1>6, <2>2 DEF InHandFor
  <2>4. InQueueFor(p, m)' <=> InQueueFor(p, m)
    BY <1>1, <2>1 DEF InQueueFor
  <2> QED
    BY <2>3, <2>4 DEF OnItsWay
<1>10. \A m : OnItsWay(r, m) <=> OnItsWay(r, m)' \/ m = msg[t]
  <2> SUFFICES ASSUME NEW m PROVE OnItsWay(r, m) <=> OnItsWay(r, m)' \/ m = msg[t]
    OBVIOUS
  <2>0. r \in Nat /\ ~(at[t] >= r) /\ ~(at'[t] < r) /\ at'[t] >= r
    BY <1>1, <1>2, <1>3
  <2>1. \A u \in Threads : DeliversNow(u) => u = t
    BY <1>1 DEF DeliversNow
  <2>2. CASE job[t] = "flush"
    <3>1. Draining /\ t = Main
      BY <1>1, <2>2, ThreadsAssumption DEF Draining, Placed, PlaceOf
    <3>2. ~FrontGiven(r) /\ FrontGiven(r)'
      BY <1>7, <2>0, <3>1 DEF FrontGiven
    <3>3. ~InHandFor(r, m) /\ ~InHandFor(r, m)'
      BY <1>6, <2>1, <2>2 DEF InHandFor, DeliversNow
    <3>4. InQueueFor(r, m) <=> \E k \in DOMAIN q : q[k] = m
      BY <3>2 DEF InQueueFor
    <3>5. InQueueFor(r, m)' <=> \E k \in DOMAIN q : q[k] = m /\ k /= 1
      BY <1>1, <3>2 DEF InQueueFor
    <3> QED
      BY <1>8, <3>1, <3>3, <3>4, <3>5, Zenon DEF OnItsWay
  <2>3. CASE job[t] = "print"
    <3>1. DeliversNow(t) /\ ~Draining
      BY <1>1, <1>8, <2>3 DEF DeliversNow, Draining
    <3>2. ~FrontGiven(r) /\ ~FrontGiven(r)'
      BY <1>7, <3>1 DEF FrontGiven
    <3>3. InHandFor(r, m) <=> m = msg[t]
      BY <1>2, <2>1, <3>1 DEF InHandFor
    <3>4. ~InHandFor(r, m)'
      BY <1>6, <2>0, <2>1 DEF InHandFor
    <3>5. InQueueFor(r, m)' <=> InQueueFor(r, m)
      BY <1>1, <3>2 DEF InQueueFor
    <3> QED
      BY <3>3, <3>4, <3>5 DEF OnItsWay
  <2> QED
    BY <1>1, <2>2, <2>3 DEF Delivering
<1>11. \A p \in Receivers : p /= r => shown'[p] = shown[p]
  BY <1>2, <1>4
<1>12. \A m : Given(r, m)' <=> Given(r, m) \/ m = msg[t]
  <2> DEFINE s == shown[r]
  <2>1. shown'[r] = Append(s, msg[t]) /\ s \in Seq(Msgs)
    BY <1>2, <1>4
  <2> HIDE DEF s
  <2>2. /\ DOMAIN s = 1 .. Len(s) /\ Len(s) \in Nat
        /\ DOMAIN shown'[r] = 1 .. Len(s) + 1 /\ shown'[r][Len(s) + 1] = msg[t]
        /\ \A k \in DOMAIN s : shown'[r][k] = s[k]
    BY <1>4, <2>1
  <2>3. /\ \A k \in DOMAIN shown'[r] : shown'[r][k] = msg[t] \/ (k \in DOMAIN s /\ shown'[r][k] = s[k])
        /\ \A k \in DOMAIN s : k \in DOMAIN shown'[r] /\ shown'[r][k] = s[k]
        /\ Len(s) + 1 \in DOMAIN shown'[r] /\ shown'[r][Len(s) + 1] = msg[t]
    BY <2>2
  <2>4. \A m : Given(r, m) <=> \E k \in DOMAIN s : s[k] = m
    BY DEF Given, s
  <2>5. \A m : Given(r, m)' <=> \E k \in DOMAIN shown'[r] : shown'[r][k] = m
    BY DEF Given
  <2> QED
    BY <2>3, <2>4, <2>5, Zenon
<1>13. ASSUME NEW p \in recvList, NEW m \in Msgs
       PROVE  m \in owed[p] <=> Given(p, m)' \/ OnItsWay(p, m)'
  <2>1. m \in owed[p] <=> Given(p, m) \/ OnItsWay(p, m)
    BY DEF OnceInv
  <2>2. CASE p = r
    BY <1>10, <1>12, <2>1, <2>2, Zenon
  <2>3. CASE p /= r
    <3>1. p \in Receivers
      BY DEF Types
    <3>2. Given(p, m)' <=> Given(p, m)
      BY <1>11, <2>3, <3>1 DEF Given
    <3> QED
      BY <1>9, <2>1, <2>3, <3>2
  <2> QED
    BY <2>2, <2>3
<1>14. \A p \in Receivers \ recvList : shown'[p] = <<>>
  BY <1>2, <1>11 DEF OnceInv
<1> QED
  BY <1>1, <1>13, <1>14 DEF OnceInv

LEMMA PlacesAreNat ==
    ASSUME Types, NEW t \in Threads
    PROVE  at[t] \in Nat
<1>1. at[t] \in Receivers \cup {0}
  BY DEF Types
<1>2. \A p \in Receivers \cup {0} : p \in Nat
  BY ReceiversAssumption
<1> QED
  BY <1>1, <1>2

\* The end of a loop: nothing was left to be given.
LEMMA LoopEnd ==
    ASSUME Types, NEW t \in Threads, Remaining(at[t]) = {}
    PROVE  \A r \in recvList : at[t] >= r /\ ~(at[t] < r)
<1>1. at[t] \in Receivers \cup {0} /\ recvList \subseteq Receivers
  BY DEF Types
<1>2. \A p \in Receivers \cup {0} : p \in Nat
  BY ReceiversAssumption
<1>3. \A r \in recvList : ~(r > at[t])
  BY DEF Remaining
<1> QED
  BY <1>1, <1>2, <1>3

LEMMA EndOnce ==
    ASSUME Types, Placed, Carried, WayInv, OnceInv,
           Drain \/ DrainNext \/ \E t \in Threads : PrintEnd(t)
    PROVE  OnceInv'
<1> DEFINE q == threadedMsgQueue
<1>1. ASSUME UNCHANGED <<recvList, owed, shown>>,
             \A r \in recvList, m \in Msgs : OnItsWay(r, m)' <=> OnItsWay(r, m)
      PROVE  OnceInv'
  <2>1. \A r, m : Given(r, m)' <=> Given(r, m)
    BY <1>1 DEF Given
  <2> QED
    BY <1>1, <2>1 DEF OnceInv
<1>2. ASSUME NEW t \in Threads, PrintEnd(t) PROVE OnceInv'
  <2>1. /\ UNCHANGED <<recvList, owed, shown, threadedMsgQueue>>
        /\ pc[t] = "deliver" /\ pc'[t] = "idle" /\ job[t] = "print"
    BY <1>2 DEF PrintEnd, receiverVars, messageVars, history, Finish, Goto, Types, Printing, Placed, PlaceOf
  <2>2. \A u \in Threads \ {t} : UNCHANGED <<pc[u], job[u], msg[u], at[u]>>
    BY <1>2 DEF PrintEnd, Finish, Goto, Types, Carried
  <2>3. \A r \in recvList : ~(at[t] < r)
    BY <1>2, LoopEnd DEF PrintEnd
  <2>4. ~DeliversNow(t)' /\ \A u \in Threads \ {t} : DeliversNow(u)' <=> DeliversNow(u)
    BY <2>1, <2>2 DEF DeliversNow, Delivering
  <2>5. \A r \in recvList, m \in Msgs : InHandFor(r, m)' <=> InHandFor(r, m)
    BY <2>2, <2>3, <2>4 DEF InHandFor
  <2>6. \A r : FrontGiven(r)' <=> FrontGiven(r)
    BY <2>1, <2>2, ThreadsAssumption DEF FrontGiven, Draining, Delivering
  <2>7. \A r, m : InQueueFor(r, m)' <=> InQueueFor(r, m)
    BY <2>1, <2>6 DEF InQueueFor
  <2> QED
    BY <1>1, <2>1, <2>5, <2>7 DEF OnItsWay
<1>3. CASE Drain
  <2>1. /\ UNCHANGED <<recvList, owed, shown, threadedMsgQueue, job, at>>
        /\ pc[Main] = "drain"
    BY <1>3 DEF Drain, receiverVars, messageVars, history
  <2>2. \A u \in Threads \ {Main} : UNCHANGED <<pc[u], msg[u]>>
    BY <1>3 DEF Drain, Goto, Types, Carried
  <2>3. job[Main] = "flush" /\ at[Main] = 0
    BY <2>1, ThreadsAssumption DEF Placed, PlaceOf, Types, Jobs
  <2>4. \A r \in recvList : ~FrontGiven(r) /\ ~FrontGiven(r)'
    <3>1. \A r \in recvList : ~(0 >= r)
      BY ReceiversAssumption DEF Types
    <3> QED
      BY <2>1, <2>3, <3>1 DEF FrontGiven
  <2>5. ~DeliversNow(Main) /\ ~DeliversNow(Main)'
    BY <2>1, <2>3 DEF DeliversNow
  <2>6. \A u \in Threads : (DeliversNow(u)' <=> DeliversNow(u)) /\ (DeliversNow(u) => msg'[u] = msg[u])
    BY <2>1, <2>2, <2>5 DEF DeliversNow, Delivering
  <2>7. \A r, m : InHandFor(r, m)' <=> InHandFor(r, m)
    BY <2>1, <2>6 DEF InHandFor
  <2>8. \A r \in recvList, m \in Msgs : InQueueFor(r, m)' <=> InQueueFor(r, m)
    BY <2>1, <2>4 DEF InQueueFor
  <2> QED
    BY <1>1, <2>1, <2>7, <2>8 DEF OnItsWay
<1>4. CASE DrainNext
  <2>1. /\ UNCHANGED <<recvList, owed, shown, job>>
        /\ pc[Main] = "deliver" /\ pc'[Main] = "drain" /\ job[Main] = "flush"
        /\ q /= <<>> /\ q' = Tail(q) /\ q \in Seq(Msgs)
    BY <1>4, ThreadsAssumption DEF DrainNext, receiverVars, history, Goto, Types, Carried
  <2>2. \A u \in Threads \ {Main} : UNCHANGED <<pc[u], msg[u], at[u]>>
    BY <1>4 DEF DrainNext, Goto, Types, Carried
  <2>3. \A r \in recvList : FrontGiven(r) /\ ~FrontGiven(r)'
    <3>1. Draining /\ ~Draining'
      BY <2>1 DEF Draining, Delivering
    <3>2. \A r \in recvList : at[Main] >= r
      BY <1>4, LoopEnd, ThreadsAssumption DEF DrainNext
    <3> QED
      BY <3>1, <3>2 DEF FrontGiven
  <2>4. ~DeliversNow(Main) /\ ~DeliversNow(Main)'
    BY <2>1 DEF DeliversNow
  <2>5. \A r, m : InHandFor(r, m)' <=> InHandFor(r, m)
    <3>1. \A u \in Threads : DeliversNow(u)' <=> DeliversNow(u)
      BY <2>1, <2>2, <2>4 DEF DeliversNow, Delivering
    <3> QED
      BY <2>2, <2>4, <3>1 DEF InHandFor
  <2>6. /\ \A k \in DOMAIN q' : q'[k] = q[k + 1] /\ k + 1 \in DOMAIN q /\ k + 1 /= 1
        /\ \A k \in DOMAIN q : k /= 1 => k - 1 \in DOMAIN q' /\ q'[k - 1] = q[k]
    <3>1. /\ DOMAIN q = 1 .. Len(q) /\ Len(q) \in Nat /\ DOMAIN q' = 1 .. Len(q) - 1
          /\ \A k \in DOMAIN q' : q'[k] = q[k + 1]
      BY <2>1
    <3> HIDE DEF q
    <3>2. \A k \in DOMAIN q' : k + 1 \in DOMAIN q /\ k + 1 /= 1
      BY <3>1
    <3>3. ASSUME NEW k \in DOMAIN q, k /= 1 PROVE k - 1 \in DOMAIN q' /\ q'[k - 1] = q[k]
      <4>1. k - 1 \in DOMAIN q' /\ (k - 1) + 1 = k
        BY <3>1, <3>3
      <4> QED
        BY <3>1, <4>1
    <3> QED
      BY <3>1, <3>2, <3>3
  <2>7. q' = threadedMsgQueue'
    OBVIOUS
  <2>8. \A r \in recvList : \A m : InQueueFor(r, m) <=> \E k \in DOMAIN q : q[k] = m /\ k /= 1
    BY <2>3 DEF InQueueFor
  <2>9. \A r \in recvList : \A m : InQueueFor(r, m)' <=> \E k \in DOMAIN q' : q'[k] = m
    BY <2>3, <2>7 DEF InQueueFor
  <2> HIDE DEF q
  <2>10. \A r \in recvList, m \in Msgs : InQueueFor(r, m)' <=> InQueueFor(r, m)
    <3> SUFFICES ASSUME NEW r \in recvList, NEW m \in Msgs
                 PROVE  InQueueFor(r, m)' <=> InQueueFor(r, m)
      OBVIOUS
    <3>1. ASSUME NEW k \in DOMAIN q', q'[k] = m PROVE InQueueFor(r, m)
      <4>1. k + 1 \in DOMAIN q /\ k + 1 /= 1 /\ q[k + 1] = m
        BY <2>6, <3>1
      <4> QED
        BY <2>8, <4>1, Zenon
    <3>2. ASSUME NEW k \in DOMAIN q, q[k] = m, k /= 1 PROVE InQueueFor(r, m)'
      <4>1. k - 1 \in DOMAIN q' /\ q'[k - 1] = m
        BY <2>6, <3>2
      <4> QED
        BY <2>9, <4>1, Zenon
    <3> QED
      BY <2>8, <2>9, <3>1, <3>2, Zenon
  <2> QED
    BY <1>1, <2>1, <2>5, <2>10 DEF OnItsWay
<1> QED
  BY <1>2, <1>3, <1>4

\* Receivers come and go while no message is in hand.
LEMMA RegisterOnce ==
    ASSUME LateRegistration = FALSE, Types, FlagInv, Carried, OnceInv,
           AddReceiver \/ RemoveReceiver
    PROVE  OnceInv'
<1>1. /\ UNCHANGED <<threadedMsgQueue, msg, at>> /\ ~running
      /\ pc[Main] = "idle" /\ pc'[Main] = "reset"
      /\ \A u \in Threads \ {Main} : UNCHANGED <<pc[u], job[u]>>
  BY ThreadsAssumption DEF AddReceiver, RemoveReceiver, MayRegister, messageVars, Begin, Goto, Types
<1>2. \A u \in Threads : ~Delivering(u) /\ ~Delivering(u)'
  BY <1>1 DEF FlagInv, Delivering
<1>3. \A r : ~FrontGiven(r) /\ ~FrontGiven(r)'
  BY <1>2, ThreadsAssumption DEF FrontGiven, Draining
<1>4. \A r, m : ~InHandFor(r, m) /\ ~InHandFor(r, m)'
  BY <1>2 DEF InHandFor, DeliversNow
<1>5. \A r, m : InQueueFor(r, m)' <=> InQueueFor(r, m)
  BY <1>1, <1>3 DEF InQueueFor
<1>6. \A r, m : OnItsWay(r, m)' <=> OnItsWay(r, m)
  BY <1>4, <1>5 DEF OnItsWay
<1>7. CASE AddReceiver
  <2>1. PICK r \in Receivers \ recvList :
            /\ recvList' = recvList \cup {r}
            /\ owed' = [owed EXCEPT ![r] = {threadedMsgQueue[i] : i \in DOMAIN threadedMsgQueue}]
    BY <1>7 DEF AddReceiver
  <2>2. shown' = shown
    BY <1>7 DEF AddReceiver
  <2>3. \A p, m : Given(p, m)' <=> Given(p, m)
    BY <2>2 DEF Given
  <2>4. \A m : ~Given(r, m) /\ (OnItsWay(r, m) <=> m \in owed'[r])
    <3>1. shown[r] = <<>>
      BY <2>1 DEF OnceInv
    <3>2. \A m : ~Given(r, m)
      BY <3>1 DEF Given
    <3>3. owed'[r] = {threadedMsgQueue[i] : i \in DOMAIN threadedMsgQueue}
      BY <2>1 DEF Carried
    <3>4. \A m : OnItsWay(r, m) <=> m \in owed'[r]
      BY <1>3, <1>4, <3>3 DEF OnItsWay, InQueueFor
    <3> QED
      BY <3>2, <3>4
  <2>5. \A p \in recvList : owed'[p] = owed[p]
    BY <2>1 DEF Carried, Types
  <2>6. ASSUME NEW p \in recvList', NEW m \in Msgs
        PROVE  m \in owed'[p] <=> Given(p, m)' \/ OnItsWay(p, m)'
    <3>1. CASE p = r
      BY <1>6, <2>3, <2>4, <3>1
    <3>2. CASE p \in recvList
      BY <1>6, <2>3, <2>5, <3>2 DEF OnceInv
    <3> QED
      BY <2>1, <3>1, <3>2
  <2>7. \A p \in Receivers \ recvList' : shown'[p] = <<>>
    BY <2>1, <2>2 DEF OnceInv
  <2> QED
    BY <2>6, <2>7 DEF OnceInv
<1>8. CASE RemoveReceiver
  <2>1. PICK r \in recvList :
            /\ recvList' = recvList \ {r}
            /\ owed' = [owed EXCEPT ![r] = {}]
            /\ shown' = [shown EXCEPT ![r] = <<>>]
    BY <1>8 DEF RemoveReceiver
  <2>2. r \in Receivers /\ recvList \subseteq Receivers
    BY <2>1 DEF Types
  <2>3. \A p \in Receivers \ {r} : owed'[p] = owed[p] /\ shown'[p] = shown[p]
    BY <2>1 DEF Carried
  <2>4. shown'[r] = <<>>
    BY <2>1, <2>2 DEF Carried
  <2>5. ASSUME NEW p \in recvList', NEW m \in Msgs
        PROVE  m \in owed'[p] <=> Given(p, m)' \/ OnItsWay(p, m)'
    <3>1. p \in recvList /\ owed'[p] = owed[p] /\ shown'[p] = shown[p]
      BY <2>1, <2>2, <2>3
    <3>2. Given(p, m)' <=> Given(p, m)
      BY <3>1 DEF Given
    <3> QED
      BY <1>6, <3>1, <3>2 DEF OnceInv
  <2>6. \A p \in Receivers \ recvList' : shown'[p] = <<>>
    BY <2>1, <2>3, <2>4 DEF OnceInv
  <2> QED
    BY <2>5, <2>6 DEF OnceInv
<1> QED
  BY <1>7, <1>8

LEMMA NextOnce ==
    ASSUME LateRegistration = FALSE, Types, Placed, FlagInv, Bounded, LogType, Carried,
           WayInv, OnceInv, [Next]_vars
    PROVE  OnceInv'
BY KeptOnce, PushOnce, DeliverOnce, EndOnce, RegisterOnce, MessageSteps DEF MovesMessages

\* In a state of the invariant, a message that was given was given once, and is not awaited.
LEMMA AwaitedIs ==
    ASSUME Types, Placed, Carried, WayInv, NEW r \in Receivers, NEW m \in Msgs
    PROVE  m \in AwaitedBy(r) <=> OnItsWay(r, m)
<1> DEFINE passed(t) == pc[t] \in {"deliver", "show"} /\ at[t] >= r
           front == IF job[Main] = "flush" /\ passed(Main) THEN 2 ELSE 1
           Q == {threadedMsgQueue[i] : i \in front .. Len(threadedMsgQueue)}
           H == {msg[t] : t \in {u \in Threads : /\ job[u] \in Printing /\ msg[u] /= 0
                                                 /\ ~passed(u)}}
<1>1. AwaitedBy(r) = Q \cup H
  BY DEF AwaitedBy
<1>2. m /= 0 /\ r \in Nat
  BY ReceiversAssumption DEF Msgs
<1>3. m \in Q <=> InQueueFor(r, m)
  <2> DEFINE q == threadedMsgQueue
  <2>1. FrontGiven(r) <=> job[Main] = "flush" /\ passed(Main)
    BY DEF FrontGiven, Draining, Delivering
  <2>2. DOMAIN q = 1 .. Len(q) /\ Len(q) \in Nat
    BY DEF Carried
  <2>3. m \in Q <=> \E i \in front .. Len(q) : q[i] = m
    BY DEF Q
  <2>4. InQueueFor(r, m) <=> \E i \in DOMAIN q : q[i] = m /\ ~(i = 1 /\ FrontGiven(r))
    BY DEF InQueueFor
  <2>5. \A i : i \in front .. Len(q) <=> i \in DOMAIN q /\ ~(i = 1 /\ FrontGiven(r))
    <3>1. FrontGiven(r) => front = 2
      BY <2>1
    <3>2. ~FrontGiven(r) => front = 1
      BY <2>1
    <3> HIDE DEF q, front
    <3> QED
      BY <2>2, <3>1, <3>2
  <2> HIDE DEF q, front, Q
  <2> QED
    BY <2>3, <2>4, <2>5
<1>4. m \in H <=> InHandFor(r, m)
  <2>1. \A t \in Threads : at[t] \in Nat
    BY PlacesAreNat
  <2>2. ASSUME NEW t \in Threads, msg[t] = m
        PROVE  (job[t] \in Printing /\ msg[t] /= 0 /\ ~passed(t)) <=> (DeliversNow(t) /\ at[t] < r)
    <3>1. Delivering(t)
      BY <1>2, <2>2 DEF WayInv
    <3>2. job[t] \in Printing <=> DeliversNow(t)
      BY <3>1 DEF Printing, DeliversNow, Delivering
    <3>3. passed(t) <=> at[t] >= r
      BY <3>1 DEF Delivering
    <3>4. at[t] >= r <=> ~(at[t] < r)
      BY <1>2, <2>1
    <3> HIDE DEF passed
    <3> QED
      BY <1>2, <2>2, <3>2, <3>3, <3>4
  <2>3. m \in H <=> \E t \in Threads : /\ job[t] \in Printing /\ msg[t] /= 0 /\ ~passed(t)
                                       /\ msg[t] = m
    OBVIOUS
  <2> HIDE DEF passed, H
  <2> QED
    BY <2>2, <2>3 DEF InHandFor
<1> HIDE DEF Q, H
<1> QED
  BY <1>1, <1>3, <1>4 DEF OnItsWay

LEMMA GivenIsNotAwaited ==
    ASSUME Types, Placed, Carried, LogType, WayInv, GivenInv,
           NEW r \in Receivers, NEW m, Given(r, m)
    PROVE  ~OnItsWay(r, m)
<1>1. PICK i \in DOMAIN shown[r] : shown[r][i] = m
  BY DEF Given
<1>2. m \in DOMAIN log /\ m \in Int
  BY <1>1, GivenIs DEF LogType
<1>3. ~InQueueFor(r, m)
  <2> SUFFICES ASSUME NEW k \in DOMAIN threadedMsgQueue, threadedMsgQueue[k] = m, ~(k = 1 /\ FrontGiven(r))
               PROVE  FALSE
    BY DEF InQueueFor
  <2>1. log[m].queued
    BY DEF WayInv
  <2>2. m < threadedMsgQueue[k]
    BY <1>1, <2>1, GivenIs
  <2> QED
    BY <1>2, <2>2
<1>4. ~InHandFor(r, m)
  <2> SUFFICES ASSUME NEW t \in Threads, DeliversNow(t), at[t] < r, msg[t] = m
               PROVE  FALSE
    BY DEF InHandFor
  <2>1. ~log[m].queued
    BY DEF WayInv
  <2>2. m < msg[t] \/ at[t] >= r
    BY <1>1, <2>1, GivenIs
  <2>3. at[t] \in Nat /\ r \in Nat
    BY PlacesAreNat, ReceiversAssumption
  <2> QED
    BY <1>2, <2>2, <2>3
<1> QED
  BY <1>3, <1>4 DEF OnItsWay

LEMMA GivenAtMostOnce ==
    ASSUME Carried, LogType, GivenInv, ShownInOrder, NEW r \in Receivers, NEW m
    PROVE  TimesShown(r, m) = IF Given(r, m) THEN 1 ELSE 0
<1> DEFINE S == {i \in DOMAIN shown[r] : shown[r][i] = m}
<1>1. CASE ~Given(r, m)
  <2>1. S = {}
    BY <1>1 DEF Given
  <2> QED
    BY <1>1, <2>1, FS_EmptySet DEF TimesShown
<1>2. CASE Given(r, m)
  <2>1. PICK i \in S : TRUE
    BY <1>2 DEF Given
  <2>2. m \in Int
    BY <2>1, GivenIs DEF LogType
  <2>3. shown[r] \in Seq(Msgs) /\ \A j \in DOMAIN shown[r] : j \in Int
    BY DEF Carried
  <2>4. \A j \in S : j = i
    <3> SUFFICES ASSUME NEW j \in S, j /= i PROVE FALSE
      OBVIOUS
    <3>1. i < j \/ j < i
      BY <2>3
    <3>2. m < m
      BY <3>1 DEF ShownInOrder
    <3> QED
      BY <2>2, <3>2
  <2>5. S = {i}
    BY <2>1, <2>4
  <2>6. Cardinality(S) = 1
    BY <2>5, FS_Singleton
  <2> QED
    BY <1>2, <2>6 DEF TimesShown
<1> QED
  BY <1>1, <1>2

\* In a program that registers its receivers while no other thread runs, no message is
\* lost and none is given twice: at every moment each registered receiver was given, once,
\* what was printed since it came (or queued then), but for what is still on its way.
THEOREM ReceiversShownOnce ==
    ASSUME LateRegistration = FALSE
    PROVE  Spec => []ShownOnce
<1> DEFINE Inv == /\ Types /\ Placed /\ FlagInv /\ Bounded /\ LogType /\ RingInv /\ Carried
                  /\ WayInv /\ GivenInv /\ ShownInOrder /\ OnceInv
<1>1. Init => Inv
  <2>1. Init => OnceInv
    BY DEF Init, OnceInv
  <2> QED
    BY <2>1, InitPlaced, InitFlag, InitBounded, InitRing, InitCarried, InitWay
<1>2. Inv /\ [Next]_vars => Inv'
  BY NextPlaced, NextFlag, NextBounded, NextRing, NextCarried, NextWay, NextGiven, NextOrder, NextOnce
<1>3. Inv => ShownOnce
  <2> SUFFICES ASSUME Inv, NEW r \in recvList, NEW m \in 1 .. Len(log)
               PROVE  TimesShown(r, m) + (IF m \in AwaitedBy(r) THEN 1 ELSE 0)
                          = (IF m \in owed[r] THEN 1 ELSE 0)
    BY DEF ShownOnce
  <2>1. r \in Receivers
    BY DEF Types
  <2>2. m \in Msgs
    BY PrintsAreFinite, OptionsAssumption DEF Bounded, LogType, Msgs
  <2>3. m \in owed[r] <=> Given(r, m) \/ OnItsWay(r, m)
    BY <2>2 DEF OnceInv
  <2>4. m \in AwaitedBy(r) <=> OnItsWay(r, m)
    BY <2>1, <2>2, AwaitedIs
  <2>5. TimesShown(r, m) = IF Given(r, m) THEN 1 ELSE 0
    BY <2>1, GivenAtMostOnce
  <2>6. ~(Given(r, m) /\ OnItsWay(r, m))
    BY <2>1, GivenIsNotAwaited
  <2> QED
    BY <2>3, <2>4, <2>5, <2>6
<1> QED
  BY <1>1, <1>2, <1>3, PTL DEF Spec
-----------------------------------------------------------------------------
\* The order of one thread's messages, across the two paths, while receivers stay: once one
\* that is not thread-safe is there, every other thread's messages take the queue.

PathInv ==
    /\ \A m \in DOMAIN log : log[m].queued => log[m].by /= Main /\ ~(recvList \subseteq SafeReceivers)
    /\ \A m, n \in DOMAIN log : m < n /\ log[m].queued /\ log[n].by /= Main => log[n].queued

\* A direct message is given as soon as it is printed.
DirectIsLatest ==
    \A r \in Receivers : \A i, j \in DOMAIN shown[r] :
        i < j /\ ~log[shown[r][j]].queued => shown[r][i] < shown[r][j]

LEMMA NextPath ==
    ASSUME LateRegistration = FALSE, RemovableReceivers = {}, Types, Placed, FlagInv, Bounded,
           LogType, Carried, WayInv, PathInv, [Next]_vars
    PROVE  PathInv'
<1>1. ASSUME log' = log, recvList \subseteq recvList' PROVE PathInv'
  BY <1>1 DEF PathInv
<1>2. ASSUME NEW t \in Threads, PrintNow(t) \/ PrintQueued(t) PROVE PathInv'
  <2> DEFINE n == Len(log) + 1
             direct == PrintsDirectly(t)
  <2>1. /\ Len(log) \in Nat /\ DOMAIN log = 1 .. Len(log) /\ DOMAIN log' = 1 .. n
        /\ \A m \in DOMAIN log : log'[m] = log[m]
        /\ recvList' = recvList
    BY <1>2, PushFacts
  <2>2. log'[n].queued = ~direct /\ log'[n].by = t
    <3>1. log' = Append(log, [by |-> t, queued |-> ~direct]) /\ log'[n].queued = ~direct
      BY <1>2, PushFacts
    <3>2. log'[n] = [by |-> t, queued |-> ~direct]
      BY <3>1 DEF LogType
    <3> QED
      BY <3>1, <3>2
  <2>3. (pc[t] = "push" /\ job[Main] \notin {"update"}) \/ t = Main
    BY <1>2 DEF PrintNow, PrintQueued, PushMsg, FlagInv
  <2>4. ~direct => t /= Main /\ ~(recvList \subseteq SafeReceivers)
    BY <2>3 DEF PrintsDirectly, FlagInv
  <2>5. direct /\ t /= Main => recvList \subseteq SafeReceivers
    BY <2>3 DEF PrintsDirectly, FlagInv
  <2>6. direct /\ t /= Main => \A m \in DOMAIN log : ~log[m].queued
    BY <2>5 DEF PathInv
  <2>7. \A m \in DOMAIN log' : m = n \/ m \in DOMAIN log
    BY <2>1
  <2>8. \A m \in DOMAIN log : ~(n < m)
    BY <2>1
  <2>9. n \in Nat
    BY <2>1
  <2> HIDE DEF n, direct
  <2>10. ASSUME NEW m \in DOMAIN log', log'[m].queued
         PROVE  log'[m].by /= Main /\ ~(recvList' \subseteq SafeReceivers)
    BY <2>1, <2>2, <2>4, <2>7, <2>10, Zenon DEF PathInv
  <2>11. ASSUME NEW m \in DOMAIN log', NEW k \in DOMAIN log', m < k, log'[m].queued, log'[k].by /= Main
         PROVE  log'[k].queued
    <3>1. m \in DOMAIN log
      BY <2>7, <2>8, <2>9, <2>11
    <3>2. log[m].queued
      BY <2>1, <2>11, <3>1, Zenon
    <3>3. CASE k \in DOMAIN log
      <4>1. log'[k] = log[k]
        BY <2>1, <3>3
      <4>2. log[k].queued
        BY <2>11, <3>1, <3>2, <3>3, <4>1, Zenon DEF PathInv
      <4> QED
        BY <4>1, <4>2, Zenon
    <3>4. CASE k = n
      BY <2>2, <2>6, <2>11, <3>1, <3>2, <3>4, Zenon
    <3> QED
      BY <2>7, <3>3, <3>4
  <2> QED
    BY <2>10, <2>11, Zenon DEF PathInv
<1>3. CASE KeepsMessages \/ \E t \in Threads : Deliver(t)
  BY <1>1, <1>3, DeliverFacts DEF KeepsMessages
<1>4. CASE Drain \/ DrainNext \/ \E t \in Threads : PrintEnd(t)
  BY <1>1, <1>4 DEF Drain, DrainNext, PrintEnd, messageVars, receiverVars
<1>5. CASE AddReceiver
  BY <1>1, <1>5 DEF AddReceiver, messageVars
<1>6. ~RemoveReceiver
  BY DEF RemoveReceiver
<1> QED
  BY <1>2, <1>3, <1>4, <1>5, <1>6, MessageSteps DEF MovesMessages

LEMMA NextLatest ==
    ASSUME Types, Placed, Bounded, LogType, Carried, WayInv, GivenInv, DirectIsLatest, [Next]_vars
    PROVE  DirectIsLatest'
<1>1. ASSUME \A m \in DOMAIN log : log'[m] = log[m],
             \A r \in Receivers : shown'[r] = shown[r] \/ shown'[r] = <<>>
      PROVE  DirectIsLatest'
  <2> SUFFICES ASSUME NEW r \in Receivers, NEW i \in DOMAIN shown'[r], NEW j \in DOMAIN shown'[r],
                      i < j, ~log'[shown'[r][j]].queued
               PROVE  shown'[r][i] < shown'[r][j]
    BY DEF DirectIsLatest
  <2>1. shown'[r] = shown[r] /\ i \in DOMAIN shown[r] /\ j \in DOMAIN shown[r]
    BY <1>1
  <2>2. ~log[shown[r][j]].queued
    BY <1>1, <2>1, GivenIs, Zenon
  <2> QED
    BY <2>1, <2>2 DEF DirectIsLatest
<1>2. ASSUME NEW t \in Threads, Deliver(t) PROVE DirectIsLatest'
  <2>1. Delivering(t) /\ at[t] \in Nat /\ log' = log
    BY <1>2, DeliverFacts
  <2>2. PICK r \in Receivers : at[t] < r /\ shown' = [shown EXCEPT ![r] = Append(@, msg[t])]
    BY <1>2, DeliverFacts
  <2>3. msg[t] \in Msgs /\ shown \in [Receivers -> Seq(Msgs)]
    BY <2>1 DEF Carried, Delivering
  <2> SUFFICES ASSUME NEW p \in Receivers, NEW i \in DOMAIN shown'[p], NEW j \in DOMAIN shown'[p],
                      i < j, ~log[shown'[p][j]].queued
               PROVE  shown'[p][i] < shown'[p][j]
    BY <2>1 DEF DirectIsLatest
  <2>4. \/ i \in DOMAIN shown[p] /\ j \in DOMAIN shown[p]
           /\ shown'[p][i] = shown[p][i] /\ shown'[p][j] = shown[p][j]
        \/ p = r /\ i \in DOMAIN shown[p] /\ shown'[p][i] = shown[p][i] /\ shown'[p][j] = msg[t]
    BY <2>2, <2>3
  <2>5. ASSUME p = r, i \in DOMAIN shown[p], ~log[msg[t]].queued PROVE shown[p][i] < msg[t]
    <3>1. Draining => log[msg[t]].queued
      <4>1. Draining => t = Main /\ 1 \in DOMAIN threadedMsgQueue /\ msg[t] = threadedMsgQueue[1]
        BY <1>2, DeliverFacts, ThreadsAssumption DEF Draining, WayInv, Carried, Delivering
      <4> QED
        BY <4>1 DEF WayInv
    <3>2. DeliversNow(t)
      BY <2>1, <2>5, <3>1, ThreadsAssumption DEF DeliversNow, Draining, Delivering, Placed, PlaceOf
    <3>3. msg[t] = Len(log) /\ shown[p][i] \in DOMAIN log
      BY <2>5, <3>2, GivenIs DEF WayInv
    <3>4. shown[p][i] /= msg[t]
      <4>1. p \in Nat /\ at[t] < p
        BY <2>2, <2>5, ReceiversAssumption
      <4>2. ~log[shown[p][i]].queued => shown[p][i] < msg[t]
        BY <2>1, <2>5, <3>2, <4>1, GivenIs
      <4>3. log[shown[p][i]].queued => shown[p][i] /= msg[t]
        BY <2>5, Zenon
      <4> QED
        BY <2>3, <3>3, <4>2, <4>3 DEF Msgs
    <3>5. DOMAIN log = 1 .. Len(log) /\ Len(log) \in Nat
      BY DEF LogType
    <3> QED
      BY <3>3, <3>4, <3>5
  <2> QED
    BY <2>4, <2>5 DEF DirectIsLatest
<1>3. ASSUME KeepsMessages PROVE DirectIsLatest'
  BY <1>1, <1>3 DEF KeepsMessages
<1>4. ASSUME NEW t \in Threads, PrintNow(t) \/ PrintQueued(t) PROVE DirectIsLatest'
  BY <1>1, <1>4, PushFacts
<1>5. ASSUME NEW t \in Threads, PrintEnd(t) PROVE DirectIsLatest'
  BY <1>1, <1>5 DEF PrintEnd, messageVars, history
<1>6. CASE Drain \/ DrainNext
  BY <1>1, <1>6 DEF Drain, DrainNext, messageVars, history
<1>7. CASE AddReceiver \/ RemoveReceiver
  <2>1. \A r \in Receivers : shown'[r] = shown[r] \/ shown'[r] = <<>>
    BY <1>7 DEF AddReceiver, RemoveReceiver, Carried
  <2> QED
    BY <1>1, <1>7, <2>1 DEF AddReceiver, RemoveReceiver, messageVars
<1> QED
  BY <1>2, <1>3, <1>4, <1>5, <1>6, <1>7, MessageSteps DEF MovesMessages

\* What the proofs about a console with receivers that stay rest on.
StayingInv ==
    /\ Types /\ Placed /\ FlagInv /\ Bounded /\ LogType /\ RingInv /\ Carried
    /\ WayInv /\ GivenInv /\ ShownInOrder /\ PathInv /\ DirectIsLatest

LEMMA InitStaying == Init => StayingInv
<1>1. Init => PathInv /\ DirectIsLatest
  BY DEF Init, PathInv, DirectIsLatest
<1> QED
  BY <1>1, InitPlaced, InitFlag, InitBounded, InitRing, InitCarried, InitWay DEF StayingInv

LEMMA NextStaying ==
    ASSUME LateRegistration = FALSE, RemovableReceivers = {}, StayingInv, [Next]_vars
    PROVE  StayingInv'
BY NextPlaced, NextFlag, NextBounded, NextRing, NextCarried, NextWay, NextGiven, NextOrder,
   NextPath, NextLatest
   DEF StayingInv

LEMMA StayingOrder == StayingInv => ThreadOrder
<1> SUFFICES ASSUME StayingInv, NEW r \in Receivers,
                    NEW i \in DOMAIN shown[r], NEW j \in DOMAIN shown[r],
                    i < j, log[shown[r][i]].by = log[shown[r][j]].by
             PROVE  shown[r][i] < shown[r][j]
  BY DEF ThreadOrder
<1> DEFINE a == shown[r][i]
           b == shown[r][j]
<1>1. a \in DOMAIN log /\ b \in DOMAIN log
  BY GivenIs DEF StayingInv
<1>2. \A m \in DOMAIN log : m \in Int /\ log[m].queued \in BOOLEAN
  <2> DEFINE R == [by : Threads, queued : BOOLEAN]
  <2>1. log \in Seq(R)
    BY DEF StayingInv, LogType
  <2>2. \A e \in R : e.queued \in BOOLEAN
    OBVIOUS
  <2> HIDE DEF R
  <2>3. DOMAIN log = 1 .. Len(log) /\ \A m \in DOMAIN log : log[m] \in R
    BY <2>1
  <2> QED
    BY <2>2, <2>3
<1>3. CASE ~log[b].queued
  BY <1>3 DEF StayingInv, DirectIsLatest
<1>4. CASE log[b].queued /\ log[a].queued
  <2>1. log[a].queued = log[b].queued
    BY <1>1, <1>2, <1>4
  <2> QED
    BY <2>1 DEF StayingInv, ShownInOrder
<1>5. CASE log[b].queued /\ ~log[a].queued
  <2>1. log[b].by /= Main /\ log[a].by /= Main
    BY <1>1, <1>5 DEF StayingInv, PathInv
  <2>2. ~(b < a)
    BY <1>1, <1>5, <2>1 DEF StayingInv, PathInv
  <2>3. a /= b
    BY <1>5, Zenon
  <2> HIDE DEF a, b
  <2>4. a < b
    BY <1>1, <1>2, <2>2, <2>3
  <2> QED
    BY <2>4 DEF a, b
<1> QED
  BY <1>3, <1>4, <1>5

\* The messages of one thread are given in the order in which it printed them, though some
\* go directly and others through the queue, if receivers come before the other threads
\* start and stay.
THEOREM ThreadsKeepOrder ==
    ASSUME LateRegistration = FALSE, RemovableReceivers = {}
    PROVE  Spec => []ThreadOrder
<1>1. StayingInv /\ [Next]_vars => StayingInv'
  BY NextStaying
<1> QED
  BY <1>1, InitStaying, StayingOrder, PTL DEF Spec

\* The same of the program with a console that MCConsole puts beside others: whatever those
\* do, its threads' messages keep their order.
THEOREM ConsoleKeepsOrder ==
    ASSUME LateRegistration = FALSE, RemovableReceivers = {}
    PROVE  ConsoleSpec => []OrderKept
<1> DEFINE Inv == program = "console" => StayingInv
<1>1. ConsoleInit => Inv
  BY InitStaying DEF ConsoleInit
<1>2. Inv /\ [ConsoleNext]_bothVars => Inv'
  <2> SUFFICES ASSUME Inv, [ConsoleNext]_bothVars, program' = "console" PROVE StayingInv'
    OBVIOUS
  <2>1. CASE OfConsole /\ Next
    BY <2>1, NextStaying DEF OfConsole
  <2>2. CASE OfSetup \/ OfHost
    <3>1. StayingInv /\ UNCHANGED vars
      BY <2>2 DEF OfSetup, OfHost
    <3> QED
      BY <3>1, NextStaying
  <2>3. CASE UNCHANGED bothVars
    <3>1. StayingInv /\ UNCHANGED vars
      BY <2>3 DEF bothVars
    <3> QED
      BY <3>1, NextStaying
  <2> QED
    BY <2>1, <2>2, <2>3 DEF ConsoleNext
<1>3. Inv => OrderKept
  BY StayingOrder DEF OrderKept
<1> QED
  BY <1>1, <1>2, <1>3, PTL DEF ConsoleSpec
=============================================================================
