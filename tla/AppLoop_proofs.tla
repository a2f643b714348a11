--------------------------- MODULE AppLoop_proofs ---------------------------
(***************************************************************************)
(* Theorems of AppLoop: commands leave the buffer once and in order, items *)
(* are found by their names, and the detached input threads touch only the *)
(* StdConsole that exists.  Each has an invariant of its own over the few  *)
(* variables that it is about.  And theorems of what MCApplication has     *)
(* beside it: the file system, whose proofs are in FileSystem_proofs, the  *)
(* profiler, the conversions of numbers, and the functions without state,  *)
(* whose proofs are in PureFunctions_proofs, for the inputs of that        *)
(* specification.                                                          *)
(***************************************************************************)
EXTENDS MCApplication, PureFunctions_proofs

\* What leaves the memory of the StdConsoles alone.
ConsoleStays ==
    /\ UNCHANGED <<initCount, consoles, term, isValid, syncMutex>>
    /\ pc \notin {"invalidate", "free"} /\ pc' \notin {"invalidate", "free"}
    /\ UNCHANGED reader
-----------------------------------------------------------------------------
(* The input threads. *)

\* Only the StdConsole that exists is valid, and it is no longer when it is freed; a reader
\* that has found it valid has the mutex until it has pushed its line.
ReaderInv ==
    /\ consoles \in 0..MaxConsoles /\ term \in 0..consoles /\ initCount \in Nat
    /\ isValid \in [Generations -> BOOLEAN]
    /\ syncMutex \in [Generations -> Nat]
    /\ reader \in [Generations -> {"none", "reading", "read", "push", "ended"}]
    /\ \A g \in Generations : isValid[g] = TRUE => term = g /\ pc /= "free"
    /\ \A g \in Generations : reader[g] = "push" => syncMutex[g] = g /\ isValid[g] = TRUE
    /\ pc \in {"invalidate", "free"} => initCount = 0 /\ term /= 0
    /\ initCount = 0 /\ pc \notin {"invalidate", "free"} => term = 0
    /\ initCount > 0 => term /= 0

LEMMA ReaderInit == Init => ReaderInv
<1> SUFFICES ASSUME Init PROVE ReaderInv
  OBVIOUS
<1>1. isValid \in [Generations -> BOOLEAN] /\ \A g \in Generations : ~ (isValid[g] = TRUE)
  BY Zenon DEF Init
<1>2. /\ pc = "idle" /\ initCount = 0 /\ consoles = 0 /\ term = 0
      /\ syncMutex = [g \in Generations |-> 0] /\ reader = [g \in Generations |-> "none"]
  BY Zenon DEF Init
<1> QED BY <1>1, <1>2, ConstantsAssumption DEF ReaderInv

LEMMA ReaderSteps == ReaderInv /\ [Next]_vars => ReaderInv'
<1> SUFFICES ASSUME ReaderInv, [Next]_vars PROVE ReaderInv'
  OBVIOUS
<1> MaxConsoles \in Nat
  BY ConstantsAssumption
<1> USE DEF Generations
<1>1. ASSUME ConsoleStays PROVE ReaderInv'
  BY <1>1 DEF ConsoleStays, ReaderInv
<1>2. ASSUME UNCHANGED <<pc, initCount, consoles, term, isValid, syncMutex, reader>> PROVE ReaderInv'
  BY <1>2 DEF ReaderInv
<1>3. ASSUME NEW i \in Items, Construct(i) \/ Destroy(i) PROVE ReaderInv'
  <2>1. ConsoleStays
    BY <1>3 DEF Construct, Destroy, ConsoleStays, lib, terminal
  <2> QED BY <2>1, <1>1
<1>4. ASSUME NEW p \in Posters, PostCall(p) \/ Post(p) PROVE ReaderInv'
  BY <1>4, <1>2 DEF PostCall, Post, lib, terminal
<1>5. ASSUME ExecuteAll \/ CommandNow \/ CommandThrows \/ CommandPosts \/ Tick \/ ExecuteOnce
               \/ CommandPrints \/ CommandSets \/ CommandLocks
      PROVE ReaderInv'
  <2>1. ConsoleStays
    BY <1>5 DEF ExecuteAll, CommandNow, CommandThrows, CommandPosts, Tick, ExecuteOnce, Execute,
       CommandPrints, CommandSets, CommandLocks, CommandDone, Thrown, ConsoleStays, lib, terminal
  <2> QED BY <2>1, <1>1
<1>6. ASSUME NEW typed \in BOOLEAN, InitializeFirst(typed) PROVE ReaderInv'
  <2>1. /\ isValid' \in [Generations -> BOOLEAN]
        /\ \A g \in Generations \ {consoles + 1} : isValid'[g] = isValid[g]
        /\ consoles + 1 \in Generations /\ isValid'[consoles + 1] = typed
    BY <1>6 DEF InitializeFirst, ReaderInv
  <2>2. /\ pc' = "idle" /\ pc = "idle" /\ initCount = 0 /\ initCount' = 1
        /\ consoles' = consoles + 1 /\ term' = consoles + 1 /\ syncMutex' = syncMutex
        /\ reader' = [reader EXCEPT ![consoles + 1] = IF typed THEN "reading" ELSE "none"]
    BY <1>6 DEF InitializeFirst
  <2>3. \A g \in Generations : ~ (isValid[g] = TRUE)
    BY <2>2 DEF ReaderInv
  <2> QED BY <2>1, <2>2, <2>3 DEF ReaderInv
<1>7. CASE InitializeAgain
  BY <1>7 DEF InitializeAgain, terminal, ReaderInv
<1>8. CASE Shutdown
  BY <1>8 DEF Shutdown, terminal, ReaderInv
<1>9. CASE Invalidate
  BY <1>9 DEF Invalidate, SyncMutexFree, lib, ReaderInv
<1>10. CASE Free
  BY <1>10 DEF Free, ReaderInv
<1>11. ASSUME NEW g \in Generations, ReadLine(g) \/ LockSync(g) \/ PushLine(g) PROVE ReaderInv'
  <2> UNCHANGED <<pc, initCount, consoles, term, isValid>>
    BY <1>11 DEF ReadLine, LockSync, PushLine, lib
  <2>1. CASE ReadLine(g)
    <3>1. syncMutex' = syncMutex /\ reader' = [reader EXCEPT ![g] = "read"]
      BY <2>1 DEF ReadLine
    <3> QED BY <3>1 DEF ReaderInv
  <2>2. CASE LockSync(g)
    <3>1. CASE isValid[g] = TRUE
      <4>1. /\ syncMutex' = [syncMutex EXCEPT ![g] = g]
            /\ reader' = [reader EXCEPT ![g] = "push"]
        BY <2>2, <3>1 DEF LockSync
      <4> QED BY <3>1, <4>1 DEF ReaderInv
    <3>2. CASE ~ (isValid[g] = TRUE)
      <4>1. ~ isValid[g]
        BY <3>2, Zenon DEF ReaderInv
      <4>2. syncMutex' = syncMutex /\ reader' = [reader EXCEPT ![g] = "ended"]
        BY <2>2, <4>1 DEF LockSync
      <4> QED BY <4>2 DEF ReaderInv
    <3> QED BY <3>1, <3>2
  <2>3. CASE PushLine(g)
    <3>1. /\ syncMutex' = [syncMutex EXCEPT ![g] = 0]
          /\ reader' = [reader EXCEPT ![g] = "reading"]
      BY <2>3 DEF PushLine
    <3> QED BY <3>1 DEF ReaderInv
  <2> QED BY <1>11, <2>1, <2>2, <2>3
<1>12. CASE UNCHANGED vars
  BY <1>12, <1>2 DEF vars, lib, terminal
<1> QED
  BY <1>3, <1>4, <1>5, <1>6, <1>7, <1>8, <1>9, <1>10, <1>11, <1>12
     DEF Next, MainStep, ReaderStep

LEMMA ReaderHasMutex == ReaderInv => ReaderUsesLive
BY DEF ReaderInv, ReaderUsesLive

\* The detached input thread touches its StdConsole (m_CmdQueue, under SyncData's mutex) only
\* while that exists.
THEOREM ReadersAreSafe == Spec => []ReaderUsesLive
BY ReaderHasMutex, ReaderInit, ReaderSteps, PTL DEF Spec
-----------------------------------------------------------------------------
(* The command buffer. *)

CmdSet == [name : STRING, arg : STRING]

MutexHeld == bufferLocked \in BOOLEAN /\ (bufferLocked <=> left > 0)

\* The command that runs stays at the front until it is done.
CmdInv ==
    /\ cmdQueue \in Seq(CmdSet) /\ posted \in Seq(CmdSet) /\ done \in Seq(CmdSet)
    /\ \A p \in Posters : posting[p] \in Seq(CmdSet)
    /\ termQueue \in Seq(Seq(CmdSet))
    /\ \A g \in Generations : typedLine[g] \in Seq(CmdSet)
    /\ DOMAIN posting = Posters /\ DOMAIN typedLine = Generations
    /\ posted = done \o cmdQueue
    /\ left \in 0..Len(cmdQueue)
    /\ MutexHeld
    /\ left > 0 => pc \in {"run", "stuck"} /\ current = <<Head(cmdQueue)>>

\* Neither the buffer nor what is on its way to it changes.
CmdStays ==
    /\ UNCHANGED <<buffer, posting, termQueue, typedLine>>
    /\ left > 0 => UNCHANGED current /\ pc' \in {"run", "stuck"}

\* A line is appended, by no call that holds the mutex.
Appends(line) == left = 0 /\ AppendAll(line) /\ UNCHANGED <<bufferLocked, left, done>>

LEMMA ConcatInSeq ==
    ASSUME NEW S, NEW s \in Seq(S), NEW t \in Seq(S), NEW u \in Seq(S)
    PROVE  /\ (s \o t) \o u = s \o (t \o u)
           /\ (s \o t) \o u \in Seq(S) /\ t \o u \in Seq(S)
OBVIOUS

\* Taking the front of one sequence to the end of the other.
LEMMA MoveFront ==
    ASSUME NEW S, NEW s \in Seq(S), NEW t \in Seq(S), t /= <<>>
    PROVE  /\ Append(s, Head(t)) \o Tail(t) = s \o t
           /\ Append(s, Head(t)) \in Seq(S) /\ Tail(t) \in Seq(S)
           /\ Len(Tail(t)) = Len(t) - 1
           /\ Len(t) > 1 => Head(Tail(t)) = t[2]
OBVIOUS

LEMMA LinesAreCommands == \A line \in Lines : line \in Seq(CmdSet)
BY ConstantsAssumption DEF CmdSet

LEMMA CmdStayed == CmdInv /\ CmdStays => CmdInv'
<1> SUFFICES ASSUME CmdInv, CmdStays PROVE CmdInv'
  OBVIOUS
<1>1. MutexHeld'
  BY Zenon DEF CmdInv, CmdStays, buffer, MutexHeld
<1> QED BY <1>1 DEF CmdInv, CmdStays, buffer

LEMMA Appended ==
    ASSUME CmdInv, NEW line \in Seq(CmdSet), Appends(line)
    PROVE  /\ cmdQueue' \in Seq(CmdSet) /\ posted' \in Seq(CmdSet) /\ done' \in Seq(CmdSet)
           /\ posted' = done' \o cmdQueue'
           /\ left' = 0 /\ left' \in 0..Len(cmdQueue')
           /\ MutexHeld'
<1>1. cmdQueue' = cmdQueue \o line /\ posted' = posted \o line
  BY DEF Appends, AppendAll
<1>2. (done \o cmdQueue) \o line = done \o (cmdQueue \o line) /\ cmdQueue \o line \in Seq(CmdSet)
        /\ (done \o cmdQueue) \o line \in Seq(CmdSet)
  BY ConcatInSeq DEF CmdInv
<1>3. left' = 0 /\ left = 0 /\ done' = done
  BY DEF Appends
<1>4. MutexHeld'
  BY Zenon DEF Appends, CmdInv, MutexHeld
<1> QED BY <1>1, <1>2, <1>3, <1>4 DEF CmdInv

LEMMA CommandDoneSteps ==
    ASSUME CmdInv, CommandDone, pc = "run", UNCHANGED <<posting, termQueue, typedLine>>
    PROVE  CmdInv'
<1>1. CASE left > 0
  <2>1. /\ cmdQueue' = Tail(cmdQueue) /\ done' = Append(done, Head(cmdQueue)) /\ left' = left - 1
        /\ posted' = posted
    BY <1>1 DEF CommandDone
  <2>2. bufferLocked' = (left > 1)
    BY <1>1, Zenon DEF CommandDone
  <2>3. left > 1 => pc' = "run" /\ current' = <<cmdQueue[2]>>
    BY <1>1 DEF CommandDone
  <2>4. cmdQueue /= <<>> /\ left \in Nat /\ left <= Len(cmdQueue)
    BY <1>1 DEF CmdInv
  <2>5. /\ done' \o cmdQueue' = done \o cmdQueue
        /\ done' \in Seq(CmdSet) /\ cmdQueue' \in Seq(CmdSet)
        /\ Len(cmdQueue') = Len(cmdQueue) - 1
        /\ Len(cmdQueue) > 1 => Head(cmdQueue') = cmdQueue[2]
    <3>1. done \in Seq(CmdSet) /\ cmdQueue \in Seq(CmdSet)
      BY DEF CmdInv
    <3>2. /\ Append(done, Head(cmdQueue)) \o Tail(cmdQueue) = done \o cmdQueue
          /\ Append(done, Head(cmdQueue)) \in Seq(CmdSet) /\ Tail(cmdQueue) \in Seq(CmdSet)
          /\ Len(Tail(cmdQueue)) = Len(cmdQueue) - 1
          /\ Len(cmdQueue) > 1 => Head(Tail(cmdQueue)) = cmdQueue[2]
      BY <3>1, <2>4, MoveFront
    <3> QED BY <2>1, <3>2
  <2>6. left' \in 0..Len(cmdQueue') /\ (left' > 0 <=> left > 1)
    <3>1. Len(cmdQueue) \in Nat
      BY DEF CmdInv
    <3> QED BY <1>1, <2>1, <2>4, <2>5, <3>1
  <2>7. MutexHeld'
    <3>1. (left > 1) \in BOOLEAN
      BY <2>4
    <3> QED BY <2>2, <2>6, <3>1, Zenon DEF MutexHeld
  <2>8. left' > 0 => pc' \in {"run", "stuck"} /\ current' = <<Head(cmdQueue')>>
    BY <2>3, <2>4, <2>5, <2>6
  <2> QED BY <2>1, <2>5, <2>6, <2>7, <2>8 DEF CmdInv
<1>2. CASE ~ (left > 0)
  <2>1. UNCHANGED <<cmdQueue, done, left, bufferLocked, posted>>
    BY <1>2 DEF CommandDone
  <2> QED BY <1>2, <2>1, CmdStayed DEF CmdStays, buffer
<1> QED BY <1>1, <1>2

LEMMA CmdInit == Init => CmdInv
<1> SUFFICES ASSUME Init PROVE CmdInv
  OBVIOUS
<1>1. bufferLocked = FALSE /\ left = 0
  BY Zenon DEF Init
<1>2. /\ cmdQueue = <<>> /\ posted = <<>> /\ done = <<>> /\ termQueue = <<>>
      /\ posting = [p \in Posters |-> <<>>] /\ typedLine = [g \in Generations |-> <<>>]
  BY Zenon DEF Init, Idle
<1>3. MutexHeld
  <2>1. ~ (left > 0)
    BY <1>1
  <2> QED BY <1>1, <2>1, Zenon DEF MutexHeld
<1> QED BY <1>1, <1>2, <1>3 DEF CmdInv

LEMMA CmdSteps == CmdInv /\ [Next]_vars => CmdInv'
<1> SUFFICES ASSUME CmdInv, [Next]_vars PROVE CmdInv'
  OBVIOUS
<1>1. ASSUME CmdStays PROVE CmdInv'
  BY <1>1, CmdStayed
<1>2. pc \notin {"run", "stuck"} => left = 0
  BY DEF CmdInv
<1>3. ~ bufferLocked => left = 0
  <2>1. ~ bufferLocked => ~ (left > 0)
    BY Zenon DEF CmdInv, MutexHeld
  <2>2. left \in Nat
    BY DEF CmdInv
  <2> QED BY <2>1, <2>2
<1>4. ASSUME NEW i \in Items, Construct(i) \/ Destroy(i) PROVE CmdInv'
  <2>1. left = 0 /\ UNCHANGED <<buffer, current, posting, termQueue, typedLine>>
    BY <1>4, <1>2 DEF Construct, Destroy, terminal
  <2> QED BY <2>1, <1>1 DEF CmdStays
<1>5. ASSUME NEW p \in Posters, PostCall(p) PROVE CmdInv'
  <2>1. PICK line \in Lines : posting' = [posting EXCEPT ![p] = line]
    BY <1>5 DEF PostCall
  <2>2. UNCHANGED <<cmdQueue, bufferLocked, left, posted, done, pc, current, termQueue, typedLine>>
    BY <1>5 DEF PostCall, buffer, terminal
  <2>3. \A q \in Posters : posting'[q] \in Seq(CmdSet)
    BY <2>1, LinesAreCommands DEF CmdInv
  <2>4. DOMAIN posting' = Posters
    BY <2>1 DEF CmdInv
  <2>5. MutexHeld'
    BY <2>2, Zenon DEF CmdInv, MutexHeld
  <2> QED BY <2>2, <2>3, <2>4, <2>5 DEF CmdInv
<1>6. ASSUME NEW p \in Posters, Post(p) PROVE CmdInv'
  <2>1. left = 0
    BY <1>6, <1>3, Zenon DEF Post
  <2>2. posting[p] \in Seq(CmdSet) /\ Appends(posting[p])
    BY <1>6, <2>1 DEF Post, Appends, CmdInv
  <2>3. UNCHANGED <<pc, current, termQueue, typedLine>> /\ posting' = [posting EXCEPT ![p] = <<>>]
    BY <1>6 DEF Post, terminal, Idle
  <2>4. (\A q \in Posters : posting'[q] \in Seq(CmdSet)) /\ DOMAIN posting' = Posters
    BY <2>3 DEF CmdInv
  <2> QED BY <2>2, <2>3, <2>4, Appended DEF CmdInv
<1>7. CASE ExecuteOnce \/ ExecuteAll
  <2>1. UNCHANGED <<cmdQueue, posted, done, posting, termQueue, typedLine>>
    BY <1>7 DEF ExecuteOnce, ExecuteAll, Execute, terminal
  <2>4. Len(cmdQueue) \in Nat /\ (cmdQueue /= <<>> => Len(cmdQueue) >= 1)
    BY DEF CmdInv
  <2>2. CASE left' = 0 /\ UNCHANGED <<bufferLocked, left>>
    <3>1. MutexHeld'
      BY <2>2, Zenon DEF CmdInv, MutexHeld
    <3> QED BY <2>1, <2>2, <3>1 DEF CmdInv
  <2>3. CASE /\ pc' = "run" /\ bufferLocked' = TRUE /\ left' \in 1..Len(cmdQueue)
             /\ current' = <<Head(cmdQueue)>>
    <3>1. MutexHeld'
      <4>1. left' > 0
        BY <2>3, <2>4
      <4> QED BY <2>3, <4>1, Zenon DEF MutexHeld
    <3> QED BY <2>1, <2>3, <3>1 DEF CmdInv
  <2>5. CASE ExecuteAll
    <3>1. /\ pc' = "run" /\ bufferLocked' = TRUE /\ left' = Len(cmdQueue) /\ cmdQueue /= <<>>
          /\ current' = <<Head(cmdQueue)>>
      BY <2>5, Zenon DEF ExecuteAll
    <3> QED BY <3>1, <2>3, <2>4
  <2>6. CASE ExecuteOnce /\ cmdQueue = <<>>
    <3>1. UNCHANGED <<bufferLocked, left>> /\ left = 0
      BY <2>6, <1>2 DEF ExecuteOnce, Execute, ToExecute
    <3> QED BY <3>1, <2>2
  <2>7. CASE ExecuteOnce /\ cmdQueue /= <<>>
    <3>1. ToExecute = 1 /\ Execute(ToExecute)
      BY <2>7 DEF ExecuteOnce, ToExecute
    <3>2. /\ pc' = "run" /\ bufferLocked' = TRUE /\ left' = 1 /\ current' = <<Head(cmdQueue)>>
      <4>1. Execute(1)
        BY <3>1
      <4>2. 1 /= 0
        OBVIOUS
      <4> QED BY <4>1, <4>2, Zenon DEF Execute
    <3> QED BY <3>2, <2>3, <2>4, <2>7
  <2> QED BY <1>7, <2>5, <2>6, <2>7
<1>8. CASE CommandNow \/ InitializeAgain \/ Shutdown \/ Invalidate
             \/ \E typed \in BOOLEAN : InitializeFirst(typed)
  <2>1. left = 0 /\ UNCHANGED <<buffer, posting, termQueue, typedLine>>
    BY <1>8, <1>2 DEF CommandNow, InitializeAgain, Shutdown, Invalidate, InitializeFirst, terminal
  <2> QED BY <2>1, <1>1 DEF CmdStays
<1>9. CASE CommandPrints \/ CommandSets \/ CommandLocks
  <2>1. CommandDone /\ pc = "run" /\ UNCHANGED <<posting, termQueue, typedLine>>
    BY <1>9 DEF CommandPrints, CommandSets, CommandLocks, terminal
  <2> QED BY <2>1, CommandDoneSteps
<1>10. CASE CommandThrows
  <2>1. /\ UNCHANGED <<posting, termQueue, typedLine, cmdQueue, posted, done>>
        /\ left' = 0 /\ bufferLocked' = FALSE
    BY <1>10, Zenon DEF CommandThrows, Thrown, terminal
  <2>2. MutexHeld'
    <3>1. ~ (left' > 0)
      BY <2>1
    <3> QED BY <2>1, <3>1, Zenon DEF MutexHeld
  <2>3. left' \in 0..Len(cmdQueue')
    BY <2>1 DEF CmdInv
  <2> QED BY <2>1, <2>2, <2>3 DEF CmdInv
<1>11. CASE CommandPosts
  <2>1. pc = "run" /\ UNCHANGED <<bufferLocked, left, done, current, posting, termQueue, typedLine>>
    BY <1>11 DEF CommandPosts, terminal
  <2>2. CASE bufferLocked
    <3>1. pc' = "stuck" /\ UNCHANGED <<cmdQueue, posted>>
      BY <1>11, <2>2 DEF CommandPosts
    <3> QED BY <2>1, <3>1, <1>1 DEF CmdStays, buffer
  <2>3. CASE ~ bufferLocked
    <3>1. PICK line \in Lines : AppendAll(line)
      BY <1>11, <2>3 DEF CommandPosts
    <3>2. left = 0
      BY <2>3, <1>3, Zenon
    <3>3. Appends(line) /\ line \in Seq(CmdSet)
      BY <2>1, <3>1, <3>2, LinesAreCommands DEF Appends
    <3> QED BY <2>1, <3>3, Appended DEF CmdInv
  <2> QED BY <2>2, <2>3
<1>12. CASE Tick
  <2>1. left = 0 /\ UNCHANGED <<bufferLocked, left, done, posting, typedLine>>
    BY <1>12, <1>2 DEF Tick
  <2>2. CASE isValid[term] /\ termQueue /= <<>>
    <3>1. AppendAll(Head(termQueue)) /\ termQueue' = Tail(termQueue)
      BY <1>12, <2>2 DEF Tick
    <3>2. Head(termQueue) \in Seq(CmdSet) /\ Tail(termQueue) \in Seq(Seq(CmdSet))
      BY <2>2 DEF CmdInv
    <3>3. Appends(Head(termQueue))
      BY <2>1, <3>1 DEF Appends
    <3> QED BY <2>1, <3>1, <3>2, <3>3, Appended DEF CmdInv
  <2>3. CASE ~ (isValid[term] /\ termQueue /= <<>>)
    <3>1. UNCHANGED <<cmdQueue, posted, termQueue>>
      BY <1>12, <2>3 DEF Tick
    <3> QED BY <2>1, <3>1, <1>1 DEF CmdStays, buffer
  <2> QED BY <2>2, <2>3
<1>13. CASE Free
  <2>1. /\ left = 0 /\ UNCHANGED <<bufferLocked, left, posting, typedLine>>
        /\ cmdQueue' = <<>> /\ posted' = <<>> /\ done' = <<>> /\ termQueue' = <<>>
    BY <1>13, <1>2 DEF Free
  <2>2. MutexHeld'
    BY <2>1, Zenon DEF CmdInv, MutexHeld
  <2> QED BY <2>1, <2>2 DEF CmdInv
<1>14. ASSUME NEW g \in Generations, ReadLine(g) \/ LockSync(g) \/ PushLine(g) PROVE CmdInv'
  <2>1. UNCHANGED <<pc, cmdQueue, bufferLocked, left, posted, done, current, posting>>
    BY <1>14 DEF ReadLine, LockSync, PushLine, buffer
  <2>2. /\ termQueue' \in Seq(Seq(CmdSet)) /\ DOMAIN typedLine' = Generations
        /\ \A h \in Generations : typedLine'[h] \in Seq(CmdSet)
    <3>1. CASE ReadLine(g)
      BY <3>1, LinesAreCommands DEF ReadLine, CmdInv
    <3>2. CASE LockSync(g)
      <4>1. termQueue' = termQueue
        BY <3>2 DEF LockSync
      <4>2. typedLine' = typedLine \/ typedLine' = [typedLine EXCEPT ![g] = <<>>]
        BY <3>2, Zenon DEF LockSync
      <4>3. termQueue \in Seq(Seq(CmdSet)) /\ DOMAIN typedLine = Generations
              /\ \A h \in Generations : typedLine[h] \in Seq(CmdSet)
        BY DEF CmdInv
      <4>4. <<>> \in Seq(CmdSet)
        OBVIOUS
      <4>5. CASE typedLine' = [typedLine EXCEPT ![g] = <<>>]
        BY <4>1, <4>3, <4>4, <4>5
      <4> QED BY <4>1, <4>2, <4>3, <4>5
    <3>3. CASE PushLine(g)
      BY <3>3 DEF PushLine, CmdInv
    <3> QED BY <1>14, <3>1, <3>2, <3>3
  <2>3. MutexHeld'
    BY <2>1, Zenon DEF CmdInv, MutexHeld
  <2> QED BY <2>1, <2>2, <2>3 DEF CmdInv
<1>15. CASE UNCHANGED vars
  BY <1>15, <1>1 DEF CmdStays, CmdInv, vars, terminal
<1> QED
  BY <1>4, <1>5, <1>6, <1>7, <1>8, <1>9, <1>10, <1>11, <1>12, <1>13, <1>14, <1>15
     DEF Next, MainStep, ReaderStep

LEMMA QueueKept == CmdInv => CommandsKept
<1>1. CmdInv => (bufferLocked => left > 0)
  BY Zenon DEF CmdInv, MutexHeld
<1> QED BY <1>1, Zenon DEF CmdInv, CommandsKept

\* Every command that is put into the CmdBuffer leaves it once and in order, whatever is
\* posted while commands run, throw and queue more; the running one is at the front.
THEOREM BufferIsAQueue == Spec => []CommandsKept
BY QueueKept, CmdInit, CmdSteps, PTL DEF Spec
-----------------------------------------------------------------------------
(* Console items. *)

\* The ConsoleSystem exists from the first initialize() to the end of the last shutdown().
LibInv ==
    /\ initCount \in Nat
    /\ conSys \in BOOLEAN
    /\ conSys <=> (initCount > 0 \/ pc \in {"invalidate", "free"})

LibraryStays ==
    /\ UNCHANGED <<initCount, conSys>>
    /\ pc \notin {"invalidate", "free"} /\ pc' \notin {"invalidate", "free"}

LEMMA LibInit == Init => LibInv
<1> SUFFICES ASSUME Init PROVE LibInv
  OBVIOUS
<1>1. pc = "idle" /\ initCount = 0
  BY Zenon DEF Init
<1>2. ~ (initCount > 0) /\ pc \notin {"invalidate", "free"} /\ initCount \in Nat
  BY <1>1
<1>3. conSys = FALSE
  BY Zenon DEF Init
<1> QED BY <1>2, <1>3, Zenon DEF LibInv

LEMMA LibSteps == ReaderInv /\ LibInv /\ [Next]_vars => LibInv'
<1> SUFFICES ASSUME ReaderInv, LibInv, [Next]_vars PROVE LibInv'
  OBVIOUS
<1>1. ASSUME LibraryStays PROVE LibInv'
  BY <1>1, Zenon DEF LibraryStays, LibInv
<1>2. ASSUME UNCHANGED <<pc, initCount, conSys>> PROVE LibInv'
  BY <1>2, Zenon DEF LibInv
<1>3. ASSUME NEW i \in Items, Construct(i) \/ Destroy(i) PROVE LibInv'
  <2>1. LibraryStays
    BY <1>3 DEF Construct, Destroy, LibraryStays, lib
  <2> QED BY <2>1, <1>1
<1>4. ASSUME NEW p \in Posters, PostCall(p) \/ Post(p) PROVE LibInv'
  BY <1>4, <1>2 DEF PostCall, Post, lib
<1>5. ASSUME ExecuteAll \/ CommandNow \/ CommandThrows \/ CommandPosts \/ Tick \/ ExecuteOnce
               \/ CommandPrints \/ CommandSets \/ CommandLocks
      PROVE LibInv'
  <2>1. LibraryStays
    BY <1>5 DEF ExecuteAll, CommandNow, CommandThrows, CommandPosts, Tick, ExecuteOnce, Execute,
       CommandPrints, CommandSets, CommandLocks, CommandDone, Thrown, LibraryStays, lib
  <2> QED BY <2>1, <1>1
<1>6. ASSUME initCount' \in Nat, initCount' > 0, conSys' = TRUE PROVE LibInv'
  BY <1>6, Zenon DEF LibInv
<1>7. ASSUME NEW typed \in BOOLEAN, InitializeFirst(typed) PROVE LibInv'
  <2>1. initCount' = 1
    BY <1>7 DEF InitializeFirst
  <2>2. conSys' = TRUE
    BY <1>7, Zenon DEF InitializeFirst
  <2> QED BY <2>1, <2>2, <1>6
<1>8. CASE InitializeAgain
  <2>1. initCount' = initCount + 1 /\ initCount > 0 /\ initCount \in Nat
    BY <1>8 DEF InitializeAgain, LibInv
  <2>2. conSys' = TRUE
    BY <1>8, <2>1, Zenon DEF InitializeAgain, LibInv
  <2> QED BY <2>1, <2>2, <1>6
<1>9. CASE Shutdown
  <2>1. initCount > 0 /\ initCount \in Nat /\ initCount' = initCount - 1 /\ UNCHANGED conSys
    BY <1>9 DEF Shutdown, LibInv
  <2>2. conSys' = TRUE
    BY <2>1, Zenon DEF LibInv
  <2>3. CASE initCount = 1
    <3>1. pc' = "invalidate" /\ initCount' \in Nat
      BY <1>9, <2>1, <2>3 DEF Shutdown
    <3> QED BY <2>2, <3>1, Zenon DEF LibInv
  <2>4. CASE initCount /= 1
    <3>1. initCount' \in Nat /\ initCount' > 0
      BY <2>1, <2>4
    <3> QED BY <2>2, <3>1, <1>6
  <2> QED BY <2>3, <2>4
<1>10. CASE Invalidate
  <2>1. UNCHANGED <<initCount, conSys>> /\ pc \in {"invalidate", "free"} /\ pc' \in {"invalidate", "free"}
    BY <1>10 DEF Invalidate, lib
  <2> QED BY <2>1, Zenon DEF LibInv
<1>11. CASE Free
  <2>1. initCount = 0 /\ initCount' = 0 /\ pc' = "idle"
    BY <1>11 DEF Free, ReaderInv
  <2>2. ~ (initCount' > 0) /\ pc' \notin {"invalidate", "free"} /\ initCount' \in Nat
    BY <2>1
  <2>3. conSys' = FALSE
    BY <1>11, Zenon DEF Free
  <2> QED BY <2>2, <2>3, Zenon DEF LibInv
<1>12. ASSUME NEW g \in Generations, ReadLine(g) \/ LockSync(g) \/ PushLine(g) PROVE LibInv'
  BY <1>12, <1>2 DEF ReadLine, LockSync, PushLine, lib
<1>13. CASE UNCHANGED vars
  BY <1>13, <1>2 DEF vars, lib
<1> QED
  BY <1>3, <1>4, <1>5, <1>7, <1>8, <1>9, <1>10, <1>11, <1>12, <1>13
     DEF Next, MainStep, ReaderStep

\* Whether an item is where it is looked for.
Found(i) == IF conSys THEN conItems[Name[i]] = i ELSE i \in pendingItems

\* An entry has its item's own name; the entries and the pending items exist, and there are
\* no entries without a ConsoleSystem and no pending items with one.
RegInv ==
    /\ conItems \in [Names -> Items \cup {NoItem}]
    /\ built \subseteq Items
    /\ \A n \in Names : conItems[n] /= NoItem => conItems[n] \in built /\ Name[conItems[n]] = n
    /\ pendingItems \subseteq built
    /\ conSys => pendingItems = {}
    /\ ~ conSys => conItems = [n \in Names |-> NoItem]
    /\ \A i \in built \ orphans : Found(i)

\* What registerConItem() does to a map, of which each entry has its own name.
LEMMA RegisterAllProperties ==
    ASSUME NEW map \in [Names -> Items \cup {NoItem}], NEW items \in SUBSET Items,
           \A n \in Names : map[n] /= NoItem => Name[map[n]] = n
    PROVE  /\ RegisterAll(map, items) \in [Names -> Items \cup {NoItem}]
           /\ \A n \in Names : LET i == RegisterAll(map, items)[n] IN
                /\ i /= NoItem => i \in items \/ i = map[n]
                /\ i /= NoItem => Name[i] = n
                /\ map[n] /= NoItem => i = map[n]
           /\ \A i \in items \ Shadowed(map, items) : RegisterAll(map, items)[Name[i]] = i
<1> DEFINE new == RegisterAll(map, items)
<1>1. ASSUME NEW n \in Names, map[n] = NoItem, \E i \in items : Name[i] = n
      PROVE  new[n] \in items /\ Name[new[n]] = n
  <2>1. new[n] = CHOOSE i \in items : Name[i] = n
    BY <1>1 DEF RegisterAll
  <2>2. (CHOOSE i \in items : Name[i] = n) \in items /\ Name[CHOOSE i \in items : Name[i] = n] = n
    BY <1>1, Zenon
  <2> QED BY <2>1, <2>2
<1>2. ASSUME NEW n \in Names, map[n] /= NoItem \/ ~ \E i \in items : Name[i] = n
      PROVE  new[n] = map[n]
  BY <1>2 DEF RegisterAll
<1>3. new = [n \in Names |-> new[n]]
  BY DEF RegisterAll
<1>4. \A i \in items \ Shadowed(map, items) : new[Name[i]] = i
  BY Zenon DEF Shadowed
<1> HIDE DEF new
<1>5. \A n \in Names : /\ new[n] \in Items \cup {NoItem}
                       /\ new[n] /= NoItem => new[n] \in items \/ new[n] = map[n]
                       /\ new[n] /= NoItem => Name[new[n]] = n
                       /\ map[n] /= NoItem => new[n] = map[n]
  BY <1>1, <1>2
<1>6. new \in [Names -> Items \cup {NoItem}]
  BY <1>3, <1>5
<1> QED BY <1>4, <1>5, <1>6 DEF new

LEMMA RegInit == Init => RegInv
<1> SUFFICES ASSUME Init PROVE RegInv
  OBVIOUS
<1>1. ~ conSys
  BY Zenon DEF Init
<1>2. built = StaticItems /\ pendingItems = StaticItems /\ conItems = [n \in Names |-> NoItem]
  BY Zenon DEF Init
<1>3. \A i \in built : Found(i)
  BY <1>1, <1>2, Zenon DEF Found
<1> QED BY <1>1, <1>2, <1>3, ConstantsAssumption DEF RegInv

LEMMA RegSteps == LibInv /\ RegInv /\ [Next]_vars => RegInv'
<1> SUFFICES ASSUME LibInv, RegInv, [Next]_vars PROVE RegInv'
  OBVIOUS
<1> USE ConstantsAssumption
<1>1. \A i \in Items : Name[i] \in Names
  BY Zenon DEF Names
<1>2. ASSUME UNCHANGED <<registry, conSys>> PROVE RegInv'
  <2>1. \A i : Found(i)' <=> Found(i)
    BY <1>2, Zenon DEF Found, registry
  <2>2. conSys' = conSys
    BY <1>2
  <2>3. UNCHANGED <<built, pendingItems, conItems, orphans>>
    BY <1>2 DEF registry
  <2> QED BY <2>1, <2>2, <2>3, Zenon DEF RegInv
<1>3. ASSUME NEW i \in Items, Construct(i), IsInitialized PROVE RegInv'
  <2>1. conSys /\ conSys'
    BY <1>3, Zenon DEF Construct, IsInitialized, lib, LibInv
  <2>2. /\ conItems' = RegisterAll(conItems, {i}) /\ built' = built \cup {i}
        /\ orphans' = orphans \cup Shadowed(conItems, {i}) /\ pendingItems' = pendingItems
    BY <1>3 DEF Construct
  <2>3. /\ conItems' \in [Names -> Items \cup {NoItem}]
        /\ \A n \in Names : /\ conItems'[n] /= NoItem => conItems'[n] = i \/ conItems'[n] = conItems[n]
                            /\ conItems'[n] /= NoItem => Name[conItems'[n]] = n
                            /\ conItems[n] /= NoItem => conItems'[n] = conItems[n]
        /\ i \notin Shadowed(conItems, {i}) => conItems'[Name[i]] = i
    BY <2>2, RegisterAllProperties DEF RegInv
  <2>4. \A j \in built \ orphans : conItems[Name[j]] = j
    BY <2>1, Zenon DEF RegInv, Found
  <2>5. \A j \in built' \ orphans' : conItems'[Name[j]] = j
    <3>1. TAKE j \in built' \ orphans'
    <3>2. j \in Items /\ j /= NoItem /\ Name[j] \in Names
      BY <2>2, <1>1 DEF RegInv
    <3>3. CASE j = i
      BY <2>2, <2>3, <3>3
    <3>4. CASE j /= i
      <4>1. j \in built \ orphans
        BY <2>2, <3>4
      <4> QED BY <2>3, <2>4, <3>2, <4>1
    <3> QED BY <3>3, <3>4
  <2>6. \A j \in built' \ orphans' : Found(j)'
    BY <2>1, <2>5, Zenon DEF Found
  <2>7. pendingItems' = {}
    BY <2>1, <2>2 DEF RegInv
  <2>8. built' \subseteq Items /\ \A n \in Names : conItems'[n] /= NoItem => conItems'[n] \in built'
    BY <2>2, <2>3 DEF RegInv
  <2> QED BY <2>1, <2>3, <2>6, <2>7, <2>8 DEF RegInv
<1>4. ASSUME NEW i \in Items, Construct(i), ~ IsInitialized PROVE RegInv'
  <2>1. ~ conSys /\ ~ conSys'
    BY <1>4, Zenon DEF Construct, IsInitialized, lib, LibInv
  <2>2. /\ pendingItems' = pendingItems \cup {i} /\ built' = built \cup {i}
        /\ UNCHANGED <<conItems, orphans>>
    BY <1>4 DEF Construct
  <2>3. \A j \in built \ orphans : j \in pendingItems
    BY <2>1, Zenon DEF RegInv, Found
  <2>4. \A j \in built' \ orphans' : j \in pendingItems'
    BY <2>2, <2>3
  <2>5. \A j \in built' \ orphans' : Found(j)'
    BY <2>1, <2>4, Zenon DEF Found
  <2> QED BY <2>1, <2>2, <2>5 DEF RegInv
<1>5. ASSUME NEW i \in Items, Destroy(i), IsInitialized PROVE RegInv'
  <2>1. conSys /\ conSys'
    BY <1>5, Zenon DEF Destroy, IsInitialized, lib, LibInv
  <2>2. /\ conItems' = [conItems EXCEPT ![Name[i]] = NoItem] /\ built' = built \ {i}
        /\ orphans' = (orphans \cup {conItems[Name[i]]}) \ {i, NoItem}
        /\ pendingItems' = pendingItems
    BY <1>5 DEF Destroy
  <2>3. \A j \in built \ orphans : conItems[Name[j]] = j
    BY <2>1, Zenon DEF RegInv, Found
  <2>4. \A j \in built' \ orphans' : conItems'[Name[j]] = j
    BY <2>2, <2>3, <1>1 DEF RegInv
  <2>5. \A j \in built' \ orphans' : Found(j)'
    BY <2>1, <2>4, Zenon DEF Found
  <2>6. pendingItems' = {}
    BY <2>1, <2>2 DEF RegInv
  <2>7. /\ conItems' \in [Names -> Items \cup {NoItem}] /\ built' \subseteq Items
        /\ \A n \in Names :
             conItems'[n] /= NoItem => conItems'[n] \in built' /\ Name[conItems'[n]] = n
    BY <2>2 DEF RegInv
  <2> QED BY <2>1, <2>5, <2>6, <2>7 DEF RegInv
<1>6. ASSUME NEW i \in Items, Destroy(i), ~ IsInitialized PROVE RegInv'
  <2>1. ~ conSys /\ ~ conSys'
    BY <1>6, Zenon DEF Destroy, IsInitialized, lib, LibInv
  <2>2. /\ pendingItems' = pendingItems \ {i} /\ built' = built \ {i}
        /\ orphans' = orphans \ {i} /\ conItems' = conItems
    BY <1>6 DEF Destroy, ErasePending
  <2>3. \A j \in built \ orphans : j \in pendingItems
    BY <2>1, Zenon DEF RegInv, Found
  <2>4. \A j \in built' \ orphans' : j \in pendingItems'
    BY <2>2, <2>3
  <2>5. \A j \in built' \ orphans' : Found(j)'
    BY <2>1, <2>4, Zenon DEF Found
  <2>6. conItems = [n \in Names |-> NoItem]
    BY <2>1 DEF RegInv
  <2>7. \A n \in Names : conItems'[n] = NoItem
    BY <2>2, <2>6
  <2> QED BY <2>1, <2>2, <2>5, <2>7 DEF RegInv
<1>7. ASSUME NEW typed \in BOOLEAN, InitializeFirst(typed) PROVE RegInv'
  <2>1. conSys'
    BY <1>7, Zenon DEF InitializeFirst
  <2>2. ~ conSys
    <3>1. ~ (initCount > 0) /\ pc \notin {"invalidate", "free"}
      BY <1>7 DEF InitializeFirst
    <3> QED BY <3>1, Zenon DEF LibInv
  <2> DEFINE none == [n \in Names |-> NoItem]
  <2>3. /\ conItems' = RegisterAll(none, pendingItems) /\ built' = built /\ pendingItems' = {}
        /\ orphans' = orphans \cup Shadowed(none, pendingItems)
    BY <1>7 DEF InitializeFirst
  <2>4. /\ none \in [Names -> Items \cup {NoItem}] /\ \A n \in Names : none[n] = NoItem
        /\ pendingItems \in SUBSET Items
    BY DEF RegInv
  <2> HIDE DEF none
  <2>5. /\ conItems' \in [Names -> Items \cup {NoItem}]
        /\ \A n \in Names : /\ conItems'[n] /= NoItem => conItems'[n] \in pendingItems
                            /\ conItems'[n] /= NoItem => Name[conItems'[n]] = n
        /\ \A i \in pendingItems \ Shadowed(none, pendingItems) : conItems'[Name[i]] = i
    BY <2>3, <2>4, RegisterAllProperties
  <2>6. \A j \in built \ orphans : j \in pendingItems
    BY <2>2, Zenon DEF RegInv, Found
  <2>7. \A j \in built' \ orphans' : conItems'[Name[j]] = j
    BY <2>3, <2>5, <2>6
  <2>8. \A j \in built' \ orphans' : Found(j)'
    BY <2>1, <2>7, Zenon DEF Found
  <2> QED BY <2>1, <2>3, <2>5, <2>8 DEF RegInv
<1>8. CASE Free
  <2>1. conSys
    <3>1. pc \in {"invalidate", "free"}
      BY <1>8 DEF Free
    <3> QED BY <3>1, Zenon DEF LibInv
  <2>2. ~ conSys'
    BY <1>8, Zenon DEF Free
  <2>3. /\ conItems' = [n \in Names |-> NoItem] /\ UNCHANGED <<built, pendingItems>>
        /\ orphans' = orphans \cup ({conItems[n] : n \in Names} \ {NoItem})
    BY <1>8 DEF Free
  <2>4. \A j \in built \ orphans : conItems[Name[j]] = j
    BY <2>1, Zenon DEF RegInv, Found
  <2>5. built' \ orphans' = {}
    BY <2>3, <2>4, <1>1 DEF RegInv
  <2>6. \A j \in built' \ orphans' : Found(j)'
    BY <2>5, Zenon
  <2> QED BY <2>2, <2>3, <2>6 DEF RegInv
<1>9. ASSUME NEW p \in Posters, PostCall(p) \/ Post(p) PROVE RegInv'
  BY <1>9, <1>2 DEF PostCall, Post, lib
<1>10. ASSUME ExecuteAll \/ CommandNow \/ CommandThrows \/ CommandPosts \/ Tick \/ ExecuteOnce
                \/ CommandPrints \/ CommandSets \/ CommandLocks \/ InitializeAgain \/ Shutdown
                \/ Invalidate
       PROVE RegInv'
  <2>1. UNCHANGED <<registry, conSys>>
    BY <1>10 DEF ExecuteAll, CommandNow, CommandThrows, CommandPosts, Tick, ExecuteOnce, Execute,
       CommandPrints, CommandSets, CommandLocks, InitializeAgain, Shutdown, Invalidate, lib
  <2> QED BY <2>1, <1>2
<1>11. ASSUME NEW g \in Generations, ReadLine(g) \/ LockSync(g) \/ PushLine(g) PROVE RegInv'
  BY <1>11, <1>2 DEF ReadLine, LockSync, PushLine, lib
<1>12. CASE UNCHANGED vars
  BY <1>12, <1>2 DEF vars, lib
<1> QED
  BY <1>3, <1>4, <1>5, <1>6, <1>7, <1>8, <1>9, <1>10, <1>11, <1>12
     DEF Next, MainStep, ReaderStep

LEMMA RegisteredFound == RegInv => LiveItemsFound
<1> SUFFICES ASSUME RegInv PROVE LiveItemsFound
  OBVIOUS
<1>1. {conItems[n] : n \in Names} \subseteq built \cup {NoItem}
  BY DEF RegInv
<1>2. \A i \in built \ orphans : IF conSys THEN conItems[Name[i]] = i ELSE i \in pendingItems
  BY Zenon DEF RegInv, Found
<1>3. pendingItems \subseteq built
  BY DEF RegInv
<1> QED BY <1>1, <1>2, <1>3, Zenon DEF LiveItemsFound, NoDanglingItems

\* An item is found by its name while there is a ConsoleSystem, and pending before, however
\* constructors, destructors, initialize() and shutdown() are ordered, except one whose name
\* was taken or that an earlier shutdown() found; nothing destroyed is found or pending.
THEOREM ItemsAreFound == Spec => []LiveItemsFound
BY RegisteredFound, ReaderInit, ReaderSteps, LibInit, LibSteps, RegInit, RegSteps, PTL DEF Spec
-----------------------------------------------------------------------------
(* The types of the main loop. *)

\* What the other invariants do not say of the variables.
LoopTypes ==
    /\ pc \in {"idle", "process", "run", "stuck", "invalidate", "free", "undefined"}
    /\ initCount \in 0..2
    /\ orphans \subseteq Items
    /\ locked \subseteq Cvars
    /\ value \in [Cvars -> Values]
    /\ current \in Seq(CmdSet)
    /\ (pc \in {"run", "stuck"}) <=> current /= <<>>
    /\ syncMutex \in [Generations -> 0..MaxConsoles]

\* Of the typed variables only those of the main thread's place change.
PlaceChanges == UNCHANGED <<initCount, orphans, locked, value, syncMutex>>

LEMMA LoopTypesInit == Init => LoopTypes
<1> SUFFICES ASSUME Init PROVE LoopTypes
  OBVIOUS
<1>1. /\ pc = "idle" /\ initCount = 0 /\ orphans = {} /\ locked = {} /\ current = <<>>
      /\ value = [i \in Cvars |-> Default] /\ syncMutex = [g \in Generations |-> 0]
  BY Zenon DEF Init
<1> QED BY <1>1, ConstantsAssumption DEF LoopTypes

LEMMA ShadowedAreItems ==
    ASSUME NEW map, NEW items \in SUBSET Items PROVE Shadowed(map, items) \subseteq Items
BY DEF Shadowed

LEMMA DoneTypes ==
    ASSUME CmdInv, LoopTypes, pc = "run", CommandDone
    PROVE  /\ pc' \in {"idle", "run"} /\ current' \in Seq(CmdSet)
           /\ (pc' \in {"run", "stuck"}) <=> current' /= <<>>
<1>1. /\ cmdQueue \in Seq(CmdSet) /\ current \in Seq(CmdSet) /\ current /= <<>>
      /\ left \in 0..Len(cmdQueue)
  BY DEF CmdInv, LoopTypes
<1>2. CASE left > 1
  <2>1. pc' = "run" /\ current' = <<cmdQueue[2]>>
    BY <1>1, <1>2 DEF CommandDone
  <2>2. cmdQueue[2] \in CmdSet
    BY <1>1, <1>2
  <2> QED BY <2>1, <2>2
<1>3. CASE left = 1
  BY <1>3 DEF CommandDone
<1>4. CASE left = 0
  <2>1. current' = Tail(current) /\ pc' = IF Len(current) > 1 THEN "run" ELSE "idle"
    BY <1>4 DEF CommandDone
  <2>2. /\ Tail(current) \in Seq(CmdSet) /\ Len(current) \in Nat
        /\ Len(Tail(current)) = Len(current) - 1
    BY <1>1
  <2>3. CASE Len(current) > 1
    BY <2>1, <2>2, <2>3
  <2>4. CASE ~ (Len(current) > 1)
    <3>1. Tail(current) = <<>>
      BY <2>2, <2>4, <1>1
    <3> QED BY <2>1, <2>2, <2>4, <3>1
  <2> QED BY <2>3, <2>4
<1> QED BY <1>1, <1>2, <1>3, <1>4

LEMMA LoopTypesSteps ==
    ASSUME ReaderInv, CmdInv, RegInv, LoopTypes, [Next]_vars PROVE LoopTypes'
<1> USE ConstantsAssumption
<1>1. ASSUME PlaceChanges, current' \in Seq(CmdSet),
             pc' \in {"idle", "process", "run", "stuck", "invalidate", "free", "undefined"},
             (pc' \in {"run", "stuck"}) <=> current' /= <<>>
      PROVE  LoopTypes'
  BY <1>1 DEF PlaceChanges, LoopTypes
<1>2. ASSUME UNCHANGED <<pc, current>>, PlaceChanges PROVE LoopTypes'
  BY <1>2, <1>1 DEF LoopTypes
<1>3. ASSUME NEW i \in Items, Construct(i) PROVE LoopTypes'
  <2>1. UNCHANGED <<pc, initCount, current, syncMutex>>
    BY <1>3 DEF Construct, lib, terminal
  <2>2. orphans' \subseteq Items
    BY <1>3, ShadowedAreItems DEF Construct, LoopTypes
  <2>3. locked' \subseteq Cvars
    BY <1>3 DEF Construct, LoopTypes
  <2>4. value' \in [Cvars -> Values]
    <3>1. value' = [j \in Cvars |-> IF j = i THEN Default ELSE value[j]]
      BY <1>3 DEF Construct
    <3> QED BY <3>1 DEF LoopTypes
  <2> QED BY <2>1, <2>2, <2>3, <2>4 DEF LoopTypes
<1>4. ASSUME NEW i \in Items, Destroy(i) PROVE LoopTypes'
  <2>1. UNCHANGED <<initCount, current, syncMutex, locked, value>> /\ pc = "idle"
    BY <1>4 DEF Destroy, lib, terminal, cvars
  <2>2. pc' \in {"idle", "undefined"}
    BY <1>4 DEF Destroy
  <2>3. conItems[Name[i]] \in Items \cup {NoItem}
    <3>1. Name[i] \in Names
      BY Zenon DEF Names
    <3> QED BY <3>1 DEF RegInv
  <2>4. orphans' \subseteq Items
    BY <1>4, <2>3 DEF Destroy, LoopTypes
  <2> QED BY <2>1, <2>2, <2>4 DEF LoopTypes
<1>5. ASSUME NEW p \in Posters, PostCall(p) \/ Post(p) PROVE LoopTypes'
  <2>1. UNCHANGED <<pc, current>> /\ PlaceChanges
    BY <1>5 DEF PostCall, Post, PlaceChanges, lib, registry, cvars, terminal
  <2> QED BY <2>1, <1>2
<1>6. ASSUME cmdQueue /= <<>>, pc' = "run", current' = <<Head(cmdQueue)>>, PlaceChanges PROVE LoopTypes'
  <2>1. Head(cmdQueue) \in CmdSet
    BY <1>6 DEF CmdInv
  <2> QED BY <1>6, <2>1, <1>1
<1>7. CASE ExecuteOnce
  <2>1. PlaceChanges /\ pc = "process"
    BY <1>7 DEF ExecuteOnce, Execute, PlaceChanges, lib, registry, cvars, terminal
  <2>2. CASE cmdQueue = <<>>
    <3>1. pc' = "idle" /\ current' = current
      BY <1>7, <2>2 DEF ExecuteOnce, Execute, ToExecute
    <3> QED BY <2>1, <3>1, <1>1 DEF LoopTypes
  <2>3. CASE cmdQueue /= <<>>
    <3>1. pc' = "run" /\ current' = <<Head(cmdQueue)>>
      BY <1>7, <2>3 DEF ExecuteOnce, Execute, ToExecute
    <3> QED BY <2>1, <2>3, <3>1, <1>6
  <2> QED BY <2>2, <2>3
<1>8. CASE ExecuteAll
  <2>1. PlaceChanges /\ cmdQueue /= <<>> /\ pc' = "run" /\ current' = <<Head(cmdQueue)>>
    BY <1>8 DEF ExecuteAll, PlaceChanges, lib, registry, cvars, terminal
  <2> QED BY <2>1, <1>6
<1>9. CASE CommandNow
  <2>1. PlaceChanges /\ pc' = "run" /\ current' \in Seq(CmdSet) /\ current' /= <<>>
    BY <1>9, LinesAreCommands DEF CommandNow, PlaceChanges, lib, registry, cvars, terminal
  <2> QED BY <2>1, <1>1
<1>10. CASE CommandPrints
  <2>1. PlaceChanges /\ CommandDone /\ pc = "run"
    BY <1>10 DEF CommandPrints, PlaceChanges, lib, registry, cvars, terminal
  <2> QED BY <2>1, DoneTypes, <1>1
<1>11. CASE CommandSets
  <2>1. UNCHANGED <<initCount, orphans, locked, syncMutex>> /\ CommandDone /\ pc = "run"
    BY <1>11 DEF CommandSets, lib, registry, terminal
  <2>2. value' \in [Cvars -> Values]
    <3>1. PICK accepted \in BOOLEAN :
            value' = IF SetResult(Item, Arg, accepted) = "Success" THEN [value EXCEPT ![Item] = Arg] ELSE value
      BY <1>11, Zenon DEF CommandSets
    <3>2. CASE Arg \in Values
      BY <3>1, <3>2 DEF LoopTypes
    <3>3. CASE Arg \notin Values
      <4>1. SetResult(Item, Arg, accepted) /= "Success"
        BY <3>3 DEF SetResult
      <4> QED BY <3>1, <4>1 DEF LoopTypes
    <3> QED BY <3>2, <3>3
  <2> QED BY <2>1, <2>2, DoneTypes DEF LoopTypes
<1>12. CASE CommandLocks
  <2>1. UNCHANGED <<initCount, orphans, value, syncMutex>> /\ CommandDone /\ pc = "run"
    BY <1>12 DEF CommandLocks, lib, registry, terminal
  <2>2. FindCvar(Arg) \in Cvars
    BY <1>12 DEF CommandLocks, FindCvar
  <2>3. locked' \subseteq Cvars
    BY <1>12, <2>2 DEF CommandLocks, LoopTypes
  <2> QED BY <2>1, <2>3, DoneTypes DEF LoopTypes
<1>13. CASE CommandThrows
  <2>1. PlaceChanges /\ pc' = "idle" /\ current' = <<>>
    BY <1>13 DEF CommandThrows, Thrown, PlaceChanges, lib, registry, cvars, terminal
  <2> QED BY <2>1, <1>1
<1>14. CASE CommandPosts
  <2>1. PlaceChanges /\ pc = "run" /\ pc' \in {"run", "stuck"} /\ current' = current
    BY <1>14 DEF CommandPosts, PlaceChanges, lib, registry, cvars, terminal
  <2> QED BY <2>1, <1>1 DEF LoopTypes
<1>15. ASSUME NEW typed \in BOOLEAN, InitializeFirst(typed) PROVE LoopTypes'
  <2>1. UNCHANGED <<pc, current, locked, value, syncMutex>> /\ initCount' = 1
    BY <1>15 DEF InitializeFirst, cvars
  <2>2. orphans' \subseteq Items
    <3>1. pendingItems \in SUBSET Items
      BY DEF RegInv
    <3>2. Shadowed([n \in Names |-> NoItem], pendingItems) \subseteq Items
      BY <3>1, ShadowedAreItems
    <3> QED BY <1>15, <3>2 DEF InitializeFirst, LoopTypes
  <2> QED BY <2>1, <2>2 DEF LoopTypes
<1>16. CASE InitializeAgain
  <2>1. UNCHANGED <<pc, current, orphans, locked, value, syncMutex>> /\ initCount = 1 /\ initCount' = initCount + 1
    BY <1>16 DEF InitializeAgain, registry, cvars, terminal
  <2> QED BY <2>1 DEF LoopTypes
<1>17. CASE Shutdown
  <2>1. /\ UNCHANGED <<current, orphans, locked, value, syncMutex>>
        /\ initCount > 0 /\ initCount' = initCount - 1
        /\ pc = "idle" /\ pc' \in {"idle", "invalidate"}
    BY <1>17 DEF Shutdown, registry, cvars, terminal
  <2> QED BY <2>1 DEF LoopTypes
<1>18. CASE Invalidate
  <2>1. PlaceChanges /\ current' = current /\ pc = "invalidate" /\ pc' = "free"
    BY <1>18 DEF Invalidate, PlaceChanges, lib, registry, cvars
  <2> QED BY <2>1, <1>1 DEF LoopTypes
<1>19. CASE Free
  <2>1. /\ UNCHANGED <<initCount, current, locked, value, syncMutex>> /\ pc = "free" /\ pc' = "idle"
        /\ orphans' = orphans \cup ({conItems[n] : n \in Names} \ {NoItem})
    BY <1>19 DEF Free, cvars
  <2>2. orphans' \subseteq Items
    BY <2>1 DEF LoopTypes, RegInv
  <2> QED BY <2>1, <2>2 DEF LoopTypes
<1>20. CASE Tick
  <2>1. PlaceChanges /\ current' = current /\ pc = "idle" /\ pc' = "process"
    BY <1>20 DEF Tick, PlaceChanges, lib, registry, cvars
  <2> QED BY <2>1, <1>1 DEF LoopTypes
<1>21. ASSUME NEW g \in Generations, ReadLine(g) \/ LockSync(g) \/ PushLine(g) PROVE LoopTypes'
  <2>1. UNCHANGED <<pc, current, initCount, orphans, locked, value>>
    BY <1>21 DEF ReadLine, LockSync, PushLine, lib, registry, cvars
  <2>2. \/ syncMutex' = syncMutex
        \/ syncMutex' = [syncMutex EXCEPT ![g] = g]
        \/ syncMutex' = [syncMutex EXCEPT ![g] = 0]
    BY <1>21, Zenon DEF ReadLine, LockSync, PushLine
  <2>3. syncMutex' \in [Generations -> 0..MaxConsoles]
    <3>1. syncMutex \in [Generations -> 0..MaxConsoles]
      BY DEF LoopTypes
    <3>2. g \in 0..MaxConsoles /\ 0 \in 0..MaxConsoles
      BY DEF Generations
    <3>3. CASE syncMutex' = [syncMutex EXCEPT ![g] = g]
      BY <3>1, <3>2, <3>3
    <3>4. CASE syncMutex' = [syncMutex EXCEPT ![g] = 0]
      BY <3>1, <3>2, <3>4
    <3> QED BY <2>2, <3>1, <3>3, <3>4
  <2> QED BY <2>1, <2>3 DEF LoopTypes
<1>22. CASE UNCHANGED vars
  BY <1>22, <1>2 DEF vars, lib, registry, cvars, terminal, PlaceChanges
<1> QED
  BY <1>3, <1>4, <1>5, <1>7, <1>8, <1>9, <1>10, <1>11, <1>12, <1>13, <1>14, <1>15, <1>16, <1>17,
     <1>18, <1>19, <1>20, <1>21, <1>22 DEF Next, MainStep, ReaderStep

\* What is known of the main loop in each state.
LoopInv == ReaderInv /\ CmdInv /\ LibInv /\ RegInv /\ LoopTypes

LEMMA LoopInitially == Init => LoopInv
BY ReaderInit, CmdInit, LibInit, RegInit, LoopTypesInit DEF LoopInv

LEMMA LoopSteps == LoopInv /\ [Next]_vars => LoopInv'
BY ReaderSteps, CmdSteps, LibSteps, RegSteps, LoopTypesSteps DEF LoopInv

LEMMA LoopInvMeans == LoopInv => TypeOK
<1> SUFFICES ASSUME LoopInv PROVE TypeOK
  OBVIOUS
<1>1. built \subseteq Items /\ pendingItems \subseteq Items /\ conItems \in [Names -> Items \cup {NoItem}]
  BY DEF LoopInv, RegInv
<1>2. /\ term \in 0..consoles /\ consoles \in 0..MaxConsoles
      /\ isValid \in [Generations -> BOOLEAN]
      /\ reader \in [Generations -> {"none", "reading", "read", "push", "ended"}]
  BY Zenon DEF LoopInv, ReaderInv
<1>3. left \in 0..Len(cmdQueue) /\ bufferLocked \in BOOLEAN /\ (bufferLocked <=> left > 0)
  BY Zenon DEF LoopInv, CmdInv, MutexHeld
<1>4. conSys \in BOOLEAN
  BY Zenon DEF LoopInv, LibInv
<1>5. LoopTypes
  BY Zenon DEF LoopInv
<1> QED BY <1>1, <1>2, <1>3, <1>4, <1>5, Zenon DEF LoopTypes, TypeOK

\* The main loop, its console and its buffer keep their types, no call is in progress without
\* a command, and the buffer's mutex is held in no other state than while it is executed.
THEOREM LoopKeepsTypes == Spec => []TypeOK
BY LoopInitially, LoopSteps, LoopInvMeans, PTL DEF Spec
-----------------------------------------------------------------------------
(* The file system. *)

FileProofs == INSTANCE FileSystem_proofs WITH
    Threads <- Posters \cup {Main}, NoThread <- NoItem, MaxCalls <- 3,
    Names <- MCFileNames, Tags <- {<<"g">>}, Dirs <- {"d1", "d2", "no"},
    Files <- MCFiles, Listing <- MCListing

\* The file system in this specification is the one that FileSystem_proofs knows.
LEMMA SameInit == FileSystem!Init <=> FileProofs!Init
BY Zenon DEF FileSystem!Init, FileSystem!NoCall, FileSystem!NoResult,
     FileProofs!Init, FileProofs!NoCall, FileProofs!NoResult

LEMMA SameSteps == FileSystem!Next <=> FileProofs!Next
BY Zenon DEF
     FileSystem!Next, FileSystem!Step, FileSystem!CallRead, FileSystem!CallWrite,
     FileSystem!LockShared, FileSystem!LockAgain, FileSystem!FindGroup, FileSystem!SearchFile,
     FileSystem!NoFile, FileSystem!ListDirectory, FileSystem!FindOrAddGroup,
     FileSystem!AddSearchPath, FileSystem!Return, FileSystem!Reads, FileSystem!Writes,
     FileSystem!NoCall, FileSystem!NoResult, FileSystem!ParseVirtualName, FileSystem!SelectInSeq,
     FileSystem!Subdirs, FileSystem!IsDirectory, FileSystem!Exists, FileSystem!Moves,
     FileSystem!Finds, FileSystem!SharedFree, FileSystem!AloneFree, FileSystem!Min,
     FileProofs!Next, FileProofs!Step, FileProofs!CallRead, FileProofs!CallWrite,
     FileProofs!LockShared, FileProofs!LockAgain, FileProofs!FindGroup, FileProofs!SearchFile,
     FileProofs!NoFile, FileProofs!ListDirectory, FileProofs!FindOrAddGroup,
     FileProofs!AddSearchPath, FileProofs!Return, FileProofs!Reads, FileProofs!Writes,
     FileProofs!NoCall, FileProofs!NoResult, FileProofs!ParseVirtualName, FileProofs!SelectInSeq,
     FileProofs!Subdirs, FileProofs!IsDirectory, FileProofs!Exists, FileProofs!Moves,
     FileProofs!Finds, FileProofs!SharedFree, FileProofs!AloneFree, FileProofs!Min

LEMMA FileSteps == [AppNext]_allVars => [FileProofs!Next]_FileProofs!fsVars
<1>1. ASSUME UNCHANGED fileVars PROVE UNCHANGED FileProofs!fsVars
  BY <1>1 DEF fileVars, FileProofs!fsVars
<1> QED
  BY <1>1, SameSteps, Zenon DEF AppNext, OfLoop, OfFiles, OfProf, allVars

\* What the threads of this specification find in the file system is right when they return.
THEOREM AppFindsFiles == ASSUME NoItem \notin Posters \cup {Main} PROVE AppSpec => []LookupsRight
<1>1. AppInit => FileProofs!IInv
  BY SameInit, FileProofs!InvariantInit DEF AppInit
<1>2. FileProofs!IInv /\ [AppNext]_allVars => FileProofs!IInv'
  BY FileSteps, FileProofs!InvariantSteps
<1>3. FileProofs!LookupsRight => LookupsRight
  BY Zenon DEF LookupsRight, FileSystem!LookupsRight, FileSystem!FirstWith, FileSystem!SelectInSeq,
     FileSystem!Exists, FileSystem!Subdirs, FileSystem!Range, FileSystem!Min,
     FileProofs!LookupsRight, FileProofs!FirstWith, FileProofs!SelectInSeq,
     FileProofs!Exists, FileProofs!Subdirs, FileProofs!Range, FileProofs!Min
<1> QED BY <1>1, <1>2, <1>3, FileProofs!InvariantImpliesRight, PTL DEF AppSpec
-----------------------------------------------------------------------------
(* The profiler. *)

ProfConstants == MaxNodes \in Nat \ {0} /\ MaxFrames \in Nat /\ MaxDepth \in Nat

SomeNames == SectionNames \cup {RootName}
NodeSet == [pSection : Prof!Hashes \cup {NoSection}, parent : Nat, made : SomeNames]
OpenSet == [name : SectionNames, prevNode : Nat, prevHash : Prof!Hashes, entered : BOOLEAN]

\* The ways in a tree, and the names of the sections of a stack that were entered in a frame.
WayStep(f, t) ==
    [k \in 0..MaxNodes |->
        IF k \in {0, 1} \/ k > Len(t) THEN <<>> ELSE Append(f[t[k].parent], t[k].made)]
WayOf(t) == CHOOSE f : f = WayStep(f, t)

EnteredStep(f, s) ==
    [k \in 0..Len(s) |->
        IF k = 0 THEN <<>> ELSE IF s[k].entered THEN Append(f[k - 1], s[k].name) ELSE f[k - 1]]
EnteredOf(s) == CHOOSE f : f = EnteredStep(f, s)

LEMMA ProfRecursions ==
    /\ Prof!Way = WayOf(tree) /\ Prof!Way' = WayOf(tree')
    /\ Prof!Entered = EnteredOf(profs) /\ Prof!Entered' = EnteredOf(profs')
BY DEF Prof!Way, WayOf, WayStep, Prof!Entered, EnteredOf, EnteredStep, Prof!Null, Prof!Root

\* Every node but the root is made after its parent.
Grown(t) == t \in Seq(NodeSet) /\ Len(t) <= MaxNodes /\ \A k \in 2..Len(t) : t[k].parent \in 1..(k - 1)

IsWay(f, t) ==
    /\ f \in [0..MaxNodes -> Seq(SomeNames)]
    /\ f[0] = <<>> /\ f[1] = <<>>
    /\ \A k \in 2..Len(t) : f[k] = Append(f[t[k].parent], t[k].made)

LEMMA WayIs ==
    ASSUME ProfConstants, NEW t, Grown(t)
    PROVE  IsWay(WayOf(t), t)
<1> DEFINE N == MaxNodes
           V == Seq(SomeNames)
           Leaf(k) == k = 1 \/ k > Len(t)
           prev == [k \in 1..N |-> IF Leaf(k) THEN 0 ELSE t[k].parent]
           G == [k \in 1..N |-> [v \in V |-> IF Leaf(k) THEN <<>> ELSE Append(v, t[k].made)]]
           f == WayOf(t)
<1>1. N \in Nat \ {0} /\ Len(t) \in Nat /\ Len(t) <= N /\ <<>> \in V
  BY DEF ProfConstants, Grown
<1>2. ASSUME NEW k \in 1..N, ~Leaf(k)
      PROVE  k \in 2..Len(t) /\ t[k].parent \in 1..(k - 1) /\ t[k].made \in SomeNames
  <2>1. k \in 2..Len(t)
    BY <1>1, <1>2
  <2>2. t[k] \in NodeSet
    BY <2>1 DEF Grown
  <2> QED BY <2>1, <2>2 DEF Grown, NodeSet
<1>3. IsStep(G, prev, V, N)
  <2>1. ASSUME NEW k \in 1..N PROVE prev[k] \in Nat /\ prev[k] < k
    <3>1. CASE Leaf(k)
      BY <3>1
    <3>2. CASE ~Leaf(k)
      BY <1>2, <3>2
    <3> QED BY <3>1, <3>2
  <2>2. ASSUME NEW k \in 1..N, NEW v \in V PROVE (IF Leaf(k) THEN <<>> ELSE Append(v, t[k].made)) \in V
    <3>1. CASE Leaf(k)
      BY <1>1, <3>1
    <3>2. CASE ~Leaf(k)
      <4> DEFINE x == t[k].made
      <4>1. x \in SomeNames
        BY <1>2, <3>2
      <4> HIDE DEF x, Leaf
      <4>2. Append(v, x) \in V
        BY <4>1
      <4> QED BY <3>2, <4>2 DEF x
    <3> QED BY <3>1, <3>2
  <2>3. prev = [k \in 1..N |-> prev[k]]
    OBVIOUS
  <2> HIDE DEF Leaf
  <2>4. G \in [1..N -> [V -> V]]
    BY <2>2
  <2>5. prev \in [1..N -> Nat]
    BY <2>1
  <2> HIDE DEF G, prev
  <2> QED BY <2>1, <2>4, <2>5 DEF IsStep
<1>4. PICK h : Follows(h, G, prev, V, <<>>, N)
  <2> DEFINE a == <<>>
  <2>1. a \in V /\ N \in Nat
    BY <1>1
  <2> HIDE DEF a, V, G, prev, N
  <2>2. \E h : Follows(h, G, prev, V, a, N)
    BY <1>3, <2>1, Recursion
  <2> QED BY <2>2 DEF a
<1>5. h \in [0..N -> V] /\ h[0] = <<>> /\ \A k \in 1..N : h[k] = G[k][h[prev[k]]]
  BY <1>4 DEF Follows
<1> HIDE DEF V
<1>6. ASSUME NEW k \in 1..N PROVE h[k] = IF Leaf(k) THEN <<>> ELSE Append(h[t[k].parent], t[k].made)
  <2>1. prev[k] \in 0..N /\ prev[k] = IF Leaf(k) THEN 0 ELSE t[k].parent
    <3>1. prev[k] \in Nat /\ prev[k] < k
      BY <1>3 DEF IsStep
    <3> QED BY <1>1, <3>1
  <2>2. h[prev[k]] \in V
    BY <1>5, <2>1
  <2>3. G[k][h[prev[k]]] = IF Leaf(k) THEN <<>> ELSE Append(h[prev[k]], t[k].made)
    BY <2>2
  <2> QED BY <1>5, <2>1, <2>3
<1>7. h = WayStep(h, t)
  <2>1. ASSUME NEW k \in 0..N
        PROVE  h[k] = IF k \in {0, 1} \/ k > Len(t) THEN <<>> ELSE Append(h[t[k].parent], t[k].made)
    <3>1. CASE k = 0
      BY <1>5, <3>1
    <3>2. CASE k /= 0
      <4>1. k \in 1..N
        BY <1>1, <3>2
      <4> QED BY <1>6, <3>2, <4>1
    <3> QED BY <3>1, <3>2
  <2>2. h = [k \in 0..N |-> h[k]]
    BY <1>5
  <2> QED BY <2>1, <2>2 DEF WayStep
<1>8. f = WayStep(f, t)
  BY <1>7 DEF WayOf
<1> HIDE DEF f
<1>9. \A k \in 0..N :
         f[k] = IF k \in {0, 1} \/ k > Len(t) THEN <<>> ELSE Append(f[t[k].parent], t[k].made)
  BY <1>8 DEF WayStep
<1>10. \A k \in 0..N : f[k] = h[k]
  <2>1. ASSUME NEW k \in 0..N, \A j \in 0..(k - 1) : f[j] = h[j] PROVE f[k] = h[k]
    <3>1. CASE k \in {0, 1} \/ k > Len(t)
      BY <1>9, <1>7, <3>1 DEF WayStep
    <3>2. CASE ~ (k \in {0, 1} \/ k > Len(t))
      <4>1. k \in 1..N /\ ~Leaf(k)
        BY <1>1, <3>2
      <4>2. t[k].parent \in 0..(k - 1)
        BY <1>2, <4>1
      <4>3. f[t[k].parent] = h[t[k].parent]
        BY <2>1, <4>2
      <4>4. f[k] = Append(f[t[k].parent], t[k].made)
        BY <1>9, <3>2
      <4>5. h[k] = Append(h[t[k].parent], t[k].made)
        BY <1>6, <4>1
      <4> QED BY <4>3, <4>4, <4>5
    <3> QED BY <3>1, <3>2
  <2> HIDE DEF N
  <2>2. N \in Nat
    BY <1>1
  <2>3. KeepAgreeing(f, h, N)
    BY <2>1 DEF KeepAgreeing
  <2>4. Agree(f, h, N)
    BY <2>2, <2>3, Agreement, Zenon
  <2> QED BY <2>4 DEF Agree
<1>11. f \in [0..N -> V]
  <2>1. f = [k \in 0..N |-> f[k]]
    BY <1>8 DEF WayStep
  <2>2. \A k \in 0..N : f[k] \in V
    BY <1>5, <1>10
  <2> QED BY <2>1, <2>2
<1>12. f[0] = <<>> /\ f[1] = <<>>
  BY <1>1, <1>9
<1>13. ASSUME NEW k \in 2..Len(t) PROVE f[k] = Append(f[t[k].parent], t[k].made)
  <2>1. k \in 0..N /\ ~ (k \in {0, 1} \/ k > Len(t))
    BY <1>1
  <2> QED BY <1>9, <2>1
<1> QED BY <1>11, <1>12, <1>13 DEF IsWay, f, V

IsEntered(f, s) ==
    /\ f \in [0..Len(s) -> Seq(SomeNames)]
    /\ f[0] = <<>>
    /\ \A k \in 1..Len(s) :
         /\ s[k].entered = TRUE => f[k] = Append(f[k - 1], s[k].name)
         /\ s[k].entered = FALSE => f[k] = f[k - 1]

LEMMA EnteredIs ==
    ASSUME NEW s \in Seq(OpenSet)
    PROVE  IsEntered(EnteredOf(s), s)
<1> DEFINE N == Len(s)
           V == Seq(SomeNames)
           prev == [k \in 1..N |-> k - 1]
           G == [k \in 1..N |-> [v \in V |-> IF s[k].entered THEN Append(v, s[k].name) ELSE v]]
           f == EnteredOf(s)
<1>1. N \in Nat /\ <<>> \in V
  OBVIOUS
<1>2. ASSUME NEW k \in 1..N PROVE s[k].name \in SomeNames /\ s[k].entered \in BOOLEAN
  <2>1. s[k] \in OpenSet
    OBVIOUS
  <2> QED BY <2>1 DEF OpenSet, SomeNames
<1>3. IsStep(G, prev, V, N)
  <2>1. ASSUME NEW k \in 1..N, NEW v \in V PROVE (IF s[k].entered THEN Append(v, s[k].name) ELSE v) \in V
    <3> DEFINE x == s[k].name
    <3>1. x \in SomeNames
      BY <1>2
    <3> HIDE DEF x
    <3>2. Append(v, x) \in V
      BY <3>1
    <3> QED BY <3>2, Zenon DEF x
  <2>2. G \in [1..N -> [V -> V]]
    <3> DEFINE Value(k, v) == IF s[k].entered THEN Append(v, s[k].name) ELSE v
    <3>1. \A k \in 1..N, v \in V : Value(k, v) \in V
      BY <2>1
    <3>2. G = [k \in 1..N |-> [v \in V |-> Value(k, v)]]
      BY Zenon
    <3> HIDE DEF Value, G, V, N
    <3> QED BY <3>1, <3>2
  <2>3. prev \in [1..N -> Nat] /\ \A k \in 1..N : prev[k] < k
    BY <1>1
  <2> HIDE DEF G, prev, V, N
  <2> QED BY <2>2, <2>3 DEF IsStep
<1>4. PICK h : Follows(h, G, prev, V, <<>>, N)
  <2> DEFINE a == <<>>
  <2>1. a \in V /\ N \in Nat
    BY <1>1
  <2> HIDE DEF a, V, G, prev, N
  <2>2. \E h : Follows(h, G, prev, V, a, N)
    BY <1>3, <2>1, Recursion
  <2> QED BY <2>2 DEF a
<1>5. h \in [0..N -> V] /\ h[0] = <<>> /\ \A k \in 1..N : h[k] = G[k][h[prev[k]]]
  BY <1>4, Zenon DEF Follows
<1> HIDE DEF V
<1>6. ASSUME NEW k \in 1..N PROVE h[k] = IF s[k].entered THEN Append(h[k - 1], s[k].name) ELSE h[k - 1]
  <2>1. prev[k] = k - 1 /\ k - 1 \in 0..N
    BY <1>1
  <2>2. h[k - 1] \in V
    BY <1>5, <2>1
  <2>3. G[k] = [v \in V |-> IF s[k].entered THEN Append(v, s[k].name) ELSE v]
    BY Zenon
  <2> HIDE DEF G, prev
  <2>4. G[k][h[k - 1]] = IF s[k].entered THEN Append(h[k - 1], s[k].name) ELSE h[k - 1]
    BY <2>2, <2>3, Zenon
  <2>5. h[k] = G[k][h[prev[k]]]
    BY <1>5, Zenon
  <2> QED BY <2>1, <2>4, <2>5, Zenon
<1>7. h = EnteredStep(h, s)
  <2> DEFINE Value(k) == IF k = 0 THEN <<>>
                         ELSE IF s[k].entered THEN Append(h[k - 1], s[k].name) ELSE h[k - 1]
  <2>1. \A k \in 0..N : k = 0 \/ k \in 1..N
    BY <1>1
  <2>2. ASSUME NEW k \in 0..N PROVE h[k] = Value(k)
    <3>1. CASE k = 0
      BY <1>5, <3>1, Zenon
    <3>2. CASE k /= 0
      BY <1>6, <2>1, <3>2, Zenon
    <3> QED BY <3>1, <3>2
  <2>3. h = [k \in 0..N |-> h[k]]
    BY <1>5
  <2>4. EnteredStep(h, s) = [k \in 0..N |-> Value(k)]
    BY Zenon DEF EnteredStep
  <2> HIDE DEF Value
  <2> QED BY <2>2, <2>3, <2>4
<1>8. f = EnteredStep(f, s)
  BY <1>7, Zenon DEF EnteredOf
<1> HIDE DEF f
<1>9. f[0] = <<>> /\
      \A k \in 1..N : f[k] = IF s[k].entered THEN Append(f[k - 1], s[k].name) ELSE f[k - 1]
  <2> DEFINE Value(k) == IF k = 0 THEN <<>>
                         ELSE IF s[k].entered THEN Append(f[k - 1], s[k].name) ELSE f[k - 1]
  <2>1. f = [k \in 0..N |-> Value(k)]
    BY <1>8, Zenon DEF EnteredStep
  <2> HIDE DEF Value
  <2>2. \A k \in 0..N : f[k] = Value(k)
    BY <2>1
  <2>3. 0 \in 0..N /\ \A k \in 1..N : k \in 0..N /\ k /= 0
    BY <1>1
  <2> QED BY <2>2, <2>3, Zenon DEF Value
<1>10. \A k \in 0..N : f[k] = h[k]
  <2>1. ASSUME NEW k \in 0..N, \A j \in 0..(k - 1) : f[j] = h[j] PROVE f[k] = h[k]
    <3>1. CASE k = 0
      BY <1>5, <1>9, <3>1, Zenon
    <3>2. CASE k /= 0
      <4>1. k \in 1..N /\ k - 1 \in 0..(k - 1)
        BY <1>1, <3>2
      <4>2. f[k - 1] = h[k - 1]
        BY <2>1, <4>1
      <4> QED BY <1>6, <1>9, <4>1, <4>2, Zenon
    <3> QED BY <3>1, <3>2
  <2> HIDE DEF N
  <2>2. N \in Nat
    BY <1>1
  <2>3. KeepAgreeing(f, h, N)
    BY <2>1, Zenon DEF KeepAgreeing
  <2>4. Agree(f, h, N)
    BY <2>2, <2>3, Agreement, Zenon
  <2> QED BY <2>4 DEF Agree
<1>11. f \in [0..N -> V]
  <2>1. f = [k \in 0..N |-> f[k]]
    <3> DEFINE Value(k) == IF k = 0 THEN <<>>
                         ELSE IF s[k].entered THEN Append(f[k - 1], s[k].name) ELSE f[k - 1]
    <3>1. f = [k \in 0..N |-> Value(k)]
      BY <1>8, Zenon DEF EnteredStep
    <3> HIDE DEF Value
    <3> QED BY <3>1
  <2>2. \A k \in 0..N : f[k] \in V
    BY <1>5, <1>10
  <2> QED BY <2>1, <2>2
<1> QED BY <1>9, <1>11, Zenon DEF IsEntered, f, V

\* The way to a node stays when nodes are added.
LEMMA WayGrows ==
    ASSUME ProfConstants, NEW t, NEW node, Grown(t), Grown(Append(t, node))
    PROVE  /\ \A k \in 0..Len(t) : WayOf(Append(t, node))[k] = WayOf(t)[k]
           /\ t /= <<>> => WayOf(Append(t, node))[Len(t) + 1] = Append(WayOf(t)[node.parent], node.made)
<1> DEFINE u == Append(t, node)
           f == WayOf(t)
           g == WayOf(u)
           N == Len(t)
<1>1. /\ N \in Nat /\ Len(u) = N + 1 /\ u[N + 1] = node
      /\ \A k \in 1..N : u[k] = t[k]
  BY DEF Grown
<1>2. IsWay(f, t) /\ IsWay(g, u)
  BY WayIs, Zenon
<1>3. \A k \in 2..(N + 1) : u[k].parent \in 1..(k - 1)
  BY <1>1 DEF Grown
<1> HIDE DEF u, f, g, N
<1>4. ASSUME NEW k \in 0..N, \A j \in 0..(k - 1) : g[j] = f[j] PROVE g[k] = f[k]
  <2>1. CASE k \in {0, 1}
    BY <1>2, <2>1, Zenon DEF IsWay
  <2>2. CASE k \notin {0, 1}
    <3>1. k \in 2..Len(t) /\ k \in 2..Len(u) /\ k \in 1..N
      BY <1>1, <2>2 DEF N
    <3>2. u[k].parent \in 0..(k - 1)
      BY <1>1, <1>3, <3>1
    <3>3. g[k] = Append(g[u[k].parent], u[k].made) /\ f[k] = Append(f[t[k].parent], t[k].made)
      BY <1>2, <3>1, Zenon DEF IsWay
    <3> QED BY <1>1, <1>4, <3>1, <3>2, <3>3, Zenon
  <2> QED BY <2>1, <2>2
<1>5. \A k \in 0..N : g[k] = f[k]
  <2>1. KeepAgreeing(g, f, N)
    BY <1>4, Zenon DEF KeepAgreeing
  <2>2. Agree(g, f, N)
    BY <1>1, <2>1, Agreement, Zenon
  <2> QED BY <2>2 DEF Agree
<1>6. ASSUME t /= <<>> PROVE g[N + 1] = Append(f[node.parent], node.made)
  <2>1. N + 1 \in 2..Len(u)
    BY <1>1, <1>6 DEF N, Grown
  <2>2. node.parent \in 0..N
    BY <1>1, <1>3, <2>1
  <2>3. g[N + 1] = Append(g[u[N + 1].parent], u[N + 1].made)
    BY <1>2, <2>1, Zenon DEF IsWay
  <2> QED BY <1>1, <1>5, <2>2, <2>3, Zenon
<1> QED BY <1>5, <1>6, Zenon DEF u, f, g, N

\* The open sections at the bottom of a stack do not depend on those above.
LEMMA EnteredBelow ==
    ASSUME NEW s \in Seq(OpenSet), NEW u \in Seq(OpenSet), NEW n \in Nat, n <= Len(s), n <= Len(u),
           \A k \in 1..n : s[k] = u[k]
    PROVE  \A k \in 0..n : EnteredOf(s)[k] = EnteredOf(u)[k]
<1> DEFINE f == EnteredOf(s)
           g == EnteredOf(u)
<1>1. IsEntered(f, s) /\ IsEntered(g, u)
  BY EnteredIs, Zenon
<1> HIDE DEF f, g
<1>2. ASSUME NEW k \in 0..n, \A j \in 0..(k - 1) : f[j] = g[j] PROVE f[k] = g[k]
  <2>1. CASE k = 0
    BY <1>1, <2>1, Zenon DEF IsEntered
  <2>2. CASE k /= 0
    <3>1. k \in 1..n /\ k \in 1..Len(s) /\ k \in 1..Len(u) /\ k - 1 \in 0..(k - 1)
      BY <2>2
    <3>2. s[k] \in OpenSet
      BY <3>1
    <3>3. s[k].entered = TRUE \/ s[k].entered = FALSE
      BY <3>2, Zenon DEF OpenSet
    <3>4. s[k] = u[k] /\ f[k - 1] = g[k - 1]
      BY <1>2, <3>1, Zenon
    <3> QED BY <1>1, <3>1, <3>3, <3>4, Zenon DEF IsEntered
  <2> QED BY <2>1, <2>2
<1>3. KeepAgreeing(f, g, n)
  BY <1>2, Zenon DEF KeepAgreeing
<1>4. n \in Nat
  OBVIOUS
<1>5. Agree(f, g, n)
  BY <1>3, <1>4, Agreement, Zenon
<1> QED BY <1>5, Zenon DEF Agree, f, g

\* No name is there exactly when no section was entered in a frame.
LEMMA EnteredNone ==
    ASSUME NEW s \in Seq(OpenSet)
    PROVE  /\ (\A k \in 1..Len(s) : s[k].entered = FALSE) => EnteredOf(s)[Len(s)] = <<>>
           /\ EnteredOf(s)[Len(s)] = <<>> => \A k \in 1..Len(s) : s[k].entered = FALSE
<1> DEFINE f == EnteredOf(s)
           None(n) == \A k \in 1..n : s[k].entered = FALSE
           T == {n \in Nat : n <= Len(s) => (None(n) <=> f[n] = <<>>)}
<1>1. IsEntered(f, s)
  BY EnteredIs, Zenon
<1> HIDE DEF f
<1>2. 0 \in T
  <2>1. f[0] = <<>>
    BY <1>1, Zenon DEF IsEntered
  <2> QED BY <2>1
<1>3. ASSUME NEW n \in T PROVE n + 1 \in T
  <2>1. n \in Nat /\ n + 1 \in Nat /\ (n <= Len(s) => (None(n) <=> f[n] = <<>>))
    OBVIOUS
  <2> SUFFICES ASSUME n + 1 <= Len(s) PROVE None(n + 1) <=> f[n + 1] = <<>>
    BY <2>1
  <2>2. Len(s) \in Nat /\ n <= Len(s) /\ n + 1 \in 1..Len(s) /\ (n + 1) - 1 = n /\ n \in 0..Len(s)
    BY <2>1
  <2>3. s[n + 1] \in OpenSet
    BY <2>2
  <2>4. s[n + 1].entered = TRUE \/ s[n + 1].entered = FALSE
    BY <2>3, Zenon DEF OpenSet
  <2>5. None(n + 1) <=> None(n) /\ s[n + 1].entered = FALSE
    <3>1. \A k \in 1..(n + 1) : k \in 1..n \/ k = n + 1
      BY <2>1
    <3>2. \A k \in 1..n : k \in 1..(n + 1)
      BY <2>1
    <3>3. n + 1 \in 1..(n + 1)
      BY <2>1
    <3> QED BY <3>1, <3>2, <3>3, Zenon
  <2>6. CASE s[n + 1].entered = TRUE
    <3>1. f[n + 1] = Append(f[n], s[n + 1].name)
      BY <1>1, <2>2, <2>6, Zenon DEF IsEntered
    <3>2. f[n] \in Seq(SomeNames)
      BY <1>1, <2>2 DEF IsEntered
    <3>3. f[n + 1] /= <<>>
      <4> DEFINE v == f[n]
                 x == s[n + 1].name
      <4> HIDE DEF v, x
      <4>1. Append(v, x) /= <<>>
        BY <3>2 DEF v
      <4> QED BY <3>1, <4>1, Zenon DEF v, x
    <3> QED BY <2>5, <2>6, <3>3, Zenon
  <2>7. CASE s[n + 1].entered = FALSE
    <3>1. f[n + 1] = f[n]
      BY <1>1, <2>2, <2>7, Zenon DEF IsEntered
    <3> QED BY <2>1, <2>2, <2>5, <2>7, <3>1, Zenon
  <2> QED BY <2>4, <2>6, <2>7, Zenon
<1> HIDE DEF T
<1>4. T = Nat
  <2>1. T \in SUBSET Nat
    BY DEF T
  <2> QED BY <2>1, <1>2, <1>3, Induction
<1>5. Len(s) \in Nat
  OBVIOUS
<1>6. None(Len(s)) <=> f[Len(s)] = <<>>
  BY <1>4, <1>5 DEF T
<1> QED BY <1>6, Zenon DEF f

-----------------------------------------------------------------------------
(* The invariant of the profiler. *)

ProfTypes ==
    /\ Grown(tree) /\ prevTree \in Seq(NodeSet) /\ profs \in Seq(OpenSet)
    /\ DOMAIN sections \subseteq Prof!Hashes /\ curHash \in Prof!Hashes
    /\ frame \in 0..MaxFrames /\ Len(profs) <= MaxDepth
    /\ active \in BOOLEAN /\ spoiled \in BOOLEAN /\ curNode \in 0..Len(tree)

\* The sections of the nodes of a frame are of that frame, so that the next one keeps them.
NodesHaveSections ==
    /\ frame >= 1 => \A k \in 1..Len(tree) :
         tree[k].pSection \in DOMAIN sections /\ sections[tree[k].pSection].uFrame = frame
    /\ frame >= 2 => \A k \in 1..Len(prevTree) : prevTree[k].pSection \in DOMAIN sections

\* A section that was entered in a frame goes back to the node of those below it.
GoesBack(k) ==
    IF profs[k].entered = TRUE
    THEN /\ active = TRUE /\ profs[k].prevNode \in 1..Len(tree)
         /\ profs[k].prevHash = tree[profs[k].prevNode].pSection
         /\ WayOf(tree)[profs[k].prevNode] = EnteredOf(profs)[k - 1]
    ELSE profs[k].prevNode = 0

\* What holds at any time: outside a frame no section is open that was entered in one; in it
\* the current node is at the end of the way of the open sections.  When a section has been left
\* that was not entered in the frame there is no current node, and the profiler does no more.
ProfInv ==
    /\ ProfTypes /\ NodesHaveSections
    /\ active = FALSE => curNode = 0 /\ spoiled = FALSE
    /\ spoiled = TRUE => curNode = 0
    /\ spoiled = FALSE => \A k \in 1..Len(profs) : GoesBack(k)
    /\ active = TRUE /\ spoiled = FALSE =>
         /\ curNode \in 1..Len(tree) /\ curHash = tree[curNode].pSection
         /\ WayOf(tree)[curNode] = EnteredOf(profs)[Len(profs)]

LEMMA ProfInitially == ASSUME ProfConstants, Prof!Init PROVE ProfInv
<1> DEFINE node == Prof!Node(NoSection, 0, RootName)
<1>1. /\ active = FALSE /\ frame = 0 /\ sections = [h \in {} |-> h] /\ tree = <<node>> /\ prevTree = tree
      /\ curNode = 0 /\ curHash = {} /\ profs = <<>> /\ spoiled = FALSE
  BY DEF Prof!Init, Prof!Null
<1>2. node \in NodeSet
  BY DEF NodeSet, Prof!Node, SomeNames
<1> HIDE DEF node
<1>3. ProfTypes
  <2>1. Grown(tree) /\ curNode \in 0..Len(tree)
    BY <1>1, <1>2 DEF ProfConstants, Grown
  <2>2. /\ prevTree \in Seq(NodeSet) /\ profs \in Seq(OpenSet)
        /\ Len(profs) <= MaxDepth /\ frame \in 0..MaxFrames
    BY <1>1, <1>2 DEF ProfConstants
  <2>3. DOMAIN sections = {} /\ curHash \in Prof!Hashes /\ active \in BOOLEAN /\ spoiled \in BOOLEAN
    BY <1>1, Zenon DEF Prof!Hashes
  <2> QED BY <2>1, <2>2, <2>3 DEF ProfTypes
<1>4. NodesHaveSections
  BY <1>1 DEF NodesHaveSections
<1>5. \A k \in 1..Len(profs) : FALSE
  BY <1>1
<1> QED BY <1>1, <1>3, <1>4, <1>5, Zenon DEF ProfInv

LEMMA ProfStays == ASSUME ProfInv, UNCHANGED profVars PROVE ProfInv'
<1>1. /\ active' = active /\ frame' = frame /\ sections' = sections /\ tree' = tree
      /\ prevTree' = prevTree /\ curNode' = curNode /\ curHash' = curHash /\ profs' = profs
      /\ spoiled' = spoiled
  BY Zenon DEF profVars
<1>2. ProfTypes'
  BY <1>1, Zenon DEF ProfInv, ProfTypes
<1>3. NodesHaveSections'
  BY <1>1, Zenon DEF ProfInv, NodesHaveSections
<1>4. \A k : GoesBack(k)' <=> GoesBack(k)
  BY <1>1, Zenon DEF GoesBack
<1>5. WayOf(tree') = WayOf(tree) /\ EnteredOf(profs') = EnteredOf(profs)
  BY <1>1, Zenon
<1> QED BY <1>1, <1>2, <1>3, <1>4, <1>5, Zenon DEF ProfInv

LEMMA XorIsHash ==
    ASSUME NEW h \in Prof!Hashes, NEW name \in SomeNames PROVE Prof!Xor(h, name) \in Prof!Hashes
BY DEF Prof!Xor, Prof!Hashes, SomeNames

LEMMA BeginKeeps == ASSUME ProfConstants, ProfInv, Prof!Begin PROVE ProfInv'
<1> DEFINE h == {RootName}
<1>1. /\ active = FALSE /\ frame < MaxFrames /\ active' = TRUE /\ frame' = frame + 1 /\ curHash' = h
      /\ prevTree' = tree /\ tree' = <<Prof!Node(h, 0, RootName)>> /\ curNode' = 1
      /\ profs' = profs /\ spoiled' = spoiled
  <2>1. ~active /\ active \in BOOLEAN
    BY Zenon DEF Prof!Begin, ProfInv, ProfTypes
  <2>2. curHash' = h /\ tree' = <<Prof!Node(curHash', 0, RootName)>>
    BY Zenon DEF Prof!Begin, Prof!Null
  <2>3. tree' = <<Prof!Node(h, 0, RootName)>>
    BY <2>2
  <2> QED BY <2>1, <2>2, <2>3, Zenon DEF Prof!Begin, Prof!Root
<1>2. ProfTypes /\ NodesHaveSections /\ spoiled = FALSE /\ \A k \in 1..Len(profs) : GoesBack(k)
  BY <1>1, Zenon DEF ProfInv
<1>3. h \in Prof!Hashes
  BY DEF Prof!Hashes
<1>4. Prof!Node(h, 0, RootName) \in NodeSet /\ Prof!Node(h, 0, RootName).pSection = h
  BY <1>3 DEF Prof!Node, NodeSet, SomeNames
<1>5. sections' = [g \in (DOMAIN sections \ Prof!Old) \cup {h} |->
          IF g = h THEN [name |-> RootName, uFrame |-> frame + 1] ELSE sections[g]]
  BY <1>1, Zenon DEF Prof!Begin
<1>6. DOMAIN sections' = (DOMAIN sections \ Prof!Old) \cup {h} /\ sections'[h].uFrame = frame + 1
  BY <1>5
<1> HIDE DEF h
<1>7. ProfTypes'
  <2>1. Grown(tree') /\ curNode' \in 0..Len(tree')
    BY <1>1, <1>4 DEF Grown, ProfConstants
  <2>2. prevTree' \in Seq(NodeSet)
    BY <1>1, <1>2 DEF ProfTypes, Grown
  <2>3. profs' \in Seq(OpenSet) /\ Len(profs') <= MaxDepth
    BY <1>1, <1>2, Zenon DEF ProfTypes
  <2>4. DOMAIN sections' \subseteq Prof!Hashes /\ curHash' \in Prof!Hashes
    BY <1>1, <1>2, <1>3, <1>6 DEF ProfTypes
  <2>5. frame' \in 0..MaxFrames
    BY <1>1, <1>2 DEF ProfTypes, ProfConstants
  <2>6. active' \in BOOLEAN /\ spoiled' \in BOOLEAN
    BY <1>1, <1>2, Zenon DEF ProfTypes
  <2> QED BY <2>1, <2>2, <2>3, <2>4, <2>5, <2>6, Zenon DEF ProfTypes
<1>8. NodesHaveSections'
  <2>1. Len(tree') = 1 /\ tree'[1].pSection = h
    BY <1>1, <1>4
  <2>2. ASSUME NEW k \in 1..Len(tree')
        PROVE  tree'[k].pSection \in DOMAIN sections' /\ sections'[tree'[k].pSection].uFrame = frame'
    <3>1. k = 1
      BY <2>1
    <3> QED BY <1>1, <1>6, <2>1, <3>1
  <2>3. ASSUME frame' >= 2, NEW k \in 1..Len(prevTree') PROVE prevTree'[k].pSection \in DOMAIN sections'
    <3> frame >= 1
      BY <1>1, <1>2, <2>3 DEF ProfTypes, ProfConstants
    <3>1. tree[k].pSection \in DOMAIN sections /\ sections[tree[k].pSection].uFrame = frame
      BY <1>1, <1>2, Zenon DEF NodesHaveSections
    <3>2. tree[k].pSection \in DOMAIN sections \ Prof!Old
      BY <3>1, Zenon DEF Prof!Old
    <3> QED BY <1>1, <1>6, <3>2
  <2> QED BY <2>2, <2>3, Zenon DEF NodesHaveSections
<1>9. \A k \in 1..Len(profs) : profs[k] \in OpenSet /\ profs[k].entered = FALSE
  <2>1. \A k \in 1..Len(profs) : profs[k] \in OpenSet
    BY <1>2 DEF ProfTypes
  <2>2. \A k \in 1..Len(profs) : ~ (profs[k].entered = TRUE)
    BY <1>1, <1>2, Zenon DEF GoesBack
  <2> QED BY <2>1, <2>2, Zenon DEF OpenSet
<1>10. ASSUME NEW k \in 1..Len(profs') PROVE GoesBack(k)'
  BY <1>1, <1>2, <1>9, Zenon DEF GoesBack
<1>11. EnteredOf(profs')[Len(profs')] = <<>>
  <2>1. profs \in Seq(OpenSet)
    BY <1>2, Zenon DEF ProfTypes
  <2> QED BY <1>1, <1>9, <2>1, EnteredNone, Zenon
<1>12. WayOf(tree')[1] = <<>>
  BY <1>7, WayIs, Zenon DEF ProfTypes, IsWay
<1>13. 1 \in 1..Len(tree') /\ tree'[1].pSection = h
  BY <1>1, <1>4
<1> QED BY <1>1, <1>2, <1>7, <1>8, <1>10, <1>11, <1>12, <1>13, Zenon DEF ProfInv

LEMMA EndKeeps == ASSUME ProfConstants, ProfInv, Prof!End PROVE ProfInv'
<1>1. /\ active = TRUE /\ curNode = 1 /\ active' = FALSE /\ curNode' = 0
      /\ frame' = frame /\ sections' = sections /\ tree' = tree /\ prevTree' = prevTree
      /\ curHash' = curHash /\ profs' = profs /\ spoiled' = spoiled
  <2>1. active /\ active \in BOOLEAN
    BY Zenon DEF Prof!End, ProfInv, ProfTypes
  <2> QED BY <2>1, Zenon DEF Prof!End, Prof!Root, Prof!Null
<1>2. ProfTypes /\ NodesHaveSections /\ spoiled = FALSE
  <2>1. spoiled \in BOOLEAN /\ ~ (spoiled = TRUE)
    <3>1. 1 /= 0
      OBVIOUS
    <3> QED BY <1>1, <3>1, Zenon DEF ProfInv, ProfTypes
  <2> QED BY <2>1, Zenon DEF ProfInv
<1>3. WayOf(tree)[1] = EnteredOf(profs)[Len(profs)] /\ \A k \in 1..Len(profs) : GoesBack(k)
  BY <1>1, <1>2, Zenon DEF ProfInv
<1>4. WayOf(tree)[1] = <<>>
  BY <1>2, WayIs, Zenon DEF ProfTypes, IsWay
<1>5. \A k \in 1..Len(profs) : profs[k].entered = FALSE
  BY <1>2, <1>3, <1>4, EnteredNone, Zenon DEF ProfTypes
<1>6. ASSUME NEW k \in 1..Len(profs') PROVE GoesBack(k)'
  BY <1>1, <1>3, <1>5, Zenon DEF GoesBack
<1>7. 0 \in 0..Len(tree)
  BY <1>2 DEF ProfTypes, Grown
<1>8. ProfTypes'
  BY <1>1, <1>2, <1>7, Zenon DEF ProfTypes
<1>9. NodesHaveSections'
  BY <1>1, <1>2, Zenon DEF NodesHaveSections
<1> QED BY <1>1, <1>2, <1>6, <1>8, <1>9, Zenon DEF ProfInv

\* A section that is entered, in a frame or not, does not change what those below it go back to.
LEMMA SectionsBelow ==
    ASSUME ProfConstants, ProfTypes, ProfTypes', NEW node, tree' = tree \/ tree' = Append(tree, node),
           active' = active, NEW open, profs' = Append(profs, open),
           NEW k \in 1..Len(profs), GoesBack(k)
    PROVE  GoesBack(k)'
<1>1. /\ profs \in Seq(OpenSet) /\ profs' \in Seq(OpenSet)
      /\ Grown(tree) /\ Grown(tree') /\ Len(profs) \in Nat
  BY DEF ProfTypes
<1>2. \A j \in 1..Len(profs) : profs'[j] = profs[j]
  BY <1>1
<1>3. Len(profs) <= Len(profs') /\ Len(profs) <= Len(profs) /\ k - 1 \in 0..Len(profs)
  <2>1. Len(profs') = Len(profs) + 1
    BY <1>1
  <2> QED BY <1>1, <2>1
<1>4. EnteredOf(profs')[k - 1] = EnteredOf(profs)[k - 1]
  BY <1>1, <1>2, <1>3, EnteredBelow, Zenon
<1>5. \A j \in 0..Len(tree) : WayOf(tree')[j] = WayOf(tree)[j]
  <2>1. CASE tree' = tree
    BY <2>1, Zenon
  <2>2. CASE tree' = Append(tree, node)
    <3>1. Grown(Append(tree, node))
      BY <1>1, <2>2, Zenon
    <3>2. \A j \in 0..Len(tree) : WayOf(Append(tree, node))[j] = WayOf(tree)[j]
      BY <1>1, <3>1, WayGrows, Zenon
    <3> QED BY <2>2, <3>2, Zenon
  <2> QED BY <2>1, <2>2
<1>6. ASSUME NEW j \in 1..Len(tree) PROVE j \in 1..Len(tree') /\ tree'[j] = tree[j] /\ j \in 0..Len(tree)
  BY <1>1 DEF Grown
<1>7. profs'[k] = profs[k]
  BY <1>2
<1> QED
  <2>1. CASE profs[k].entered = TRUE
    <3> DEFINE j == profs[k].prevNode
    <3>1. /\ active = TRUE /\ j \in 1..Len(tree) /\ profs[k].prevHash = tree[j].pSection
          /\ WayOf(tree)[j] = EnteredOf(profs)[k - 1]
      BY <2>1, Zenon DEF GoesBack
    <3>2. j \in 1..Len(tree') /\ tree'[j] = tree[j] /\ WayOf(tree')[j] = WayOf(tree)[j]
      BY <1>5, <1>6, <3>1, Zenon
    <3> QED BY <1>4, <1>7, <2>1, <3>1, <3>2, Zenon DEF GoesBack
  <2>2. CASE profs[k].entered /= TRUE
    BY <1>7, <2>2, Zenon DEF GoesBack
  <2> QED BY <2>1, <2>2, Zenon

LEMMA EnterOutsideKeeps == ASSUME ProfConstants, ProfInv, Prof!EnterOutside PROVE ProfInv'
<1>1. PICK name \in SectionNames :
         profs' = Append(profs, [name |-> name, prevNode |-> 0, prevHash |-> {}, entered |-> FALSE])
  BY Zenon DEF Prof!EnterOutside, Prof!Null
<1> DEFINE open == [name |-> name, prevNode |-> 0, prevHash |-> {}, entered |-> FALSE]
<1>2. /\ ~active /\ Len(profs) < MaxDepth /\ active' = active /\ frame' = frame /\ sections' = sections
      /\ tree' = tree /\ prevTree' = prevTree /\ curNode' = curNode /\ curHash' = curHash
      /\ spoiled' = spoiled
  BY Zenon DEF Prof!EnterOutside
<1>3. ProfTypes /\ NodesHaveSections /\ active = FALSE /\ spoiled = FALSE /\ curNode = 0
      /\ \A k \in 1..Len(profs) : GoesBack(k)
  <2>1. active = FALSE
    BY <1>2, Zenon DEF ProfInv, ProfTypes
  <2> QED BY <2>1, Zenon DEF ProfInv
<1>4. open \in OpenSet /\ open.entered = FALSE /\ open.prevNode = 0
  BY DEF OpenSet, Prof!Hashes
<1> HIDE DEF open
<1>5. /\ profs \in Seq(OpenSet) /\ profs' \in Seq(OpenSet) /\ Len(profs') = Len(profs) + 1
      /\ profs'[Len(profs) + 1] = open /\ Len(profs) \in Nat
  BY <1>1, <1>3, <1>4 DEF ProfTypes, open
<1>6. Len(profs') <= MaxDepth
  BY <1>2, <1>5 DEF ProfConstants
<1>7. ProfTypes'
  BY <1>2, <1>3, <1>5, <1>6, Zenon DEF ProfTypes
<1>8. NodesHaveSections'
  BY <1>2, <1>3, Zenon DEF NodesHaveSections
<1>9. ASSUME NEW k \in 1..Len(profs') PROVE GoesBack(k)'
  <2>1. CASE k \in 1..Len(profs)
    <3>1. profs' = Append(profs, open)
      BY <1>1 DEF open
    <3> QED BY <1>2, <1>3, <1>7, <2>1, <3>1, SectionsBelow, Zenon
  <2>2. CASE k \notin 1..Len(profs)
    <3>1. k = Len(profs) + 1
      BY <1>5, <2>2
    <3>2. profs'[k] = open
      BY <1>5, <3>1
    <3>3. open.entered /= TRUE
      BY <1>4, Zenon
    <3> QED BY <1>4, <3>2, <3>3, Zenon DEF GoesBack
  <2> QED BY <2>1, <2>2
<1> QED BY <1>2, <1>3, <1>7, <1>8, <1>9, Zenon DEF ProfInv

LEMMA EnterKeeps == ASSUME ProfConstants, ProfInv, Prof!Enter PROVE ProfInv'
<1>1. PICK name \in SectionNames :
         LET hash == Prof!Xor(curHash, name) IN
         /\ profs' = Append(profs,
                [name |-> name, prevNode |-> curNode, prevHash |-> curHash, entered |-> TRUE])
         /\ curHash' = hash
         /\ sections' = Prof!WithSection(hash,
                [name |-> IF hash \in DOMAIN sections THEN sections[hash].name ELSE name,
                 uFrame |-> frame])
         /\ tree' = Append(tree, Prof!Node(hash, curNode, name))
  BY Zenon DEF Prof!Enter
<1> DEFINE hash == Prof!Xor(curHash, name)
           open == [name |-> name, prevNode |-> curNode, prevHash |-> curHash, entered |-> TRUE]
           node == Prof!Node(hash, curNode, name)
           section == [name |-> IF hash \in DOMAIN sections THEN sections[hash].name ELSE name,
                       uFrame |-> frame]
<1>2. /\ active /\ curNode /= 0 /\ Len(profs) < MaxDepth /\ Len(tree) < MaxNodes /\ active' = active
      /\ frame' = frame /\ prevTree' = prevTree /\ curNode' = Len(tree') /\ spoiled' = spoiled
  BY Zenon DEF Prof!Enter, Prof!Null
<1>3. /\ profs' = Append(profs, open) /\ curHash' = hash /\ tree' = Append(tree, node)
      /\ sections' = Prof!WithSection(hash, section)
  BY <1>1, Zenon
<1>4. ProfTypes /\ NodesHaveSections /\ active = TRUE /\ spoiled = FALSE
      /\ (\A k \in 1..Len(profs) : GoesBack(k))
      /\ curNode \in 1..Len(tree) /\ curHash = tree[curNode].pSection
      /\ WayOf(tree)[curNode] = EnteredOf(profs)[Len(profs)]
  <2>1. active \in BOOLEAN /\ spoiled \in BOOLEAN
    BY Zenon DEF ProfInv, ProfTypes
  <2>2. active = TRUE /\ spoiled = FALSE
    BY <1>2, <2>1, Zenon DEF ProfInv
  <2> QED BY <2>2, Zenon DEF ProfInv
<1>5. hash \in Prof!Hashes
  <2>1. name \in SomeNames /\ curHash \in Prof!Hashes
    BY <1>4 DEF SomeNames, ProfTypes
  <2> QED BY <2>1, XorIsHash, Zenon
<1> HIDE DEF hash
<1>6. DOMAIN sections' = DOMAIN sections \cup {hash} /\ section.uFrame = frame
      /\ \A h \in DOMAIN sections' : sections'[h] = IF h = hash THEN section ELSE sections[h]
  BY <1>3 DEF Prof!WithSection
<1>7. /\ Len(tree) \in Nat /\ Len(profs) \in Nat /\ profs \in Seq(OpenSet) /\ tree \in Seq(NodeSet)
      /\ curHash \in Prof!Hashes /\ curNode \in Nat
  BY <1>4 DEF ProfTypes, Grown
<1>8. /\ open \in OpenSet /\ open.entered = TRUE /\ open.prevNode = curNode
      /\ open.prevHash = curHash /\ open.name = name
  BY <1>7 DEF OpenSet
<1>9. node \in NodeSet /\ node.parent = curNode /\ node.pSection = hash /\ node.made = name
  BY <1>5, <1>7 DEF NodeSet, Prof!Node, SomeNames
<1> HIDE DEF open, node, section
<1>10. /\ tree' \in Seq(NodeSet) /\ Len(tree') = Len(tree) + 1 /\ tree'[Len(tree) + 1] = node
       /\ \A k \in 1..Len(tree) : tree'[k] = tree[k]
  BY <1>3, <1>7, <1>9
<1>11. /\ profs' \in Seq(OpenSet) /\ Len(profs') = Len(profs) + 1 /\ profs'[Len(profs) + 1] = open
       /\ \A k \in 1..Len(profs) : profs'[k] = profs[k]
  BY <1>3, <1>7, <1>8
<1>12. Grown(tree')
  <2>1. ASSUME NEW k \in 2..Len(tree') PROVE tree'[k].parent \in 1..(k - 1)
    <3>1. CASE k = Len(tree) + 1
      BY <1>4, <1>7, <1>9, <1>10, <3>1
    <3>2. CASE k /= Len(tree) + 1
      <4>1. k \in 2..Len(tree) /\ k \in 1..Len(tree)
        BY <1>7, <1>10, <3>2
      <4> QED BY <1>4, <1>10, <4>1, Zenon DEF ProfTypes, Grown
    <3> QED BY <3>1, <3>2
  <2>2. Len(tree') <= MaxNodes
    BY <1>2, <1>7, <1>10 DEF ProfConstants
  <2> QED BY <1>10, <2>1, <2>2, Zenon DEF Grown
<1>13. ProfTypes'
  <2>1. Len(profs') <= MaxDepth
    BY <1>2, <1>7, <1>11 DEF ProfConstants
  <2>2. curNode' \in 0..Len(tree')
    BY <1>2, <1>7, <1>10
  <2>3. DOMAIN sections' \subseteq Prof!Hashes
    BY <1>4, <1>5, <1>6 DEF ProfTypes
  <2> QED BY <1>2, <1>3, <1>4, <1>5, <1>11, <1>12, <2>1, <2>2, <2>3, Zenon DEF ProfTypes
<1>14. NodesHaveSections'
  <2>1. ASSUME NEW h \in DOMAIN sections PROVE h \in DOMAIN sections'
    BY <1>6
  <2>2. ASSUME frame' >= 1, NEW k \in 1..Len(tree')
        PROVE  tree'[k].pSection \in DOMAIN sections' /\ sections'[tree'[k].pSection].uFrame = frame'
    <3>1. CASE k = Len(tree) + 1
      BY <1>2, <1>6, <1>9, <1>10, <3>1
    <3>2. CASE k /= Len(tree) + 1
      <4>1. k \in 1..Len(tree)
        BY <1>7, <1>10, <3>2
      <4>2. tree[k].pSection \in DOMAIN sections /\ sections[tree[k].pSection].uFrame = frame
        BY <1>2, <1>4, <2>2, <4>1, Zenon DEF NodesHaveSections
      <4> QED BY <1>2, <1>6, <1>10, <2>1, <4>1, <4>2, Zenon
    <3> QED BY <3>1, <3>2
  <2>3. ASSUME frame' >= 2, NEW k \in 1..Len(prevTree') PROVE prevTree'[k].pSection \in DOMAIN sections'
    BY <1>2, <1>4, <2>1, <2>3, Zenon DEF NodesHaveSections
  <2> QED BY <2>2, <2>3, Zenon DEF NodesHaveSections
<1>15. /\ \A k \in 0..Len(tree) : WayOf(tree')[k] = WayOf(tree)[k]
       /\ WayOf(tree')[Len(tree) + 1] = Append(WayOf(tree)[curNode], name)
  <2>1. Grown(tree) /\ Grown(Append(tree, node))
    BY <1>3, <1>4, <1>12, Zenon DEF ProfTypes
  <2>2. tree /= <<>>
    BY <1>4, <1>7
  <2>3. /\ \A k \in 0..Len(tree) : WayOf(Append(tree, node))[k] = WayOf(tree)[k]
        /\ WayOf(Append(tree, node))[Len(tree) + 1] = Append(WayOf(tree)[node.parent], node.made)
    BY <2>1, <2>2, WayGrows, Zenon
  <2> QED BY <1>3, <1>9, <2>3, Zenon
<1>16. \A k \in 0..Len(profs) : EnteredOf(profs')[k] = EnteredOf(profs)[k]
  <2>1. Len(profs) <= Len(profs) /\ Len(profs) <= Len(profs')
    BY <1>7, <1>11
  <2> QED BY <1>7, <1>11, <2>1, EnteredBelow, Zenon
<1>17. ASSUME NEW k \in 1..Len(profs') PROVE GoesBack(k)'
  <2>1. CASE k \in 1..Len(profs)
    BY <1>2, <1>3, <1>4, <1>13, <2>1, SectionsBelow, Zenon
  <2>2. CASE k \notin 1..Len(profs)
    <3>1. k = Len(profs) + 1 /\ k - 1 = Len(profs) /\ Len(profs) \in 0..Len(profs)
      BY <1>7, <1>11, <2>2
    <3>2. /\ profs'[k].entered = TRUE /\ profs'[k].prevNode = curNode /\ profs'[k].prevHash = curHash
      BY <1>8, <1>11, <3>1, Zenon
    <3>3. curNode \in 1..Len(tree') /\ curNode \in 0..Len(tree)
      BY <1>4, <1>7, <1>10
    <3>4. WayOf(tree')[curNode] = EnteredOf(profs')[k - 1]
      BY <1>4, <1>15, <1>16, <3>1, <3>3, Zenon
    <3>5. active' = TRUE /\ curHash = tree'[curNode].pSection
      BY <1>2, <1>4, <1>10, Zenon
    <3> QED BY <3>2, <3>3, <3>4, <3>5, Zenon DEF GoesBack
  <2> QED BY <2>1, <2>2
<1>18. WayOf(tree')[curNode'] = EnteredOf(profs')[Len(profs')]
  <2>1. IsEntered(EnteredOf(profs'), profs')
    BY <1>11, EnteredIs, Zenon
  <2>2. /\ Len(profs) + 1 \in 1..Len(profs')
        /\ (Len(profs) + 1) - 1 = Len(profs) /\ Len(profs) \in 0..Len(profs)
    BY <1>7, <1>11
  <2>3. EnteredOf(profs')[Len(profs) + 1] = Append(EnteredOf(profs')[Len(profs)], name)
    BY <1>8, <1>11, <2>1, <2>2, Zenon DEF IsEntered
  <2> QED BY <1>2, <1>4, <1>10, <1>11, <1>15, <1>16, <2>2, <2>3, Zenon
<1>19. curNode' \in 1..Len(tree') /\ curHash' = tree'[curNode'].pSection
  BY <1>2, <1>3, <1>7, <1>9, <1>10
<1> QED BY <1>2, <1>4, <1>13, <1>14, <1>17, <1>18, <1>19, Zenon DEF ProfInv

LEMMA ExitKeeps == ASSUME ProfConstants, ProfInv, Prof!Exit PROVE ProfInv'
<1> DEFINE n == Len(profs)
<1>1. /\ profs /= <<>> /\ (active => curNode /= 0) /\ profs' = Prof!Front(profs) /\ active' = active
      /\ frame' = frame /\ sections' = sections /\ tree' = tree /\ prevTree' = prevTree
      /\ spoiled' = (spoiled \/ (active /\ ~Prof!Last(profs).entered))
  BY Zenon DEF Prof!Exit, Prof!Null
<1>2. ProfTypes /\ NodesHaveSections /\ active \in BOOLEAN
  BY Zenon DEF ProfInv, ProfTypes
<1>3. spoiled = FALSE
  <2>1. spoiled \in BOOLEAN /\ ~ (spoiled = TRUE)
    BY <1>1, <1>2, Zenon DEF ProfInv, ProfTypes
  <2> QED BY <2>1, Zenon
<1>4. \A k \in 1..n : GoesBack(k)
  BY <1>3, Zenon DEF ProfInv
<1>5. profs \in Seq(OpenSet) /\ n \in Nat \ {0} /\ n \in 1..n /\ n - 1 \in Nat /\ n - 1 <= n
  BY <1>1, <1>2 DEF ProfTypes
<1>6. /\ profs' \in Seq(OpenSet) /\ Len(profs') = n - 1 /\ \A k \in 1..(n - 1) : profs'[k] = profs[k]
  <2>1. profs' = [k \in 1..(n - 1) |-> profs[k]]
    <3>1. SubSeq(profs, 1, n - 1) = [k \in 1..(n - 1) |-> profs[k]]
      BY <1>5
    <3> QED BY <1>1, <3>1, Zenon DEF Prof!Front
  <2>2. \A k \in 1..(n - 1) : profs[k] \in OpenSet
    BY <1>5
  <2> HIDE DEF n
  <2> QED BY <1>5, <2>1, <2>2
<1>7. Prof!Last(profs) = profs[n] /\ profs[n] \in OpenSet
  BY <1>5 DEF Prof!Last
<1>8. profs[n].entered \in BOOLEAN
  BY <1>7, Zenon DEF OpenSet
<1>9. \A k \in 0..(n - 1) : EnteredOf(profs')[k] = EnteredOf(profs)[k]
  <2>1. n - 1 <= Len(profs')
    BY <1>5, <1>6
  <2>2. \A k \in 1..(n - 1) : profs[k] = profs'[k]
    BY <1>6
  <2>3. \A k \in 0..(n - 1) : EnteredOf(profs)[k] = EnteredOf(profs')[k]
    BY <1>5, <1>6, <2>1, <2>2, EnteredBelow, Zenon
  <2> QED BY <2>3
<1>10. ASSUME NEW k \in 1..Len(profs') PROVE GoesBack(k)'
  <2>1. k \in 1..n /\ k \in 1..(n - 1) /\ k - 1 \in 0..(n - 1)
    BY <1>5, <1>6
  <2>2. profs'[k] = profs[k] /\ EnteredOf(profs')[k - 1] = EnteredOf(profs)[k - 1] /\ GoesBack(k)
    BY <1>4, <1>6, <1>9, <2>1, Zenon
  <2>3. WayOf(tree') = WayOf(tree)
    BY <1>1, Zenon
  <2> QED BY <1>1, <2>2, <2>3, Zenon DEF GoesBack
<1>11. NodesHaveSections'
  BY <1>1, <1>2, Zenon DEF NodesHaveSections
<1>12. Len(profs') <= MaxDepth
  BY <1>2, <1>5, <1>6 DEF ProfTypes, ProfConstants
<1>13. CASE active = FALSE
  <2>1. curNode' = curNode /\ curHash' = curHash /\ curNode = 0
    BY <1>13, Zenon DEF Prof!Exit, ProfInv
  <2>2. spoiled' = FALSE
    BY <1>1, <1>3, <1>13, Zenon
  <2>3. ProfTypes'
    BY <1>1, <1>2, <1>6, <1>12, <2>1, <2>2, Zenon DEF ProfTypes
  <2> QED BY <1>1, <1>10, <1>11, <1>13, <2>1, <2>2, <2>3, Zenon DEF ProfInv
<1>14. CASE active = TRUE
  <2>1. curNode' = profs[n].prevNode /\ curHash' = profs[n].prevHash
    BY <1>7, <1>14, Zenon DEF Prof!Exit, Prof!Restore
  <2>2. GoesBack(n) /\ profs[n].prevHash \in Prof!Hashes
    BY <1>4, <1>5, <1>7 DEF OpenSet
  <2>3. CASE profs[n].entered = TRUE
    <3>1. spoiled' = FALSE
      BY <1>1, <1>3, <1>7, <2>3, Zenon
    <3>2. /\ curNode' \in 1..Len(tree) /\ curHash' = tree[curNode'].pSection
          /\ WayOf(tree)[curNode'] = EnteredOf(profs)[n - 1]
      BY <2>1, <2>2, <2>3, Zenon DEF GoesBack
    <3>3. curNode' \in 0..Len(tree) /\ n - 1 \in 0..(n - 1)
      BY <1>2, <1>5, <3>2 DEF ProfTypes, Grown
    <3>4. ProfTypes'
      BY <1>1, <1>2, <1>6, <1>12, <2>1, <2>2, <3>1, <3>3, Zenon DEF ProfTypes
    <3>5. WayOf(tree')[curNode'] = EnteredOf(profs')[Len(profs')]
      BY <1>1, <1>6, <1>9, <3>2, <3>3, Zenon
    <3> QED BY <1>1, <1>10, <1>11, <1>14, <3>1, <3>2, <3>4, <3>5, Zenon DEF ProfInv
  <2>4. CASE profs[n].entered = FALSE
    <3>1. spoiled' = TRUE
      BY <1>1, <1>7, <1>14, <2>4, Zenon
    <3>2. curNode' = 0
      BY <2>1, <2>2, <2>4, Zenon DEF GoesBack
    <3>3. 0 \in 0..Len(tree)
      BY <1>2 DEF ProfTypes, Grown
    <3>4. ProfTypes'
      BY <1>1, <1>2, <1>6, <1>12, <2>1, <2>2, <3>1, <3>2, <3>3, Zenon DEF ProfTypes
    <3> QED BY <1>1, <1>11, <1>14, <3>1, <3>2, <3>4, Zenon DEF ProfInv
  <2> QED BY <1>8, <2>3, <2>4, Zenon
<1> QED BY <1>2, <1>13, <1>14, Zenon

LEMMA ProfSteps == ASSUME ProfConstants, ProfInv, [AppNext]_allVars PROVE ProfInv'
<1>1. ASSUME UNCHANGED profVars PROVE ProfInv'
  BY <1>1, ProfStays, Zenon
<1>2. UNCHANGED profVars \/ Prof!Next
  BY Zenon DEF AppNext, allVars, OfLoop, OfFiles, OfProf, profVars
<1> QED
  BY <1>1, <1>2, BeginKeeps, EndKeeps, EnterOutsideKeeps, EnterKeeps, ExitKeeps, Zenon DEF Prof!Next

LEMMA ProfInvMeans == ASSUME ProfConstants, ProfInv PROVE ProfileTree /\ Prof!TypeOK
<1>1. ProfTypes /\ NodesHaveSections
  BY Zenon DEF ProfInv
<1>2. /\ frame >= 1 => \A x \in Prof!Range(tree) : x.pSection \in DOMAIN sections
      /\ frame >= 2 => \A x \in Prof!Range(prevTree) : x.pSection \in DOMAIN sections
  <2>1. tree \in Seq(NodeSet) /\ prevTree \in Seq(NodeSet)
    BY <1>1 DEF ProfTypes, Grown
  <2>2. /\ \A x \in Prof!Range(tree) : \E k \in 1..Len(tree) : x = tree[k]
        /\ \A x \in Prof!Range(prevTree) : \E k \in 1..Len(prevTree) : x = prevTree[k]
    BY <2>1 DEF Prof!Range
  <2> QED BY <1>1, <2>2, Zenon DEF NodesHaveSections
<1>3. ASSUME active, ~spoiled
      PROVE  Prof!Way[curNode] = Prof!Entered[Len(profs)] /\ curHash = tree[curNode].pSection
  <2>1. active = TRUE /\ spoiled = FALSE
    BY <1>1, <1>3, Zenon DEF ProfTypes
  <2> QED BY <2>1, ProfRecursions, Zenon DEF ProfInv
<1>4. ProfileTree
  BY <1>2, <1>3, Zenon DEF ProfileTree, Prof!ProfileTree
<1>5. Prof!TypeOK
  <2>1. (curNode /= 0 => active) /\ (active /\ curNode = 0 => spoiled)
    <3>1. active = TRUE /\ spoiled = FALSE => curNode /= 0
      <4>1. active = TRUE /\ spoiled = FALSE => curNode \in 1..Len(tree)
        BY Zenon DEF ProfInv
      <4> QED BY <1>1, <4>1 DEF ProfTypes, Grown
    <3> QED BY <1>1, <3>1, Zenon DEF ProfInv, ProfTypes
  <2> QED BY <1>1, <2>1, Zenon DEF ProfTypes, Prof!TypeOK, Prof!Null, Grown
<1> QED BY <1>4, <1>5

\* While a frame is open the current node of the profiler is that of the sections that were
\* entered in it and not left yet, with their hash, and from the first begin() on the nodes of
\* this frame, from the second on also those of the last one, have their sections (prof.cpp),
\* for any sections and any number of frames.
THEOREM ProfilerKeepsTree == ASSUME ProfConstants PROVE AppSpec => []ProfileTree
<1>1. AppInit => ProfInv
  BY ProfInitially, Zenon DEF AppInit
<1>2. ProfInv /\ [AppNext]_allVars => ProfInv'
  BY ProfSteps, Zenon
<1>3. ProfInv => ProfileTree
  BY ProfInvMeans, Zenon
<1> QED BY <1>1, <1>2, <1>3, PTL DEF AppSpec
-----------------------------------------------------------------------------
(* All the parts. *)

LEMMA LoopStays == [AppNext]_allVars => [Next]_vars
<1>1. ASSUME UNCHANGED allVars PROVE UNCHANGED vars
  BY <1>1, Zenon DEF allVars
<1>2. ASSUME OfFiles \/ OfProf PROVE UNCHANGED vars
  BY <1>2, Zenon DEF OfFiles, OfProf
<1> QED BY <1>1, <1>2, Zenon DEF AppNext

LEMMA FileTypes == FileProofs!TypeOK => FileSystem!TypeOK
BY Zenon DEF FileProofs!TypeOK, FileSystem!TypeOK

\* The variables of the main loop, of the file system and of the profiler keep their types,
\* whatever the program does with them.
THEOREM AppKeepsTypes ==
    ASSUME ProfConstants, NoItem \notin Posters \cup {Main}
    PROVE  AppSpec => []AppTypes
<1>1. AppInit => LoopInv /\ FileProofs!IInv /\ ProfInv
  BY LoopInitially, SameInit, FileProofs!InvariantInit, ProfInitially DEF AppInit
<1>2. LoopInv /\ [AppNext]_allVars => LoopInv'
  BY LoopStays, LoopSteps, Zenon
<1>3. FileProofs!IInv /\ [AppNext]_allVars => FileProofs!IInv'
  BY FileSteps, FileProofs!InvariantSteps
<1>4. ProfInv /\ [AppNext]_allVars => ProfInv'
  BY ProfSteps, Zenon
<1>5. FileProofs!IInv => FileSystem!TypeOK
  BY FileTypes, Zenon DEF FileProofs!IInv, FileProofs!Types, FileProofs!GroupTypes,
     FileProofs!MutexInv, FileProofs!TypeOK
<1>6. LoopInv /\ FileProofs!IInv /\ ProfInv => AppTypes
  BY <1>5, LoopInvMeans, ProfInvMeans, Zenon DEF AppTypes
<1> QED BY <1>1, <1>2, <1>3, <1>4, <1>6, PTL DEF AppSpec

\* What holds of the main loop by itself also holds of it here: commands leave their buffer
\* once and in order, live items are found, and input threads touch only what exists.
THEOREM AppKeepsLoop == AppSpec => [](CommandsKept /\ LiveItemsFound /\ ReaderUsesLive)
<1>1. AppInit => LoopInv
  BY LoopInitially, Zenon DEF AppInit
<1>2. LoopInv /\ [AppNext]_allVars => LoopInv'
  BY LoopStays, LoopSteps, Zenon
<1>3. LoopInv => CommandsKept /\ LiveItemsFound /\ ReaderUsesLive
  BY QueueKept, RegisteredFound, ReaderHasMutex, Zenon DEF LoopInv
<1> QED BY <1>1, <1>2, <1>3, PTL DEF AppSpec

-----------------------------------------------------------------------------
(* The conversions of numbers, for every width of the types. *)

LEMMA OnlyRemainder ==
    ASSUME NEW a \in Int, NEW n \in Nat \ {0}, NEW q \in Int, NEW r \in 0..(n - 1), a = n * q + r
    PROVE  a % n = r
<1> DEFINE m == a % n
<1>1. m \in 0..(n - 1) /\ \E d \in Int : a = n * d + m
  BY Division
<1> HIDE DEF m
<1>2. PICK d \in Int : a = n * d + m
  BY <1>1
<1>3. n * d \in Int /\ n * q \in Int /\ n * (d + 1) = n * d + n /\ n * (q + 1) = n * q + n
  BY TimesNext
<1>4. d + 1 <= q => n * (d + 1) <= n * q
  BY TimesMore
<1>5. q + 1 <= d => n * (q + 1) <= n * d
  BY TimesMore
<1>6. d = q
  BY <1>1, <1>2, <1>3, <1>4, <1>5
<1>7. m = r
  BY <1>1, <1>2, <1>3, <1>6
<1> QED BY <1>7 DEF m

\* What powers are: the provers have no definition of them.
PowersOfTwo ==
    /\ 2 ^ 1 = 2
    /\ \A m, n \in Nat : 2 ^ m \in Nat \ {0} /\ 2 ^ (m + n) = 2 ^ m * 2 ^ n

IntegerTypes == {"short", "ushort", "int", "uint", "long", "ulong"}

\* The numbers of values of a type, and of its negative ones if it has a sign.
ValueCount(type) == 2 ^ Width[type]

Half(type) == 2 ^ (Width[type] - 1)

LEMMA Halves ==
    ASSUME PowersOfTwo, NEW type \in IntegerTypes
    PROVE  ValueCount(type) \in Nat \ {0} /\ Half(type) \in Nat \ {0} /\ ValueCount(type) = 2 * Half(type)
<1> DEFINE m == Width[type] - 1
<1>1. m \in Nat /\ 1 \in Nat /\ Width[type] = m + 1
  BY WidthAssumption DEF IntegerTypes
<1> HIDE DEF m
<1>2. 2 ^ m \in Nat \ {0} /\ 2 ^ (m + 1) = 2 ^ m * 2 ^ 1 /\ 2 ^ 1 = 2
  BY <1>1, Zenon DEF PowersOfTwo
<1>3. Half(type) = 2 ^ m /\ ValueCount(type) = 2 ^ (m + 1)
  BY <1>1, Zenon DEF Half, ValueCount, m
<1> DEFINE h == 2 ^ m
<1>4. h \in Nat \ {0} /\ ValueCount(type) = h * 2 /\ Half(type) = h
  BY <1>2, <1>3, Zenon
<1> HIDE DEF h
<1> QED BY <1>4

LEMMA ValuesGrow ==
    ASSUME PowersOfTwo, NEW small \in IntegerTypes, NEW large \in IntegerTypes, Width[small] <= Width[large]
    PROVE  Half(small) <= Half(large) /\ ValueCount(small) <= ValueCount(large)
<1> DEFINE m == Width[small]  d == Width[large] - Width[small]
<1>1. m \in Nat /\ d \in Nat /\ Width[large] = m + d
  BY WidthAssumption DEF IntegerTypes
<1> HIDE DEF d
<1>2. 2 ^ d \in Nat \ {0} /\ 2 ^ m \in Nat \ {0} /\ 2 ^ (m + d) = 2 ^ m * 2 ^ d
  BY <1>1, Zenon DEF PowersOfTwo
<1> DEFINE k == 2 ^ d
<1>3. k \in Nat \ {0} /\ ValueCount(large) = ValueCount(small) * k
  BY <1>1, <1>2, Zenon DEF ValueCount
<1> HIDE DEF k, m
<1>4. /\ ValueCount(small) \in Nat \ {0} /\ ValueCount(small) = 2 * Half(small) /\ Half(small) \in Nat
      /\ ValueCount(large) \in Nat \ {0} /\ ValueCount(large) = 2 * Half(large) /\ Half(large) \in Nat
  BY Halves
<1>5. ValueCount(small) * 1 <= ValueCount(small) * k
  BY <1>3, <1>4, TimesMore
<1> QED BY <1>3, <1>4, <1>5

LEMMA Ranges ==
    /\ \A type \in {"short", "int", "long"} :
         Conversions!RangeOf(type) = -Half(type) .. Half(type) - 1
    /\ \A type \in {"ushort", "uint", "ulong"} :
         Conversions!RangeOf(type) = 0 .. ValueCount(type) - 1
    /\ Conversions!RangeOf("bool") = 0..1
BY DEF Conversions!RangeOf, Conversions!Signed, Conversions!Unsigned, Half, ValueCount

LEMMA RangesAreInts ==
    ASSUME PowersOfTwo, NEW type \in Conversions!Types
    PROVE  Conversions!RangeOf(type) \subseteq Int /\ 0 \in Conversions!RangeOf(type)
<1> DEFINE h == Half(type)  n == ValueCount(type)
<1>1. CASE type \in {"short", "int", "long"}
  <2>1. Conversions!RangeOf(type) = -h .. h - 1
    BY <1>1, Ranges, Zenon
  <2>2. h \in Nat \ {0}
    BY <1>1, Halves DEF IntegerTypes
  <2> HIDE DEF h
  <2> QED BY <2>1, <2>2
<1>2. CASE type \in {"ushort", "uint", "ulong"}
  <2>1. Conversions!RangeOf(type) = 0 .. n - 1
    BY <1>2, Ranges, Zenon
  <2>2. n \in Nat \ {0}
    BY <1>2, Halves DEF IntegerTypes
  <2> HIDE DEF n
  <2> QED BY <2>1, <2>2
<1>3. CASE type = "bool"
  BY <1>3, Ranges
<1> QED BY <1>1, <1>2, <1>3 DEF Conversions!Types

\* An assignment to a narrower type does not change the numbers that the type has.
LEMMA NarrowRight ==
    ASSUME PowersOfTwo, NEW type \in IntegerTypes, NEW n \in Int
    PROVE  /\ Conversions!Narrow(n, type) \in Int
           /\ n \in Conversions!RangeOf(type) => Conversions!Narrow(n, type) = n
<1> DEFINE N == ValueCount(type)
           h == Half(type)
           m == n % N
           R == Conversions!RangeOf(type)
           new == Conversions!Narrow(n, type)
<1>1. N \in Nat \ {0} /\ h \in Nat \ {0} /\ N = 2 * h
  BY Halves
<1>2. m \in 0..(N - 1)
  <2> HIDE DEF N
  <2> QED BY <1>1, Division
<1>3. new = IF m \in R THEN m ELSE m - N
  BY Zenon DEF Conversions!Narrow, ValueCount
<1>4. type \in {"short", "int", "long"} => R = -h .. h - 1
  BY Ranges, Zenon
<1>5. type \in {"ushort", "uint", "ulong"} => R = 0 .. N - 1
  BY Ranges, Zenon
<1>6. ASSUME NEW q \in Int, NEW r \in 0..(N - 1), n = N * q + r PROVE m = r
  <2> HIDE DEF N
  <2> QED BY <1>1, <1>6, OnlyRemainder
<1> HIDE DEF N, h, m, R, new
<1>7. N * 0 = 0 /\ N * (-1) = -N
  BY <1>1
<1>8. new \in Int
  BY <1>1, <1>2, <1>3
<1>9. CASE type \in {"ushort", "uint", "ulong"}
  <2>1. R = 0 .. N - 1
    BY <1>5, <1>9
  <2>2. n \in R => m = n
    BY <1>1, <1>6, <1>7, <2>1
  <2> QED BY <1>3, <1>8, <2>2 DEF R, new
<1>10. CASE type \in {"short", "int", "long"}
  <2>1. R = -h .. h - 1
    BY <1>4, <1>10
  <2>2. n \in R /\ n >= 0 => m = n
    BY <1>1, <1>6, <1>7, <2>1
  <2>3. n \in R /\ n < 0 => m = n + N /\ m \notin R
    <3>1. n \in R /\ n < 0 => n + N \in 0..(N - 1) /\ n = N * (-1) + (n + N) /\ n + N \notin R
      BY <1>1, <1>7, <2>1
    <3> QED BY <1>6, <3>1
  <2>4. n \in R => new = n
    BY <1>1, <1>3, <2>2, <2>3
  <2> QED BY <1>8, <2>4 DEF R, new
<1> QED BY <1>9, <1>10 DEF IntegerTypes

LEMMA NeverOutOfRange ==
    ASSUME PowersOfTwo, NEW type \in Conversions!Types, NEW n \in Int
    PROVE  ~Conversions!OutOfRange(n, type)
<1>1. 0 \in Conversions!RangeOf(type)
  BY RangesAreInts
<1>2. ~(n < 0 /\ n > 0)
  OBVIOUS
<1> QED BY <1>1, <1>2, Zenon DEF Conversions!OutOfRange

\* A text for a number: the number is that of the digits or its negative one.
IsText(w) ==
    /\ w.digits \in Nat \cup {Conversions!NoDigits}
    /\ Conversions!Number(w) \in Int
    /\ w.digits \in Nat =>
         Conversions!Number(w) = w.digits \/ Conversions!Number(w) = -w.digits

LEMMA SignedIsText ==
    ASSUME NEW w, w.digits \in Nat
    PROVE  /\ IsText(w)
           /\ Conversions!Number(w) = IF w.sign = "-" THEN -w.digits ELSE w.digits
<1> DEFINE d == w.digits  n == Conversions!Number(w)
<1>1. n = IF w.sign = "-" THEN -d ELSE d
  BY Zenon DEF Conversions!Number
<1>2. n = d \/ n = -d
  BY <1>1, Zenon
<1> HIDE DEF d, n
<1>3. d \in Nat /\ n \in Int
  BY <1>2 DEF d
<1> QED BY <1>1, <1>2, <1>3, Zenon DEF IsText, d, n

LEMMA WrittenIsText == ASSUME NEW w \in Conversions!Written PROVE IsText(w)
<1>1. w.digits \in {-1} \cup 0..MaxDigits
  BY Zenon DEF Conversions!Written, Conversions!NoDigits
<1>2. w.digits = -1 \/ w.digits \in Nat
  BY <1>1
<1>3. CASE w.digits = -1
  BY <1>3 DEF IsText, Conversions!Number, Conversions!NoDigits
<1>4. CASE w.digits \in Nat
  BY <1>4, SignedIsText
<1> QED BY <1>2, <1>3, <1>4

LEMMA PrintedIsText ==
    ASSUME NEW n \in Int, NEW w, w = Conversions!ConvertValToString(n)
    PROVE  IsText(w) /\ w.digits \in Nat /\ Conversions!Number(w) = n
<1>1. CASE n < 0
  <2>1. w.sign = "-" /\ w.digits = -n
    BY <1>1 DEF Conversions!ConvertValToString
  <2>2. w.digits \in Nat /\ -(-n) = n
    BY <1>1, <2>1
  <2> QED BY <2>1, <2>2, SignedIsText
<1>2. CASE ~(n < 0)
  <2>1. w.sign /= "-"
    BY <1>2, Zenon DEF Conversions!ConvertValToString
  <2>2. w.digits = n
    BY <1>2, Zenon DEF Conversions!ConvertValToString
  <2>3. w.digits \in Nat
    BY <1>2, <2>2
  <2> QED BY <2>1, <2>2, <2>3, SignedIsText
<1> QED BY <1>1, <1>2

\* What a text is converted to: the number itself if the type has it, and nothing if there is
\* no number.
Good(c, type, w) ==
    /\ c.ok \in BOOLEAN /\ c.val \in Int
    /\ c.ok => w.digits \in Nat
    /\ w.digits \in Nat /\ Conversions!Number(w) \in Conversions!RangeOf(type) =>
         c = Conversions!Converted(Conversions!Number(w))

LEMMA Outcomes ==
    /\ Conversions!Failed.ok = FALSE /\ Conversions!Failed.val = 0
    /\ \A n : Conversions!Converted(n).ok = TRUE /\ Conversions!Converted(n).val = n
BY DEF Conversions!Failed, Conversions!Converted

LEMMA FailedIsGood ==
    ASSUME NEW type, NEW w, ~(w.digits \in Nat /\ Conversions!Number(w) \in Conversions!RangeOf(type))
    PROVE  Good(Conversions!Failed, type, w)
<1> DEFINE c == Conversions!Failed
<1>1. c.ok = FALSE /\ c.val = 0
  BY Outcomes, Zenon
<1>2. c.val \in Int
  BY <1>1
<1> HIDE DEF c
<1>3. c.ok \in BOOLEAN /\ ~c.ok
  BY <1>1, Zenon
<1>4. Good(c, type, w)
  BY <1>2, <1>3, Zenon DEF Good
<1> QED BY <1>4 DEF c

LEMMA ConvertedIsGood ==
    ASSUME PowersOfTwo, NEW type \in IntegerTypes, NEW w, Conversions!Number(w) \in Int, w.digits \in Nat
    PROVE  Good(Conversions!Converted(Conversions!Narrow(Conversions!Number(w), type)), type, w)
<1> DEFINE n == Conversions!Number(w)  v == Conversions!Narrow(n, type)  c == Conversions!Converted(v)
<1>1. v \in Int /\ (n \in Conversions!RangeOf(type) => v = n)
  BY NarrowRight
<1>2. c.ok = TRUE /\ c.val = v
  BY Outcomes, Zenon
<1>3. n \in Conversions!RangeOf(type) => c = Conversions!Converted(n)
  BY <1>1
<1> HIDE DEF n, v, c
<1> QED BY <1>1, <1>2, <1>3 DEF Good, n, v, c

LEMMA StoRight ==
    ASSUME PowersOfTwo, NEW w, IsText(w), NEW type \in {"int", "long", "ulong"}
    PROVE  Good(Conversions!Sto(type, w), type, w)
<1> DEFINE n == Conversions!Number(w)
<1>1. CASE w.digits = Conversions!NoDigits
  <2>1. Conversions!Sto(type, w) = Conversions!Failed
    BY <1>1 DEF Conversions!Sto
  <2>2. w.digits \notin Nat
    BY <1>1 DEF Conversions!NoDigits
  <2> QED BY <2>1, <2>2, FailedIsGood
<1>2. CASE w.digits /= Conversions!NoDigits /\ type \in {"int", "long"}
  <2>1. Conversions!Sto(type, w) = IF n \in Conversions!RangeOf(type) THEN Conversions!Converted(n)
                                   ELSE Conversions!Failed
    BY <1>2 DEF Conversions!Sto
  <2>2. n \in Int /\ w.digits \in Nat
    BY <1>2 DEF IsText
  <2>3. n \in Conversions!RangeOf(type) => Conversions!Narrow(n, type) = n
    BY <2>2, NarrowRight DEF IntegerTypes
  <2> QED BY <2>1, <2>2, <2>3, FailedIsGood, ConvertedIsGood DEF IntegerTypes
<1>3. CASE w.digits /= Conversions!NoDigits /\ type = "ulong"
  <2>1. Conversions!Sto(type, w) =
          IF w.digits \in Conversions!RangeOf(type) THEN Conversions!Converted(Conversions!Narrow(n, type))
          ELSE Conversions!Failed
    BY <1>3 DEF Conversions!Sto
  <2>2. n \in Int /\ w.digits \in Nat /\ (n = w.digits \/ n = -w.digits)
    BY <1>3 DEF IsText
  <2>3. n \in Conversions!RangeOf(type) => w.digits \in Conversions!RangeOf(type)
    <3> DEFINE d == w.digits  N == ValueCount(type)
    <3>1. Conversions!RangeOf(type) = 0 .. N - 1
      BY <1>3, Ranges, Zenon
    <3> HIDE DEF d, n, N
    <3>2. d \in Nat /\ (n = d \/ n = -d)
      BY <2>2 DEF d
    <3>3. n \in 0 .. N - 1 => n = d
      BY <3>2
    <3> QED BY <3>1, <3>3 DEF d
  <2> QED BY <2>1, <2>2, <2>3, FailedIsGood, ConvertedIsGood DEF IntegerTypes
<1> QED BY <1>1, <1>2, <1>3

\* What the standard library converts is in the range of the type, for a type that it checks.
LEMMA StoChecked ==
    ASSUME NEW w, NEW type \in Conversions!Checked(w), Conversions!Sto(type, w).ok
    PROVE  Conversions!Number(w) \in Conversions!RangeOf(type)
<1> DEFINE n == Conversions!Number(w)  R == Conversions!RangeOf(type)
<1>1. Conversions!Sto(type, w) /= Conversions!Failed
  <2>1. Conversions!Sto(type, w).ok /= Conversions!Failed.ok
    BY Outcomes, Zenon
  <2> QED BY <2>1
<1>2. w.digits /= Conversions!NoDigits
  BY <1>1 DEF Conversions!Sto
<1>3. CASE type \in {"int", "long"}
  <2>1. Conversions!Sto(type, w) = IF n \in R THEN Conversions!Converted(n) ELSE Conversions!Failed
    BY <1>2, <1>3 DEF Conversions!Sto
  <2> QED BY <1>1, <2>1, Zenon
<1>4. CASE type = "ulong" /\ w.sign = ""
  <2>1. Conversions!Sto(type, w) =
          IF w.digits \in R THEN Conversions!Converted(Conversions!Narrow(n, type)) ELSE Conversions!Failed
    BY <1>2, <1>4 DEF Conversions!Sto
  <2>2. w.digits \in R
    BY <1>1, <2>1, Zenon
  <2>3. w.sign /= "-"
    BY <1>4
  <2>4. n = w.digits
    BY <2>3, Zenon DEF Conversions!Number
  <2> QED BY <2>2, <2>4, Zenon
<1> QED BY <1>3, <1>4 DEF Conversions!Checked

\* Every number of the one type is one of the other.
LEMMA RangesGrow ==
    ASSUME PowersOfTwo, NEW large, NEW small,
           <<small, large>> \in {<<"short", "int">>, <<"ushort", "uint">>, <<"uint", "ulong">>}
    PROVE  /\ small \in IntegerTypes /\ large \in IntegerTypes /\ Width[small] <= Width[large]
           /\ Conversions!RangeOf(small) \subseteq Conversions!RangeOf(large)
<1>1. /\ small \in IntegerTypes /\ large \in IntegerTypes
      /\ \/ small = "short" /\ large = "int"
         \/ small \in {"ushort", "uint"} /\ large \in {"uint", "ulong"}
  BY Zenon DEF IntegerTypes
<1>2. Width[small] <= Width[large]
  BY WidthAssumption, Zenon
<1> DEFINE h == Half(small)  H == Half(large)  n == ValueCount(small)  N == ValueCount(large)
<1>3. h \in Nat \ {0} /\ H \in Nat \ {0} /\ n \in Nat \ {0} /\ N \in Nat \ {0}
  BY <1>1, Halves
<1>4. h <= H /\ n <= N
  BY <1>1, <1>2, ValuesGrow
<1>5. CASE small = "short" /\ large = "int"
  <2>1. Conversions!RangeOf(small) = -h .. h - 1 /\ Conversions!RangeOf(large) = -H .. H - 1
    BY <1>5, Ranges, Zenon
  <2> HIDE DEF h, H
  <2> QED BY <1>1, <1>2, <1>3, <1>4, <2>1
<1>6. CASE small \in {"ushort", "uint"} /\ large \in {"uint", "ulong"}
  <2>1. Conversions!RangeOf(small) = 0 .. n - 1 /\ Conversions!RangeOf(large) = 0 .. N - 1
    BY <1>6, Ranges, Zenon
  <2> HIDE DEF n, N
  <2> QED BY <1>1, <1>2, <1>3, <1>4, <2>1
<1> QED BY <1>1, <1>5, <1>6

\* What was right for a longer type is right after the assignment to a shorter one.
LEMMA ThroughRight ==
    ASSUME PowersOfTwo, NEW w, IsText(w), NEW large, NEW small, NEW c, Good(c, large, w),
           <<small, large>> \in {<<"short", "int">>, <<"ushort", "uint">>, <<"uint", "ulong">>}
    PROVE  Good(Conversions!Through(c, small), small, w)
<1> DEFINE n == Conversions!Number(w)
           v == Conversions!Narrow(c.val, small)
<1>1. /\ small \in IntegerTypes /\ large \in IntegerTypes /\ Width[small] <= Width[large]
      /\ Conversions!RangeOf(small) \subseteq Conversions!RangeOf(large)
  BY RangesGrow
<1>2. c.val \in Int /\ c.ok \in BOOLEAN /\ n \in Int
  BY DEF Good, IsText
<1>3. small \in Conversions!Types
  BY <1>1 DEF IntegerTypes, Conversions!Types
<1>4. ~Conversions!OutOfRange(c.val, small)
  BY <1>2, <1>3, NeverOutOfRange
<1>5. CASE ~c.ok
  <2>1. Conversions!Through(c, small) = Conversions!Failed
    BY <1>5, Zenon DEF Conversions!Through
  <2>2. ~(w.digits \in Nat /\ n \in Conversions!RangeOf(small))
    <3> SUFFICES ASSUME w.digits \in Nat, n \in Conversions!RangeOf(large) PROVE FALSE
      BY <1>1
    <3>1. c = Conversions!Converted(n)
      BY Zenon DEF Good
    <3>2. c.ok = TRUE
      BY <3>1, Outcomes, Zenon
    <3> QED BY <1>5, <3>2, Zenon
  <2> QED BY <2>1, <2>2, FailedIsGood
<1>6. CASE c.ok
  <2>1. Conversions!Through(c, small) = Conversions!Converted(v)
    BY <1>4, <1>6, Zenon DEF Conversions!Through
  <2>3. v \in Int /\ (c.val \in Conversions!RangeOf(small) => v = c.val)
    BY <1>1, <1>2, NarrowRight
  <2>4. w.digits \in Nat
    BY <1>6, Zenon DEF Good
  <2>5. ASSUME w.digits \in Nat, n \in Conversions!RangeOf(small) PROVE v = n
    <3>1. c = Conversions!Converted(n)
      BY <1>1, <2>5, Zenon DEF Good
    <3>2. c.val = n
      BY <3>1, Outcomes, Zenon
    <3> QED BY <2>3, <2>5, <3>2, Zenon
  <2> DEFINE d == Conversions!Converted(v)
  <2>6. d.ok = TRUE /\ d.val = v
    BY Outcomes, Zenon
  <2>7. w.digits \in Nat /\ n \in Conversions!RangeOf(small) => d = Conversions!Converted(n)
    BY <2>5, Zenon
  <2> HIDE DEF d, v
  <2>8. Good(d, small, w)
    BY <2>3, <2>4, <2>6, <2>7, Zenon DEF Good
  <2> QED BY <2>1, <2>8 DEF d
<1> QED BY <1>2, <1>5, <1>6

LEMMA ConvertRight ==
    ASSUME PowersOfTwo, NEW w, IsText(w), NEW type \in IntegerTypes
    PROVE  Good(Conversions!ConvertStringToVal(type, w), type, w)
<1>1. CASE type \in {"int", "long", "ulong"}
  BY <1>1, StoRight DEF Conversions!ConvertStringToVal
<1>2. Good(Conversions!Sto("ulong", w), "ulong", w) /\ Good(Conversions!Sto("int", w), "int", w)
  BY StoRight
<1> DEFINE uint == Conversions!Through(Conversions!Sto("ulong", w), "uint")
<1>3. Good(uint, "uint", w)
  BY <1>2, ThroughRight
<1>4. Good(Conversions!Through(Conversions!Sto("int", w), "short"), "short", w)
  BY <1>2, ThroughRight
<1>5. Good(Conversions!Through(uint, "ushort"), "ushort", w)
  <2> HIDE DEF uint
  <2> QED BY <1>3, ThroughRight
<1>6. CASE type = "uint"
  BY <1>3, <1>6 DEF Conversions!ConvertStringToVal
<1>7. CASE type = "short"
  BY <1>4, <1>7 DEF Conversions!ConvertStringToVal
<1>8. CASE type = "ushort"
  BY <1>5, <1>8 DEF Conversions!ConvertStringToVal
<1> QED BY <1>1, <1>6, <1>7, <1>8 DEF IntegerTypes

\* A bool is that of an int: the int has 0 and 1.
LEMMA BoolRight ==
    ASSUME PowersOfTwo, NEW w, IsText(w), NEW c, c = Conversions!ConvertStringToVal("bool", w)
    PROVE  /\ c.ok \in BOOLEAN
           /\ c.ok => /\ w.digits \in Nat /\ Conversions!Number(w) \in Conversions!RangeOf("int")
                      /\ c = Conversions!Converted(IF Conversions!Number(w) = 0 THEN 0 ELSE 1)
           /\ w.digits \in Nat /\ Conversions!Number(w) \in Conversions!RangeOf("bool") =>
                c = Conversions!Converted(Conversions!Number(w))
<1> DEFINE n == Conversions!Number(w)  i == Conversions!Sto("int", w)
<1>1. Good(i, "int", w)
  BY StoRight
<1>2. c = IF i.ok THEN Conversions!Converted(IF i.val = 0 THEN 0 ELSE 1) ELSE Conversions!Failed
  BY DEF Conversions!ConvertStringToVal
<1>3. Conversions!RangeOf("bool") = 0..1
  BY Ranges
<1>4. 0..1 \subseteq Conversions!RangeOf("int")
  <2> DEFINE h == Half("int")  m == Width["int"] - 2
  <2>1. h >= 2
    <3>1. m \in Nat /\ Width["int"] - 1 = m + 1 /\ 1 \in Nat
      BY WidthAssumption
    <3> HIDE DEF m
    <3>2. 2 ^ m \in Nat \ {0} /\ 2 ^ (m + 1) = 2 ^ m * 2 ^ 1 /\ 2 ^ 1 = 2
      BY <3>1, Zenon DEF PowersOfTwo
    <3> DEFINE p == 2 ^ m
    <3>3. p \in Nat \ {0} /\ h = p * 2
      BY <3>1, <3>2, Zenon DEF Half
    <3> HIDE DEF p, h
    <3> QED BY <3>3
  <2>2. Conversions!RangeOf("int") = -h .. h - 1
    BY Ranges, Zenon
  <2>3. h \in Nat
    BY Halves DEF IntegerTypes
  <2> HIDE DEF h
  <2> QED BY <2>1, <2>2, <2>3
<1>8. ASSUME i.ok PROVE w.digits \in Nat /\ n \in Conversions!RangeOf("int") /\ i.val = n
  <2>1. "int" \in Conversions!Checked(w)
    BY DEF Conversions!Checked
  <2>2. n \in Conversions!RangeOf("int")
    BY <1>8, <2>1, StoChecked
  <2>3. w.digits \in Nat /\ i = Conversions!Converted(n)
    BY <1>1, <1>8, <2>2, Zenon DEF Good
  <2>4. Conversions!Converted(n).val = n
    BY Outcomes, Zenon
  <2> HIDE DEF i, n
  <2> QED BY <2>2, <2>3, <2>4, Zenon
<1> HIDE DEF n, i
<1>5. i.ok \in BOOLEAN
  BY <1>1, Zenon DEF Good
<1>6. CASE ~i.ok
  <2>1. c = Conversions!Failed
    BY <1>2, <1>6, Zenon
  <2>2. c.ok = FALSE
    BY <2>1, Outcomes, Zenon
  <2>3. ASSUME w.digits \in Nat, n \in 0..1 PROVE FALSE
    <3>1. n \in Conversions!RangeOf("int")
      BY <1>4, <2>3
    <3>2. i = Conversions!Converted(n)
      BY <1>1, <2>3, <3>1, Zenon DEF Good, n
    <3>3. i.ok = TRUE
      BY <3>2, Outcomes, Zenon
    <3> QED BY <1>6, <3>3, Zenon
  <2> QED BY <1>3, <2>2, <2>3, Zenon DEF n
<1>7. CASE i.ok
  <2> DEFINE b == IF n = 0 THEN 0 ELSE 1
  <2>1. c = Conversions!Converted(b)
    BY <1>2, <1>7, <1>8, Zenon
  <2>2. c.ok = TRUE
    BY <2>1, Outcomes, Zenon
  <2>3. ASSUME n \in 0..1 PROVE b = n
    BY <2>3
  <2>4. ASSUME w.digits \in Nat, n \in 0..1 PROVE c = Conversions!Converted(n)
    BY <2>1, <2>3, <2>4, Zenon
  <2> QED BY <1>3, <1>7, <1>8, <2>1, <2>2, <2>4, Zenon DEF n
<1> QED BY <1>5, <1>6, <1>7

\* What is said of a value of a type in ConversionsRight.
ConvertsTo(w, type) ==
    LET c == Conversions!ConvertStringToVal(type, w) IN
    /\ w.digits /= Conversions!NoDigits /\ Conversions!Number(w) \in Conversions!RangeOf(type) =>
         /\ c = Conversions!Converted(Conversions!Number(w))
         /\ Conversions!ConvertStringToVal(type,
               Conversions!ConvertValToString(Conversions!Number(w))) = c
    /\ c.ok => w.digits /= Conversions!NoDigits
    /\ c.ok /\ type \in Conversions!Checked(w) => Conversions!Number(w) \in Conversions!RangeOf(type)
    /\ c.ok /\ type = "bool" =>
         /\ Conversions!Number(w) \in Conversions!RangeOf("int")
         /\ c = Conversions!Converted(IF Conversions!Number(w) = 0 THEN 0 ELSE 1)

LEMMA ConvertsToAll ==
    ASSUME PowersOfTwo, NEW w, IsText(w), NEW type \in Conversions!Types
    PROVE  ConvertsTo(w, type)
<1> DEFINE n == Conversions!Number(w)
           c == Conversions!ConvertStringToVal(type, w)
           text == Conversions!ConvertValToString(n)
           again == Conversions!ConvertStringToVal(type, text)
<1>1. n \in Int /\ (w.digits /= Conversions!NoDigits <=> w.digits \in Nat)
  BY DEF IsText, Conversions!NoDigits
<1>2. IsText(text) /\ text.digits \in Nat /\ Conversions!Number(text) = n
  <2> HIDE DEF n
  <2> QED BY <1>1, PrintedIsText
<1>3. ASSUME c.ok, type \in Conversions!Checked(w) PROVE n \in Conversions!RangeOf(type)
  <2>1. type \in {"int", "long", "ulong"}
    BY <1>3 DEF Conversions!Checked
  <2>2. c = Conversions!Sto(type, w)
    BY <2>1 DEF Conversions!ConvertStringToVal
  <2> HIDE DEF c
  <2>3. Conversions!Sto(type, w).ok
    BY <1>3, <2>2
  <2> QED BY <1>3, <2>3, StoChecked
<1>4. CASE type \in IntegerTypes
  <2>1. Good(c, type, w)
    BY <1>4, ConvertRight
  <2>2. Good(again, type, text)
    <3> HIDE DEF text
    <3> QED BY <1>2, <1>4, ConvertRight
  <2> HIDE DEF c, again, text
  <2>3. c.ok => w.digits /= Conversions!NoDigits
    BY <1>1, <2>1, Zenon DEF Good
  <2>4. ASSUME w.digits /= Conversions!NoDigits, n \in Conversions!RangeOf(type)
        PROVE  c = Conversions!Converted(n) /\ again = c
    BY <1>1, <1>2, <2>1, <2>2, <2>4, Zenon DEF Good
  <2>5. type /= "bool"
    BY <1>4 DEF IntegerTypes
  <2> QED BY <1>3, <2>3, <2>4, <2>5, Zenon DEF ConvertsTo, c, again, text
<1>5. CASE type = "bool"
  <2>1. /\ c.ok => /\ w.digits \in Nat /\ n \in Conversions!RangeOf("int")
                   /\ c = Conversions!Converted(IF n = 0 THEN 0 ELSE 1)
        /\ w.digits \in Nat /\ n \in Conversions!RangeOf("bool") => c = Conversions!Converted(n)
    BY <1>5, BoolRight
  <2>2. n \in Conversions!RangeOf("bool") => again = Conversions!Converted(n)
    <3> HIDE DEF text, n
    <3> QED BY <1>2, <1>5, BoolRight
  <2> HIDE DEF c, again, text
  <2> QED BY <1>1, <1>3, <1>5, <2>1, <2>2, Zenon DEF ConvertsTo, c, again, text
<1> QED BY <1>4, <1>5 DEF Conversions!Types, IntegerTypes

\* Whatever the widths of the types, convertStringToVal() (utils.cpp) converts a number that
\* the type has to itself and undoes convertValToString(), and converts no text without a
\* number, nor one that an int, a long or, without a sign, an unsigned long does not have.
THEOREM ConversionsAreRight == ASSUME PowersOfTwo PROVE AppSpec => []ConversionsRight
<1> DEFINE I == part = "number" => input \in Conversions!Written
<1>1. AppInit => I
  <2>1. ASSUME part = "number" PROVE Inputs(part) = Conversions!Written
    BY <2>1 DEF Inputs
  <2> QED BY <2>1, Zenon DEF AppInit
<1>2. I /\ [AppNext]_allVars => I'
  <2>1. [AppNext]_allVars => UNCHANGED <<part, input>>
    BY Zenon DEF AppNext, allVars, OfLoop, OfFiles, OfProf
  <2> QED BY <2>1
<1>3. I => ConversionsRight
  <2> SUFFICES ASSUME input \in Conversions!Written PROVE Conversions!ConversionsRight(input)
    BY Zenon DEF ConversionsRight
  <2>1. \A type \in Conversions!Types : ConvertsTo(input, type)
    BY WrittenIsText, ConvertsToAll
  <2> QED BY <2>1, Zenon DEF ConvertsTo, Conversions!ConversionsRight
<1> QED BY <1>1, <1>2, <1>3, PTL DEF AppSpec

-----------------------------------------------------------------------------
(* What the pure functions promise, of the inputs of the program. *)

LEMMA SeqOfAreSeqs == ASSUME NEW S, NEW n, NEW s \in SeqOf(S, n) PROVE s \in Seq(S)
BY DEF SeqOf

\* The inputs stay what they were chosen to be.
LEMMA InputsStay == [AppNext]_allVars => UNCHANGED <<part, input>>
BY Zenon DEF AppNext, allVars, OfLoop, OfFiles, OfProf

\* What CmdBuffer's commands come from (cmd_string.cpp): parse() and toString() are inverse
\* where they can be, and parse() loses no character but separators, for the inputs of this
\* specification; TextsRight is the same for every text.
THEOREM CmdsAreRight == AppSpec => []CmdsRight
<1> DEFINE X == {"a", " ", ";", Quote}
           I == part = "text" => input \in Seq(X)
<1>1. AppInit => I
  <2>1. ASSUME part = "text" PROVE Inputs(part) = SeqOf(X, 6)
    BY <2>1 DEF Inputs
  <2> HIDE DEF X
  <2> QED BY <2>1, SeqOfAreSeqs, Zenon DEF AppInit
<1>2. I /\ [AppNext]_allVars => I'
  <2> HIDE DEF X
  <2> QED BY InputsStay
<1>3. I => CmdsRight
  <2>1. IsAlphabet(X)
    BY DEF IsAlphabet, Quote, End
  <2> HIDE DEF X
  <2> QED BY <2>1, TextsRight DEF CmdsRight
<1> QED BY <1>1, <1>2, <1>3, PTL DEF AppSpec

LEMMA FewCharacters ==
    ASSUME NEW X, NEW x \in X, NEW y \in X, NEW z \in X, NEW w \in X
    PROVE  /\ <<x>> \in Seq(X) /\ <<x, y>> \in Seq(X)
           /\ <<x, y, z>> \in Seq(X) /\ <<x, y, z, w>> \in Seq(X)
OBVIOUS

LEMMA ArgumentsIn ==
    ASSUME NEW X, {"v", "-", "a", "b", "f", "g", "+", "c", ";", "d"} \subseteq X
    PROVE  Arguments \subseteq Seq(X)
<1>0. /\ "v" \in X /\ "-" \in X /\ "a" \in X /\ "b" \in X /\ "f" \in X /\ "g" \in X
      /\ "+" \in X /\ "c" \in X /\ ";" \in X /\ "d" \in X
  BY Zenon
<1>1. /\ <<"v">> \in Seq(X) /\ <<"-">> \in Seq(X) /\ <<"-", "-">> \in Seq(X)
      /\ <<"-", "-", "a">> \in Seq(X) /\ <<"-", "-", "b">> \in Seq(X)
      /\ <<"-", "f", "g">> \in Seq(X) /\ <<"+", "c", ";", "d">> \in Seq(X)
  BY <1>0, FewCharacters, Zenon
<1> QED BY <1>1, Zenon DEF Arguments

\* Every argument of main() is taken for what its place says, letters included, and nothing
\* else is found (command_line.cpp), for the inputs of this specification; ArgsRight is the same for all arguments.
THEOREM ArgumentsAreRight == AppSpec => []ArgumentsRight
<1>0. PICK X : X = {"v", "-", "a", "b", "f", "g", "+", "c", ";", "d", " ", Quote}
  BY Zenon
<1> DEFINE I == part = "argv" => input \in Seq(Arguments)
<1>1. AppInit => I
  <2>1. ASSUME part = "argv" PROVE Inputs(part) = SeqOf(Arguments, 4)
    BY <2>1 DEF Inputs
  <2> QED BY <2>1, SeqOfAreSeqs, Zenon DEF AppInit
<1>2. I /\ [AppNext]_allVars => I'
  BY InputsStay, Zenon DEF Arguments
<1>3. I => ArgumentsRight
  <2> SUFFICES ASSUME input \in Seq(Arguments) PROVE ArgumentsRightOf(input)
    BY Zenon DEF ArgumentsRight
  <2>1. IsAlphabet(X) /\ Arguments \subseteq Seq(X)
    <3>1. IsAlphabet(X)
      BY <1>0, Zenon DEF IsAlphabet, Quote, End
    <3>2. {"v", "-", "a", "b", "f", "g", "+", "c", ";", "d"} \subseteq X
      BY <1>0, Zenon
    <3> QED BY <3>1, <3>2, ArgumentsIn, Zenon
  <2>2. input \in Seq(Seq(X))
    BY <2>1, SeqMonotonic
  <2> QED BY <2>1, <2>2, ArgsRight
<1> QED BY <1>1, <1>2, <1>3, PTL DEF AppSpec

\* The streams of the program's part.

LEMMA PowersGrow ==
    ASSUME PowersOfBase, NEW n \in Nat, NEW x \in Nat, x <= Base ^ n PROVE 4 * x <= Base ^ (n + 1)
<1> DEFINE b == Base ^ n
<1>1. b \in Nat /\ Base ^ (n + 1) = b * Base
  BY Zenon DEF PowersOfBase
<1>2. x <= b
  OBVIOUS
<1> HIDE DEF b
<1>3. Base \in Nat /\ 4 <= Base
  BY BaseAssumption, ByteAssumption
<1>4. b * 4 <= b * Base
  BY <1>1, <1>3, TimesMore
<1>5. 4 * x <= b * Base
  BY <1>1, <1>2, <1>3, <1>4
<1> QED BY <1>1, <1>5, Zenon

LEMMA PowersAtLeast ==
    ASSUME PowersOfBase
    PROVE  /\ Base ^ 1 \in Nat /\ 4 <= Base ^ 1 /\ Base ^ 2 \in Nat /\ 16 <= Base ^ 2
           /\ Base ^ 4 \in Nat /\ 256 <= Base ^ 4 /\ Base ^ 8 \in Nat /\ 65536 <= Base ^ 8
<1> DEFINE P(n, x) == x <= Base ^ n
<1>g. ASSUME NEW n \in Nat, NEW x \in Nat, P(n, x) PROVE P(n + 1, 4 * x)
  BY <1>g, PowersGrow
<1>z. P(0, 1)
  BY DEF PowersOfBase
<1> HIDE DEF P
<1>1. P(1, 4)
  BY <1>g, <1>z
<1>2. P(2, 16)
  BY <1>g, <1>1
<1>3. P(3, 64)
  BY <1>g, <1>2
<1>4. P(4, 256)
  BY <1>g, <1>3
<1>5. P(5, 1024)
  BY <1>g, <1>4
<1>6. P(6, 4096)
  BY <1>g, <1>5
<1>7. P(7, 16384)
  BY <1>g, <1>6
<1>8. P(8, 65536)
  BY <1>g, <1>7
<1>9. Base ^ 1 \in Nat /\ Base ^ 2 \in Nat /\ Base ^ 4 \in Nat /\ Base ^ 8 \in Nat
  <2>1. 1 \in Nat /\ 2 \in Nat /\ 4 \in Nat /\ 8 \in Nat
    OBVIOUS
  <2> QED BY <2>1, Zenon DEF PowersOfBase
<1>10. 4 <= Base ^ 1 /\ 16 <= Base ^ 2 /\ 256 <= Base ^ 4 /\ 65536 <= Base ^ 8
  BY <1>1, <1>2, <1>4, <1>8 DEF P
<1> QED BY <1>9, <1>10

LEMMA ItemsFit == ASSUME PowersOfBase PROVE AllFit(StreamItems)
<1> DEFINE a == Base ^ 1  b == Base ^ 2  c == Base ^ 4  d == Base ^ 8
<1>1. a \in Nat /\ b \in Nat /\ c \in Nat /\ d \in Nat /\ 4 <= a /\ 16 <= b /\ 256 <= c /\ 65536 <= d
  BY PowersAtLeast
<1> HIDE DEF a, b, c, d
<1>2. /\ 2 < a /\ 7 < b /\ 9999 < d /\ 2 < c - 1 /\ 3 < c /\ 2 < c /\ 2 < d
      /\ 1 \in Nat /\ 2 \in Nat /\ 7 \in Nat /\ 8 \in Nat /\ 9999 \in Nat /\ 2 \in Nat \ {0}
      /\ 4 = 2 * 2 /\ 3 \in Nat
  BY <1>1
<1>3. /\ 0 \in ByteSet /\ 1 \in ByteSet /\ 2 \in ByteSet /\ 3 \in ByteSet
  BY BaseAssumption, ByteAssumption DEF ByteSet
<1>4. Fitting(StreamItem("uint", 1, <<2>>))
  <2> DEFINE v == <<2>>
  <2>1. v[1] = 2
    OBVIOUS
  <2> HIDE DEF v
  <2>2. Fitting(StreamItem("uint", 1, v))
    BY <1>2, <2>1, FitsNumber DEF a
  <2> QED BY <2>2 DEF v
<1>5. Fitting(StreamItem("uint", 2, <<7>>))
  <2> DEFINE v == <<7>>
  <2>1. v[1] = 7
    OBVIOUS
  <2> HIDE DEF v
  <2>2. Fitting(StreamItem("uint", 2, v))
    BY <1>2, <2>1, FitsNumber DEF b
  <2> QED BY <2>2 DEF v
<1>6. Fitting(StreamItem("uint", 8, <<9999>>))
  <2> DEFINE v == <<9999>>
  <2>1. v[1] = 9999
    OBVIOUS
  <2> HIDE DEF v
  <2>2. Fitting(StreamItem("uint", 8, v))
    BY <1>2, <2>1, FitsNumber DEF d
  <2> QED BY <2>2 DEF v
<1>7. Fitting(StreamItem("string", 0, <<1, 2>>))
  <2> DEFINE v == <<1, 2>>
  <2>1. v \in Seq(ByteSet) /\ Len(v) = 2
    BY <1>3
  <2> HIDE DEF v
  <2>2. Fitting(StreamItem("string", 0, v))
    <3>1. Len(v) < Base ^ 4 - 1
      BY <1>2, <2>1 DEF c
    <3> QED BY <2>1, <3>1, FitsString, Zenon
  <2> QED BY <2>2 DEF v
<1>8. Fitting(StreamItem("object", 3, <<1, 2, 3>>))
  <2> DEFINE v == <<1, 2, 3>>
  <2>1. v \in Seq(ByteSet) /\ Len(v) = 3
    BY <1>3
  <2> HIDE DEF v
  <2>2. Fitting(StreamItem("object", 3, v))
    <3>1. Len(v) = 3 /\ 3 < Base ^ 4
      BY <1>2, <2>1 DEF c
    <3> QED BY <2>1, <3>1, FitsObject, Zenon
  <2> QED BY <2>2 DEF v
<1>9. Fitting(StreamItem("array", 2, <<1, 3, 2, 0>>))
  <2> DEFINE v == <<1, 3, 2, 0>>
  <2>1. v \in Seq(ByteSet) /\ Len(v) = 4
    BY <1>3
  <2> HIDE DEF v
  <2>3. Len(v) = 2 * 2
    BY <1>2, <2>1
  <2>2. Fitting(StreamItem("array", 2, v))
    <3>1. Len(v) = 2 * 2 /\ 2 < Base ^ 4 /\ 2 < Base ^ 8 /\ 2 \in Nat /\ 2 \in Nat \ {0}
      BY <1>2, <2>3 DEF c, d
    <3> QED BY <2>1, <3>1, FitsArray, Zenon
  <2> QED BY <2>2 DEF v
<1> DEFINE i1 == StreamItem("uint", 1, <<2>>)  i2 == StreamItem("uint", 2, <<7>>)
           i3 == StreamItem("uint", 8, <<9999>>)  i4 == StreamItem("string", 0, <<1, 2>>)
           i5 == StreamItem("object", 3, <<1, 2, 3>>)
           i6 == StreamItem("array", 2, <<1, 3, 2, 0>>)
<1>10. StreamItems = {i1, i2, i3, i4, i5, i6}
  BY DEF StreamItems
<1>11. Fitting(i1) /\ Fitting(i2) /\ Fitting(i3) /\ Fitting(i4) /\ Fitting(i5) /\ Fitting(i6)
  BY <1>4, <1>5, <1>6, <1>7, <1>8, <1>9
<1> HIDE DEF i1, i2, i3, i4, i5, i6
<1> QED BY <1>10, <1>11, Zenon DEF AllFit

\* What was written to a binary stream is read from it, item by item, on a platform of either
\* byte order, also where the buffer was too small and writes have failed (binary_stream.h);
\* MirrorsRight is the same for all items that fit their headers and all sizes.
THEOREM ReadsAreMirrored == ASSUME PowersOfBase PROVE AppSpec => []ReadsMirrorWrites
<1> DEFINE A == {0, 6, 13, 30}
           I == part = "stream" => input \in A \X Seq(StreamItems) \X BOOLEAN \X BOOLEAN
<1>1. AppInit => I
  <2> SUFFICES ASSUME part = "stream", input \in Inputs(part)
               PROVE  input \in A \X Seq(StreamItems) \X BOOLEAN \X BOOLEAN
    BY Zenon DEF AppInit
  <2> DEFINE B == SeqOf(StreamItems, 3)
  <2>1. Inputs(part) = A \X B \X BOOLEAN \X BOOLEAN
    BY DEF Inputs
  <2>2. B \subseteq Seq(StreamItems)
    BY SeqOfAreSeqs, Zenon
  <2> HIDE DEF A, B
  <2> QED BY <2>1, <2>2
<1>2. I /\ [AppNext]_allVars => I'
  <2> HIDE DEF A
  <2> QED BY InputsStay DEF StreamItems
<1>3. I => ReadsMirrorWrites
  <2> SUFFICES ASSUME input \in A \X Seq(StreamItems) \X BOOLEAN \X BOOLEAN
               PROVE  ReadsMirrorWritesOf(input[1], input[2], input[3], input[4])
    BY Zenon DEF ReadsMirrorWrites
  <2>1. A \subseteq Nat
    OBVIOUS
  <2> HIDE DEF A
  <2>2. input[1] \in Nat /\ input[2] \in Seq(StreamItems) /\ input[3] \in BOOLEAN /\ input[4] \in BOOLEAN
    BY <2>1
  <2>3. AllFit(StreamItems)
    BY ItemsFit
  <2> QED BY <2>2, <2>3, MirrorsRight, Zenon
<1> QED BY <1>1, <1>2, <1>3, PTL DEF AppSpec

LEMMA NamesAreBytes == ItemNames \subseteq Seq(ByteSet)
<1>1. 1 \in ByteSet /\ 2 \in ByteSet /\ 3 \in ByteSet
  BY BaseAssumption, ByteAssumption DEF ByteSet
<1>2. /\ <<>> \in Seq(ByteSet) /\ <<1, 2, 3>> \in Seq(ByteSet)
      /\ [i \in 1..15 |-> 2] \in Seq(ByteSet) /\ [i \in 1..21 |-> 3] \in Seq(ByteSet)
  <2> DEFINE a == <<1, 2, 3>>  b == [i \in 1..15 |-> 2]  c == [i \in 1..21 |-> 3]
  <2>1. a \in Seq(ByteSet)
    BY <1>1
  <2>2. b \in Seq(ByteSet) /\ c \in Seq(ByteSet)
    BY <1>1
  <2> QED BY <2>1, <2>2, EmptySeq
<1> QED BY <1>2, Zenon DEF ItemNames

LEMMA LinesAreMessages ==
    ASSUME NEW msg \in OutputLines
    PROVE  msg \in OutputMessages /\ msg.type = 2 /\ msg.color = 3 /\ msg.time = 9999
<1>1. 1 \in ByteSet /\ 2 \in ByteSet /\ 3 \in ByteSet
  BY BaseAssumption, ByteAssumption DEF ByteSet
<1>2. <<>> \in Seq(ByteSet) /\ <<1, 3>> \in Seq(ByteSet)
  BY <1>1, EmptySeq
<1>3. \A n \in 0..20 : [i \in 1..n |-> 2] \in Seq(ByteSet)
  BY <1>1
<1>4. /\ msg = [type |-> msg.type, color |-> msg.color, time |-> msg.time, tag |-> msg.tag,
                text |-> msg.text]
      /\ msg.type = 2 /\ msg.color = 3 /\ msg.time = 9999
      /\ msg.tag \in {<<>>, <<1, 3>>} /\ msg.text \in {[i \in 1..n |-> 2] : n \in 0..20}
  BY DEF OutputLines
<1>5. msg.tag \in Seq(ByteSet) /\ msg.text \in Seq(ByteSet)
  <2> DEFINE Texts == {[i \in 1..n |-> 2] : n \in 0..20}
  <2>1. \A text \in Texts : text \in Seq(ByteSet)
    BY <1>3
  <2>2. msg.text \in Texts
    BY <1>4
  <2> HIDE DEF Texts
  <2>3. msg.tag = <<>> \/ msg.tag = <<1, 3>>
    BY <1>4
  <2>4. msg.tag \in Seq(ByteSet)
    BY <1>2, <2>3
  <2> QED BY <2>1, <2>2, <2>4
<1>6. msg.type \in Nat /\ msg.color \in Nat /\ msg.time \in Nat
  BY <1>4
<1>7. msg \in OutputMessages
  <2> DEFINE ty == msg.type  co == msg.color  ti == msg.time  ta == msg.tag  te == msg.text
  <2>1. msg = [type |-> ty, color |-> co, time |-> ti, tag |-> ta, text |-> te]
    BY <1>4
  <2>2. ty \in Nat /\ co \in Nat /\ ti \in Nat /\ ta \in Seq(ByteSet) /\ te \in Seq(ByteSet)
    BY <1>5, <1>6
  <2> HIDE DEF ty, co, ti, ta, te
  <2> QED BY <2>1, <2>2 DEF OutputMessages
<1> QED BY <1>4, <1>7

\* ExtconHost (extcon_host.cpp): the names of commands, as long as each has a place in a message,
\* and a line of output within the limit of the payload are read by the other end from the
\* messages they are put into, and a list within the limit is one message within it, whatever
\* the limit and the size of the buffer are and in either byte order of both ends; ListRight
\* and PrintRight are the same for all names and lines.
THEOREM MessagesAreReceived == ASSUME PowersOfBase PROVE AppSpec => []MessagesReceived
<1> DEFINE I == /\ part = "names" => input \in NameSeqs \X BOOLEAN
                /\ part = "output" => input \in OutputLines \X BOOLEAN
<1>1. AppInit => I
  <2>1. ASSUME part = "names", input \in Inputs(part) PROVE input \in NameSeqs \X BOOLEAN
    <3> DEFINE B == SeqOf(ItemNames, 5)
    <3>1. Inputs(part) = B \X BOOLEAN
      BY <2>1 DEF Inputs
    <3>2. B \subseteq NameSeqs
      <4>1. \A names \in B : names \in Seq(ItemNames)
        BY SeqOfAreSeqs, Zenon
      <4>2. Seq(ItemNames) \subseteq Seq(Seq(ByteSet))
        BY NamesAreBytes, SeqMonotonic
      <4> QED BY <4>1, <4>2, Zenon DEF NameSeqs
    <3> HIDE DEF B
    <3> QED BY <2>1, <3>1, <3>2
  <2>2. ASSUME part = "output", input \in Inputs(part) PROVE input \in OutputLines \X BOOLEAN
    BY <2>2 DEF Inputs
  <2> QED BY <2>1, <2>2, Zenon DEF AppInit
<1>2. I /\ [AppNext]_allVars => I'
  <2>1. NameSeqs' = NameSeqs /\ OutputLines' = OutputLines
    BY DEF NameSeqs, ByteSet, OutputLines
  <2> QED BY <2>1, InputsStay, Zenon
<1>3. I => MessagesReceived
  <2> DEFINE a == Base ^ 1  d == Base ^ 8
  <2>1. a \in Nat /\ d \in Nat /\ 4 <= a /\ 65536 <= d
    BY PowersAtLeast
  <2> HIDE DEF a, d
  <2>2. 1 < a /\ 2 < a /\ 3 < a /\ 9999 < d /\ Opcode.CMD_LIST = 2
    BY <2>1 DEF Opcode
  <2>3. ASSUME input \in NameSeqs \X BOOLEAN PROVE ListReceived(input[1], input[2])
    <3>1. input[1] \in NameSeqs /\ input[2] \in BOOLEAN
      BY <2>3
    <3>2. Opcode.CMD_LIST < Base ^ 1
      BY <2>2 DEF a
    <3> QED BY <3>1, <3>2, ListRight, Zenon
  <2>4. ASSUME input \in OutputLines \X BOOLEAN PROVE PrintReceived(input[1], input[2])
    <3>1. input[1] \in OutputLines /\ input[2] \in BOOLEAN
      BY <2>4
    <3> DEFINE msg == input[1]
    <3>2. msg \in OutputMessages /\ msg.type = 2 /\ msg.color = 3 /\ msg.time = 9999
      BY <3>1, LinesAreMessages
    <3>3. msg.type < Base ^ 1 /\ msg.color < Base ^ 1 /\ msg.time < Base ^ 8 /\ 1 < Base ^ 1
      <4>1. msg.type < a /\ msg.color < a /\ msg.time < d /\ 1 < a
        BY <2>2, <3>2
      <4> QED BY <4>1, Zenon DEF a, d
    <3> HIDE DEF msg
    <3>4. PrintReceived(msg, input[2])
      BY <3>1, <3>2, <3>3, PrintRight
    <3> QED BY <3>4, Zenon DEF msg
  <2> QED BY <2>3, <2>4, Zenon DEF MessagesReceived
<1> QED BY <1>1, <1>2, <1>3, PTL DEF AppSpec
=============================================================================
