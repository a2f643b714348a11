---------------------------- MODULE Network_proofs ----------------------------
(***************************************************************************)
(* Theorems about the specification that TLC checks for the network        *)
(* (MCNetwork).  First those of TcpServer, for any number of connections,  *)
(* starts and failing calls, and any callbacks; they and what              *)
(* TcpClient_proofs proves of the client are used for the steps of the     *)
(* components in it.  Then the objects of a server's program are followed  *)
(* through the server's steps, and the bytes of a stream through those of  *)
(* the parser.                                                             *)
(***************************************************************************)
EXTENDS MCNetwork, FiniteSetTheorems, SequenceTheorems, WellFoundedInduction, TLAPS

ClientProofs == INSTANCE TcpClient_proofs WITH pc <- loop

-----------------------------------------------------------------------------
\* Where the server is: it runs a loop only while it listens, and then it has its data.

Entry == [fd : Conns \cup {Server}, revents : Events]

Flags == listening \in BOOLEAN /\ hasData \in BOOLEAN

Running ==
    /\ pc \in Labels
    /\ pc \in {"events", "accept", "read", "remove", "stop"} => listening
    /\ pc /= "crashed" => (listening <=> hasData)

LEMMA InitRunning == Init => Flags /\ Running
BY Zenon DEF Init, Flags, Running, Labels

LEMMA NextRunning == Flags /\ Running /\ [Next]_vars => Flags' /\ Running'
<1> SUFFICES ASSUME Flags, Running, [Next]_vars PROVE Flags' /\ Running'
  OBVIOUS
<1> USE DEF Flags, Running, Labels, listVars, loopVars
<1>1. CASE StartListening
  BY <1>1, Zenon DEF StartListening
<1>2. CASE StopListening
  BY <1>2, Zenon DEF StopListening, Stop
<1>3. CASE StopNext
  BY <1>3, Zenon DEF StopNext
<1>4. CASE StopEnd
  BY <1>4, Zenon DEF StopEnd, Idle
<1>5. CASE Poll
  BY <1>5, Zenon DEF Poll, StartRemoval
<1>6. CASE CheckListener
  BY <1>6, Zenon DEF CheckListener, ServeListener
<1>7. CASE AcceptNext
  BY <1>7, Zenon DEF AcceptNext
<1>8. CASE AcceptEnd
  BY <1>8, Zenon DEF AcceptEnd
<1>9. CASE ServeNext
  BY <1>9, Zenon DEF ServeNext
<1>10. CASE ServeEnd
  BY <1>10, Zenon DEF ServeEnd, StartRemoval
<1>11. CASE RemoveNext
  BY <1>11, Zenon DEF RemoveNext
<1>12. CASE RemoveEnd
  BY <1>12, Zenon DEF RemoveEnd, Idle
<1>13. CASE StartFails
  <2>1. CASE UNCHANGED <<listening, pc>>
    BY <1>13, <2>1, Zenon DEF StartFails
  <2>2. CASE listening' = TRUE /\ pc' = "crashed"
    <3>1. listening' /\ listening' \in BOOLEAN
      BY <2>2, Zenon
    <3>2. hasData' = hasData
      BY <1>13 DEF StartFails
    <3> QED
      BY <2>2, <3>1, <3>2, Zenon
  <2> QED
    BY <1>13, <2>1, <2>2, Zenon DEF StartFails
<1>14. CASE PollFails
  BY <1>14, Zenon DEF PollFails, Stop
<1>15. CASE AcceptFails
  BY <1>15, Zenon DEF AcceptFails, Idle
<1>16. CASE SendToAllFails \/ UserCloses \/ Arrive \/ UNCHANGED vars
  <2>1. UNCHANGED <<listening, hasData, pc>>
    BY <1>16 DEF SendToAllFails, UserCloses, Arrive, vars
  <2> QED
    BY <2>1, Zenon
<1> QED
  BY <1>1, <1>2, <1>3, <1>4, <1>5, <1>6, <1>7, <1>8, <1>9, <1>10, <1>11, <1>12, <1>13, <1>14,
     <1>15, <1>16, Zenon
     DEF Next, PollStep, Faults, Program

-----------------------------------------------------------------------------
\* The helpers of the lists.

\* RemoveAt() takes the k-th element out and moves those after it one place down.
LEMMA RemoveAtProperties ==
    ASSUME NEW S, NEW s \in Seq(S), NEW k \in 1 .. Len(s)
    PROVE  /\ RemoveAt(s, k) \in Seq(S)
           /\ Len(RemoveAt(s, k)) = Len(s) - 1
           /\ \A j \in 1 .. Len(s) - 1 : RemoveAt(s, k)[j] = IF j < k THEN s[j] ELSE s[j + 1]
<1> DEFINE a == SubSeq(s, 1, k - 1)
           b == SubSeq(s, k + 1, Len(s))
<1>1. a \in Seq(S) /\ Len(a) = k - 1 /\ \A j \in 1 .. k - 1 : a[j] = s[j]
  BY SubSeqProperties
<1>2. b \in Seq(S) /\ Len(b) = Len(s) - k /\ \A j \in 1 .. Len(s) - k : b[j] = s[k + j]
  <2>1. /\ b \in Seq(S)
        /\ Len(b) = IF k + 1 <= Len(s) THEN Len(s) - (k + 1) + 1 ELSE 0
        /\ \A j \in 1 .. Len(s) - (k + 1) + 1 : b[j] = s[k + 1 + j - 1]
    BY SubSeqProperties
  <2> HIDE DEF b
  <2>2. \A j \in 1 .. Len(s) - k : k + 1 + j - 1 = k + j /\ j \in 1 .. Len(s) - (k + 1) + 1
    OBVIOUS
  <2> QED
    BY <2>1, <2>2
<1>3. /\ a \o b \in Seq(S)
      /\ Len(a \o b) = Len(a) + Len(b)
      /\ \A j \in 1 .. Len(a) + Len(b) : (a \o b)[j] = IF j <= Len(a) THEN a[j] ELSE b[j - Len(a)]
  BY <1>1, <1>2, ConcatProperties
<1>4. RemoveAt(s, k) = a \o b
  BY DEF RemoveAt
<1> HIDE DEF a, b
<1>5. Len(a) + Len(b) = Len(s) - 1
  BY <1>1, <1>2
<1>6. ASSUME NEW j \in 1 .. Len(s) - 1
      PROVE  (a \o b)[j] = IF j < k THEN s[j] ELSE s[j + 1]
  <2>1. (a \o b)[j] = IF j <= k - 1 THEN a[j] ELSE b[j - (k - 1)]
    BY <1>1, <1>3, <1>5
  <2>2. CASE j < k
    BY <2>1, <2>2, <1>1
  <2>3. CASE j >= k
    <3>1. j - (k - 1) \in 1 .. Len(s) - k /\ k + (j - (k - 1)) = j + 1
      BY <2>3
    <3>2. b[j - (k - 1)] = s[k + (j - (k - 1))]
      BY <3>1, <1>2
    <3>3. ~(j < k) /\ ~(j <= k - 1)
      BY <2>3
    <3> QED
      BY <2>1, <3>1, <3>2, <3>3
  <2>4. j < k \/ j >= k
    OBVIOUS
  <2> QED
    BY <2>2, <2>3, <2>4
<1> QED
  BY <1>3, <1>4, <1>5, <1>6

-----------------------------------------------------------------------------
\* The lists and the queue of connections.  A connection that waits came after every one
\* that was accepted, and both lists are in the order of arrival: so no socket is listed
\* twice, and the k-th one is at least k.

Shapes ==
    /\ pollList \in Seq(Entry) /\ sockets \in Seq(Conns) /\ backlog \in Seq(Conns)
    /\ arrived \in 0 .. MaxConns
    /\ accepted \subseteq Conns

Sorted(s) == \A j, k \in DOMAIN s : j < k => s[j] < s[k]

Order ==
    /\ Sorted(sockets) /\ Sorted(backlog)
    /\ \A k \in DOMAIN sockets : sockets[k] \in accepted /\ sockets[k] >= k
    /\ \A k \in DOMAIN backlog : backlog[k] <= arrived
    /\ \A c \in accepted : c <= arrived /\ \A k \in DOMAIN backlog : c < backlog[k]

Aligned ==
    hasData =>
        /\ Len(pollList) = Len(sockets) + 1
        /\ pollList[1].fd = Server
        /\ \A k \in DOMAIN sockets : pollList[k + 1].fd = sockets[k]

\* Where the index of the loop that runs may be.
Index ==
    /\ pc \in {"idle", "events", "crashed"} => i = 0
    /\ pc = "accept" => i = 1
    /\ pc = "read" => i \in 1 .. Len(pollList)
    /\ pc = "remove" => i \in 0 .. Len(sockets)
    /\ pc = "stop" => i \in 1 .. Len(sockets) + 1

Lists == Shapes /\ Order /\ Aligned /\ Index

LEMMA InitLists == Init => Lists
BY BoundsAssumption DEF Init, Lists, Shapes, Order, Sorted, Aligned, Index, Entry, Conns

\* The steps that change the lists or the queue.
LEMMA ListSteps ==
    [Next]_vars =>
        \/ UNCHANGED <<hasData, pollList, sockets, backlog, accepted, arrived>>
        \/ StartListening \/ StopEnd \/ Poll \/ AcceptNext \/ AcceptFails \/ RemoveNext \/ Arrive
<1> SUFFICES ASSUME [Next]_vars
             PROVE  \/ UNCHANGED <<hasData, pollList, sockets, backlog, accepted, arrived>>
                    \/ StartListening \/ StopEnd \/ Poll \/ AcceptNext \/ AcceptFails \/ RemoveNext
                    \/ Arrive
  OBVIOUS
<1> USE DEF listVars, countVars, toldVars
<1>1. CASE CheckListener \/ AcceptEnd \/ ServeNext \/ ServeEnd \/ RemoveEnd \/ StopNext
  BY <1>1 DEF CheckListener, AcceptEnd, ServeNext, ServeEnd, RemoveEnd, StopNext
<1>2. CASE StartFails \/ PollFails \/ SendToAllFails
  BY <1>2 DEF StartFails, PollFails, SendToAllFails
<1>3. CASE StopListening \/ UserCloses \/ UNCHANGED vars
  BY <1>3 DEF StopListening, UserCloses, vars
<1> QED
  BY <1>1, <1>2, <1>3, Zenon DEF Next, PollStep, Faults, Program

LEMMA StartLists == Lists /\ (StartListening \/ StopEnd) => Shapes' /\ Order' /\ Aligned'
<1> SUFFICES ASSUME Lists, StartListening \/ StopEnd PROVE Shapes' /\ Order' /\ Aligned'
  OBVIOUS
<1> USE DEF Lists, Shapes, Order, Sorted, Aligned
<1>1. CASE StartListening
  <2>1. <<[fd |-> Server, revents |-> "none"]>> \in Seq(Entry)
    BY DEF Entry, Events
  <2>2. /\ pollList' = <<[fd |-> Server, revents |-> "none"]>> /\ sockets' = <<>>
        /\ UNCHANGED <<backlog, arrived, accepted>>
    BY <1>1 DEF StartListening, toldVars
  <2>3. <<>> \in Seq(Conns) /\ Len(pollList') = 1 /\ pollList'[1].fd = Server
    BY <2>2
  <2> HIDE DEF Entry
  <2> QED
    BY <2>1, <2>2, <2>3
<1>2. CASE StopEnd
  <2>1. pollList' = <<>> /\ sockets' = <<>> /\ backlog' = <<>> /\ UNCHANGED <<arrived, accepted>>
    BY <1>2 DEF StopEnd, countVars, toldVars
  <2>2. hasData' = FALSE
    BY <1>2, Zenon DEF StopEnd
  <2>3. Aligned'
    BY <2>2, Zenon
  <2> QED
    BY <2>1, <2>3
<1> QED
  BY <1>1, <1>2

LEMMA PollLists == Running /\ Lists /\ Poll => Shapes' /\ Order' /\ Aligned'
<1> SUFFICES ASSUME Running, Lists, Poll PROVE Shapes' /\ Order' /\ Aligned'
  OBVIOUS
<1>1. hasData
  BY DEF Running, Poll
<1>2. UNCHANGED <<hasData, sockets, backlog, arrived, accepted>>
  BY DEF Poll, countVars, toldVars
<1>3. PICK ev \in [Listed -> Events] :
        pollList' = [k \in DOMAIN pollList |->
              IF pollList[k].fd = Server
              THEN [fd |-> Server, revents |-> IF backlog = <<>> THEN "none" ELSE "in"]
              ELSE [fd |-> pollList[k].fd, revents |-> ev[pollList[k].fd]]]
  BY Zenon DEF Poll
<1>4. ASSUME NEW k \in 1 .. Len(pollList), pollList[k].fd /= Server
      PROVE  pollList[k].fd \in Listed
  <2>1. /\ Len(pollList) = Len(sockets) + 1 /\ pollList[1].fd = Server
        /\ \A j \in DOMAIN sockets : pollList[j + 1].fd = sockets[j]
    BY <1>1 DEF Lists, Aligned
  <2>2. Len(sockets) \in Nat /\ DOMAIN sockets = 1 .. Len(sockets)
    BY DEF Lists, Shapes
  <2>3. k /= 1
    BY <1>4, <2>1
  <2>4. k - 1 \in 1 .. Len(sockets) /\ (k - 1) + 1 = k
    BY <1>4, <2>1, <2>2, <2>3
  <2>5. pollList[k].fd = sockets[k - 1]
    BY <2>1, <2>2, <2>4
  <2> QED
    BY <2>2, <2>4, <2>5 DEF Listed, Range
<1>5. ASSUME NEW k \in 1 .. Len(pollList)
      PROVE  pollList'[k] \in Entry /\ pollList'[k].fd = pollList[k].fd
  <2>1. pollList[k].fd \in Conns \cup {Server}
    <3>1. pollList[k] \in Entry
      BY DEF Lists, Shapes
    <3> QED
      BY <3>1 DEF Entry
  <2>2. DOMAIN pollList = 1 .. Len(pollList)
    BY DEF Lists, Shapes
  <2>3. CASE pollList[k].fd = Server
    BY <1>3, <2>1, <2>2, <2>3 DEF Entry, Events
  <2>4. CASE pollList[k].fd /= Server
    <3>1. ev[pollList[k].fd] \in Events
      BY <1>4, <2>4
    <3>2. pollList'[k] = [fd |-> pollList[k].fd, revents |-> ev[pollList[k].fd]]
      BY <1>3, <2>2, <2>4
    <3> QED
      BY <2>1, <3>1, <3>2 DEF Entry
  <2> QED
    BY <2>3, <2>4
<1>6. pollList' \in Seq(Entry) /\ Len(pollList') = Len(pollList)
  <2>1. Len(pollList) \in Nat /\ DOMAIN pollList = 1 .. Len(pollList)
    BY DEF Lists, Shapes
  <2>2. pollList' = [k \in 1 .. Len(pollList) |-> pollList'[k]]
    BY <1>3, <2>1
  <2> QED
    BY <1>5, <2>1, <2>2, IsASeq
<1>7. Shapes' /\ Order'
  BY <1>2, <1>6 DEF Lists, Shapes, Order, Sorted
<1>8. Len(sockets) \in Nat /\ DOMAIN sockets = 1 .. Len(sockets)
  BY DEF Lists, Shapes
<1>9. Aligned'
  <2>1. /\ Len(pollList) = Len(sockets) + 1 /\ pollList[1].fd = Server
        /\ \A k \in DOMAIN sockets : pollList[k + 1].fd = sockets[k]
    BY <1>1 DEF Lists, Aligned
  <2>2. \A k \in DOMAIN sockets : k + 1 \in 1 .. Len(pollList)
    BY <1>8, <2>1
  <2> QED
    BY <1>2, <1>5, <1>6, <1>8, <2>1, <2>2 DEF Aligned
<1> QED
  BY <1>7, <1>9

\* The first connection that waits is taken out of the queue.
LEMMA TailOrder ==
    ASSUME Shapes, Order, backlog /= <<>>
    PROVE  /\ Tail(backlog) \in Seq(Conns) /\ Sorted(Tail(backlog))
           /\ \A k \in DOMAIN Tail(backlog) :
                Tail(backlog)[k] <= arrived /\ Head(backlog) < Tail(backlog)[k]
           /\ \A c \in accepted : \A k \in DOMAIN Tail(backlog) : c < Tail(backlog)[k]
           /\ Head(backlog) \in Conns /\ Head(backlog) <= arrived
           /\ \A c \in accepted : c < Head(backlog)
<1> DEFINE t == Tail(backlog)
<1>1. backlog \in Seq(Conns)
  BY DEF Shapes
<1>2. /\ Head(backlog) \in Conns /\ t \in Seq(Conns) /\ Len(t) = Len(backlog) - 1
      /\ \A k \in 1 .. Len(t) : t[k] = backlog[k + 1]
  BY <1>1, HeadTailProperties
<1>3. Head(backlog) = backlog[1] /\ 1 \in DOMAIN backlog
  BY <1>1
<1> HIDE DEF t
<1>4. DOMAIN t = 1 .. Len(t) /\ \A k \in 1 .. Len(t) : k + 1 \in DOMAIN backlog /\ 1 < k + 1
  BY <1>1, <1>2
<1>5. Sorted(t)
  BY <1>2, <1>4, SMTT(30) DEF Order, Sorted
<1>6. \A k \in DOMAIN t : t[k] <= arrived /\ Head(backlog) < t[k]
  BY <1>2, <1>3, <1>4 DEF Order, Sorted
<1>7. \A c \in accepted : \A k \in DOMAIN t : c < t[k]
  BY <1>2, <1>4 DEF Order
<1>8. Head(backlog) <= arrived /\ \A c \in accepted : c < Head(backlog)
  BY <1>3 DEF Order
<1> QED
  BY <1>2, <1>5, <1>6, <1>7, <1>8 DEF t

LEMMA AcceptLists == Lists /\ AcceptNext => Shapes' /\ Order' /\ Aligned'
<1> SUFFICES ASSUME Lists, AcceptNext PROVE Shapes' /\ Order' /\ Aligned'
  OBVIOUS
<1> DEFINE c == Head(backlog)
           e == [fd |-> c, revents |-> "none"]
<1>1. /\ sockets' = Append(sockets, c) /\ pollList' = Append(pollList, e)
      /\ backlog' = Tail(backlog) /\ accepted' = accepted \cup {c} /\ backlog /= <<>>
      /\ UNCHANGED <<hasData, arrived>>
  BY DEF AcceptNext, countVars
<1>2. /\ Tail(backlog) \in Seq(Conns) /\ Sorted(Tail(backlog))
      /\ \A k \in DOMAIN Tail(backlog) : Tail(backlog)[k] <= arrived /\ c < Tail(backlog)[k]
      /\ \A a \in accepted : \A k \in DOMAIN Tail(backlog) : a < Tail(backlog)[k]
      /\ c \in Conns /\ c <= arrived
      /\ \A a \in accepted : a < c
  BY <1>1, TailOrder DEF Lists
<1>3. e \in Entry /\ e.fd = c
  BY <1>2 DEF Entry, Events
<1> HIDE DEF c, e
<1>4. sockets \in Seq(Conns) /\ pollList \in Seq(Entry)
  BY DEF Lists, Shapes
<1>5. /\ sockets' \in Seq(Conns) /\ Len(sockets') = Len(sockets) + 1
      /\ \A k \in 1 .. Len(sockets) : sockets'[k] = sockets[k]
      /\ sockets'[Len(sockets) + 1] = c
  BY <1>1, <1>2, <1>4, AppendProperties
<1>6. /\ pollList' \in Seq(Entry) /\ Len(pollList') = Len(pollList) + 1
      /\ \A k \in 1 .. Len(pollList) : pollList'[k] = pollList[k]
      /\ pollList'[Len(pollList) + 1] = e
  BY <1>1, <1>3, <1>4, AppendProperties
<1>7. DOMAIN sockets = 1 .. Len(sockets) /\ DOMAIN sockets' = 1 .. Len(sockets) + 1 /\ Len(sockets) \in Nat
  BY <1>4, <1>5
<1>8. \A k \in DOMAIN sockets : sockets[k] \in accepted /\ sockets[k] >= k /\ sockets[k] < c
  BY <1>2 DEF Lists, Order
<1>9. c >= Len(sockets) + 1
  <2>1. CASE Len(sockets) = 0
    BY <1>2, <2>1 DEF Conns
  <2>2. CASE Len(sockets) > 0
    <3>1. Len(sockets) \in DOMAIN sockets /\ sockets[Len(sockets)] \in Conns
      BY <1>4, <1>7, <2>2
    <3> QED
      BY <1>2, <1>7, <1>8, <3>1 DEF Conns
  <2> QED
    BY <1>7, <2>1, <2>2
<1>10. Shapes'
  BY <1>1, <1>2, <1>5, <1>6 DEF Lists, Shapes
<1>11. Sorted(sockets')
  BY <1>5, <1>7, <1>8 DEF Lists, Order, Sorted
<1>12. Order'
  <2>1. \A k \in DOMAIN sockets' : sockets'[k] \in accepted' /\ sockets'[k] >= k
    BY <1>1, <1>5, <1>7, <1>8, <1>9
  <2>2. Sorted(sockets)' /\ Sorted(backlog)'
    BY <1>1, <1>2, <1>11 DEF Sorted
  <2>3. \A k \in DOMAIN backlog' : backlog'[k] <= arrived'
    BY <1>1, <1>2
  <2>4. \A a \in accepted' : a <= arrived' /\ \A k \in DOMAIN backlog' : a < backlog'[k]
    BY <1>1, <1>2 DEF Lists, Order
  <2> QED
    BY <2>1, <2>2, <2>3, <2>4 DEF Order
<1>13. ASSUME hasData'
       PROVE  /\ Len(pollList') = Len(sockets') + 1
              /\ pollList'[1].fd = Server
              /\ \A k \in DOMAIN sockets' : pollList'[k + 1].fd = sockets'[k]
  <2>1. /\ Len(pollList) = Len(sockets) + 1 /\ pollList[1].fd = Server
        /\ \A k \in DOMAIN sockets : pollList[k + 1].fd = sockets[k]
    BY <1>1, <1>13 DEF Lists, Aligned
  <2>2. 1 \in 1 .. Len(pollList) /\ \A k \in DOMAIN sockets : k + 1 \in 1 .. Len(pollList)
    BY <1>7, <2>1
  <2>3. pollList'[(Len(sockets) + 1) + 1].fd = c
    BY <1>3, <1>6, <2>1
  <2>4. \A k \in DOMAIN sockets' : k \in DOMAIN sockets \/ k = Len(sockets) + 1
    BY <1>7
  <2> QED
    BY <1>5, <1>6, <1>7, <2>1, <2>2, <2>3, <2>4
<1> QED
  BY <1>10, <1>12, <1>13 DEF Aligned

\* The steps that change the queue only.
LEMMA QueueLists == Lists /\ (AcceptFails \/ Arrive) => Shapes' /\ Order' /\ Aligned'
<1> SUFFICES ASSUME Lists, AcceptFails \/ Arrive PROVE Shapes' /\ Order' /\ Aligned'
  OBVIOUS
<1>1. UNCHANGED <<hasData, pollList, sockets, accepted>>
  BY DEF AcceptFails, Arrive, listVars, toldVars
<1>2. CASE UNCHANGED <<backlog, arrived>>
  BY <1>1, <1>2 DEF Lists, Shapes, Order, Sorted, Aligned
<1>3. CASE backlog /= <<>> /\ backlog' = Tail(backlog) /\ UNCHANGED arrived
  <2>1. /\ Tail(backlog) \in Seq(Conns) /\ Sorted(Tail(backlog))
        /\ \A k \in DOMAIN Tail(backlog) : Tail(backlog)[k] <= arrived
        /\ \A c \in accepted : \A k \in DOMAIN Tail(backlog) : c < Tail(backlog)[k]
    BY <1>3, TailOrder DEF Lists
  <2> QED
    BY <1>1, <1>3, <2>1 DEF Lists, Shapes, Order, Sorted, Aligned
<1>4. CASE Arrive
  <2>1. /\ arrived' = arrived + 1 /\ backlog' = Append(backlog, arrived + 1)
        /\ arrived < MaxConns /\ backlog \in Seq(Conns) /\ arrived \in 0 .. MaxConns
    BY <1>4 DEF Arrive, Lists, Shapes
  <2>2. arrived + 1 \in Conns /\ arrived' \in 0 .. MaxConns
    BY <2>1, BoundsAssumption DEF Conns
  <2>3. /\ backlog' \in Seq(Conns) /\ Len(backlog') = Len(backlog) + 1
        /\ \A k \in 1 .. Len(backlog) : backlog'[k] = backlog[k]
        /\ backlog'[Len(backlog) + 1] = arrived + 1
    BY <2>1, <2>2, AppendProperties
  <2>4. /\ DOMAIN backlog = 1 .. Len(backlog) /\ Len(backlog) \in Nat
        /\ DOMAIN backlog' = 1 .. Len(backlog) + 1
    BY <2>1, <2>3
  <2>5. accepted \subseteq Int /\ \A k \in DOMAIN backlog : backlog[k] \in Int /\ backlog[k] <= arrived
    <3>1. Conns \subseteq Int
      BY DEF Conns
    <3>2. accepted \subseteq Conns /\ \A k \in DOMAIN backlog : backlog[k] \in Conns
      BY <2>1 DEF Lists, Shapes
    <3> QED
      BY <3>1, <3>2 DEF Lists, Order
  <2>6. Sorted(backlog')
    BY <2>1, <2>3, <2>4, <2>5 DEF Lists, Order, Sorted
  <2>7. \A k \in DOMAIN backlog' : backlog'[k] <= arrived'
    BY <2>1, <2>3, <2>4, <2>5
  <2>8. \A c \in accepted : c <= arrived' /\ \A k \in DOMAIN backlog' : c < backlog'[k]
    BY <2>1, <2>3, <2>4, <2>5 DEF Lists, Order
  <2> QED
    BY <1>1, <2>2, <2>3, <2>6, <2>7, <2>8 DEF Lists, Shapes, Order, Sorted, Aligned
<1>5. AcceptFails => \/ UNCHANGED <<backlog, arrived>>
                     \/ backlog /= <<>> /\ backlog' = Tail(backlog) /\ UNCHANGED arrived
  BY DEF AcceptFails
<1> QED
  BY <1>2, <1>3, <1>4, <1>5

\* A socket that is removed leaves both lists at the same place.
LEMMA RemoveLists == Lists /\ Running /\ RemoveNext => Shapes' /\ Order' /\ Aligned'
<1> SUFFICES ASSUME Lists, Running, RemoveNext PROVE Shapes' /\ Order' /\ Aligned'
  OBVIOUS
<1>1. UNCHANGED <<hasData, backlog, accepted, arrived>>
  BY DEF RemoveNext, countVars
<1>2. CASE UNCHANGED <<sockets, pollList>>
  BY <1>1, <1>2 DEF Lists, Shapes, Order, Sorted, Aligned
<1>3. CASE sockets' = RemoveAt(sockets, i) /\ pollList' = RemoveAt(pollList, i + 1)
  <2>1. sockets \in Seq(Conns) /\ pollList \in Seq(Entry) /\ i \in 1 .. Len(sockets)
    BY DEF Lists, Shapes, Index, RemoveNext
  <2>2. hasData
    BY DEF Running, RemoveNext
  <2>3. /\ Len(pollList) = Len(sockets) + 1 /\ pollList[1].fd = Server
        /\ \A k \in DOMAIN sockets : pollList[k + 1].fd = sockets[k]
    BY <2>2 DEF Lists, Aligned
  <2>4. /\ sockets' \in Seq(Conns) /\ Len(sockets') = Len(sockets) - 1
        /\ \A j \in 1 .. Len(sockets) - 1 : sockets'[j] = IF j < i THEN sockets[j] ELSE sockets[j + 1]
    BY <1>3, <2>1, RemoveAtProperties
  <2>5. i + 1 \in 1 .. Len(pollList)
    BY <2>1, <2>3
  <2>6. /\ pollList' \in Seq(Entry) /\ Len(pollList') = Len(pollList) - 1
        /\ \A j \in 1 .. Len(pollList) - 1 :
             pollList'[j] = IF j < i + 1 THEN pollList[j] ELSE pollList[j + 1]
    BY <1>3, <2>1, <2>5, RemoveAtProperties
  <2>7. /\ DOMAIN sockets = 1 .. Len(sockets) /\ Len(sockets) \in Nat /\ i \in Int
        /\ DOMAIN sockets' = 1 .. Len(sockets) - 1
    BY <2>1, <2>4
  <2>8. \A k \in DOMAIN sockets : /\ sockets[k] \in accepted /\ sockets[k] \in Int /\ sockets[k] >= k
    <3>1. Conns \subseteq Int
      BY DEF Conns
    <3>2. \A k \in DOMAIN sockets : sockets[k] \in Conns
      BY <2>1
    <3> QED
      BY <3>1, <3>2 DEF Lists, Order
  <2>9. Sorted(sockets')
    <3>1. \A j, k \in DOMAIN sockets : j < k => sockets[j] < sockets[k]
      BY DEF Lists, Order, Sorted
    <3>2. SUFFICES ASSUME NEW j \in DOMAIN sockets', NEW k \in DOMAIN sockets', j < k
                   PROVE  sockets'[j] < sockets'[k]
      BY DEF Sorted
    <3>3. /\ sockets'[j] = IF j < i THEN sockets[j] ELSE sockets[j + 1]
          /\ sockets'[k] = IF k < i THEN sockets[k] ELSE sockets[k + 1]
          /\ j \in 1 .. Len(sockets) - 1 /\ k \in 1 .. Len(sockets) - 1
      BY <2>4, <2>7
    <3>4. /\ j \in DOMAIN sockets /\ j + 1 \in DOMAIN sockets
          /\ k \in DOMAIN sockets /\ k + 1 \in DOMAIN sockets
      BY <2>7, <3>3
    <3>5. CASE k < i
      BY <2>7, <3>1, <3>2, <3>3, <3>4, <3>5
    <3>6. CASE ~(k < i) /\ j < i
      BY <2>7, <3>1, <3>2, <3>3, <3>4, <3>6
    <3>7. CASE ~(k < i) /\ ~(j < i)
      BY <2>7, <3>1, <3>2, <3>3, <3>4, <3>7
    <3> QED
      BY <3>5, <3>6, <3>7
  <2>10. \A k \in DOMAIN sockets' : sockets'[k] \in accepted /\ sockets'[k] >= k
    BY <2>4, <2>7, <2>8, SMTT(30)
  <2>11. Shapes' /\ Order'
    BY <1>1, <2>4, <2>6, <2>9, <2>10 DEF Lists, Shapes, Order, Sorted
  <2>12. pollList'[1].fd = Server
    BY <2>1, <2>3, <2>6, <2>7
  <2>13. ASSUME NEW k \in DOMAIN sockets' PROVE pollList'[k + 1].fd = sockets'[k]
    <3>1. k \in 1 .. Len(sockets) - 1 /\ k + 1 \in 1 .. Len(pollList) - 1
      BY <2>3, <2>7
    <3>2. CASE k < i
      BY <3>1, <3>2, <2>3, <2>4, <2>6, <2>7
    <3>3. CASE k >= i
      <4>1. sockets'[k] = sockets[k + 1] /\ k + 1 \in DOMAIN sockets
        BY <3>1, <3>3, <2>4, <2>7
      <4>2. pollList'[k + 1] = pollList[(k + 1) + 1]
        BY <3>1, <3>3, <2>6, <2>7
      <4> QED
        BY <4>1, <4>2, <2>3
    <3> QED
      BY <3>1, <3>2, <3>3, <2>7
  <2> QED
    BY <2>3, <2>4, <2>6, <2>11, <2>12, <2>13 DEF Aligned
<1> QED
  BY <1>2, <1>3 DEF RemoveNext, RemoveClosed, Erase

LEMMA IndexRange ==
    ASSUME Running, Lists
    PROVE  /\ Len(sockets) \in Nat /\ Len(pollList) \in Nat
           /\ i \in 0 .. Len(sockets) + 1
           /\ hasData => Len(pollList) = Len(sockets) + 1
<1>1. Len(sockets) \in Nat /\ Len(pollList) \in Nat
  BY DEF Lists, Shapes
<1>2. hasData => Len(pollList) = Len(sockets) + 1
  BY DEF Lists, Aligned
<1>3. pc = "read" => hasData
  BY DEF Running
<1> QED
  BY <1>1, <1>2, <1>3 DEF Running, Labels, Lists, Index

LEMMA NextIndex == Running /\ Lists /\ [Next]_vars => Index'
<1> SUFFICES ASSUME Running, Lists, [Next]_vars PROVE Index'
  OBVIOUS
<1>0. /\ Len(sockets) \in Nat /\ Len(pollList) \in Nat /\ Index /\ pc \in Labels
      /\ pc \in {"events", "accept", "read"} => Len(pollList) = Len(sockets) + 1
  BY IndexRange DEF Running, Lists
<1> USE <1>0 DEF Index, Labels, listVars, loopVars
<1>1. CASE Poll
  BY <1>1 DEF Poll, StartRemoval
<1>2. CASE RemoveNext
  <2>1. pc' = "remove" /\ i' = i - 1 /\ i \in 1 .. Len(sockets)
    BY <1>2 DEF RemoveNext
  <2>2. sockets \in Seq(Conns)
    BY DEF Lists, Shapes
  <2>3. CASE UNCHANGED sockets
    BY <2>1, <2>3
  <2>4. CASE sockets' = RemoveAt(sockets, i)
    <3>1. Len(sockets') = Len(sockets) - 1
      BY <2>1, <2>2, <2>4, RemoveAtProperties
    <3> QED
      BY <2>1, <3>1
  <2> QED
    BY <1>2, <2>3, <2>4 DEF RemoveNext, RemoveClosed, Erase
<1>3. CASE ServeNext \/ ServeEnd \/ AcceptEnd \/ CheckListener
  BY <1>3 DEF ServeNext, ServeEnd, StartRemoval, AcceptEnd, CheckListener, ServeListener
<1>4. CASE UserCloses \/ SendToAllFails \/ Arrive \/ UNCHANGED vars
  BY <1>4 DEF UserCloses, SendToAllFails, Arrive, vars
<1>5. CASE StartListening \/ StopListening \/ StartFails \/ PollFails
  BY <1>5 DEF StartListening, StopListening, Stop, StartFails, PollFails
<1>6. CASE StopNext \/ StopEnd \/ RemoveEnd
  BY <1>6 DEF StopNext, StopEnd, Idle, RemoveEnd
<1>7. CASE AcceptNext
  BY <1>7 DEF AcceptNext
<1>8. CASE AcceptFails
  BY <1>8 DEF AcceptFails, Idle
<1> QED
  BY <1>1, <1>2, <1>3, <1>4, <1>5, <1>6, <1>7, <1>8, Zenon DEF Next, PollStep, Faults, Program

LEMMA NextLists == Running /\ Lists /\ [Next]_vars => Lists'
<1> SUFFICES ASSUME Running, Lists, [Next]_vars PROVE Shapes' /\ Order' /\ Aligned'
  BY NextIndex, Zenon DEF Lists
<1>1. CASE UNCHANGED <<hasData, pollList, sockets, backlog, accepted, arrived>>
  BY <1>1 DEF Lists, Shapes, Order, Sorted, Aligned
<1> QED
  BY <1>1, ListSteps, StartLists, PollLists, AcceptLists, QueueLists, RemoveLists, Zenon

LEMMA ListsImplyAgree == Lists => ListsAgree
<1> SUFFICES ASSUME Lists, hasData PROVE \A j, k \in DOMAIN sockets : sockets[j] = sockets[k] => j = k
  BY DEF Lists, Aligned, ListsAgree
<1>1. DOMAIN sockets \subseteq Int /\ \A k \in DOMAIN sockets : sockets[k] \in Int
  <2>1. Conns \subseteq Int
    BY DEF Conns
  <2>2. DOMAIN sockets \subseteq Int /\ \A k \in DOMAIN sockets : sockets[k] \in Conns
    BY DEF Lists, Shapes
  <2> QED
    BY <2>1, <2>2
<1>2. \A j, k \in DOMAIN sockets : j < k => sockets[j] < sockets[k]
  BY DEF Lists, Order, Sorted
<1> QED
  BY <1>1, <1>2

\* The two lists describe the same sockets in the same order, for any number of
\* connections and whatever sockets the callbacks close.
THEOREM ListsStayAligned == Spec => []ListsAgree
<1>1. Init => Flags /\ Running /\ Lists
  BY InitRunning, InitLists
<1>2. Flags /\ Running /\ Lists /\ [Next]_vars => Flags' /\ Running' /\ Lists'
  BY NextRunning, NextLists
<1> QED
  BY <1>1, <1>2, ListsImplyAgree, PTL DEF Spec

-----------------------------------------------------------------------------
\* Who was told of what: a socket that is listed is open and its callback has not come,
\* except for those that the loop of stopListening() has passed; an accepted one that is
\* not listed was closed and told of; nothing was told of any other connection.

Open(c) == told[c] = 0 /\ fdOpen[c] = TRUE
Closed(c) == told[c] = 1 /\ fdOpen[c] = FALSE

Passed(k) == pc = "stop" /\ k < i

ToldInv ==
    /\ told \in [Conns -> 0 .. 1] /\ fdOpen \in [Conns -> BOOLEAN]
    /\ ~listening => sockets = <<>>
    /\ \A c \in Conns : c \notin accepted => told[c] = 0
    /\ \A c \in accepted : Closed(c) \/ \E k \in DOMAIN sockets : sockets[k] = c
    /\ \A k \in DOMAIN sockets : IF Passed(k) THEN Closed(sockets[k]) ELSE Open(sockets[k])

LEMMA InitTold == Init => ToldInv
BY DEF Init, ToldInv, Passed, Open, Closed

\* The steps that the callbacks' account can see.
LEMMA ToldSteps ==
    [Next]_vars =>
        \/ /\ UNCHANGED <<told, fdOpen, accepted, sockets, listening>>
           /\ pc /= "stop" /\ pc' /= "stop"
        \/ UNCHANGED <<told, fdOpen, accepted, sockets, listening, pc, i>>
        \/ StartFails \/ StartListening \/ StopListening \/ PollFails \/ StopNext \/ StopEnd
        \/ AcceptNext \/ RemoveNext
<1> SUFFICES ASSUME [Next]_vars
             PROVE  \/ /\ UNCHANGED <<told, fdOpen, accepted, sockets, listening>>
                       /\ pc /= "stop" /\ pc' /= "stop"
                    \/ UNCHANGED <<told, fdOpen, accepted, sockets, listening, pc, i>>
                    \/ StartFails \/ StartListening \/ StopListening \/ PollFails \/ StopNext
                    \/ StopEnd \/ AcceptNext \/ RemoveNext
  OBVIOUS
<1> USE DEF listVars, socketVars, loopVars, toldVars
<1>1. CASE Poll
  BY <1>1 DEF Poll, StartRemoval
<1>2. CASE ServeNext \/ ServeEnd \/ AcceptEnd \/ CheckListener
  BY <1>2 DEF ServeNext, ServeEnd, StartRemoval, AcceptEnd, CheckListener, ServeListener
<1>3. CASE UserCloses \/ SendToAllFails \/ Arrive \/ UNCHANGED vars
  BY <1>3 DEF UserCloses, SendToAllFails, Arrive, vars
<1>4. CASE AcceptFails
  BY <1>4 DEF AcceptFails, Idle
<1>5. CASE RemoveEnd
  BY <1>5 DEF RemoveEnd, Idle
<1> QED
  BY <1>1, <1>2, <1>3, <1>4, <1>5, Zenon DEF Next, PollStep, Faults, Program

LEMMA NextTold == Running /\ Lists /\ ToldInv /\ [Next]_vars => ToldInv'
<1> SUFFICES ASSUME Running, Lists, ToldInv, [Next]_vars PROVE ToldInv'
  OBVIOUS
<1>0. /\ sockets \in Seq(Conns) /\ DOMAIN sockets = 1 .. Len(sockets) /\ Len(sockets) \in Nat
      /\ \A k \in DOMAIN sockets : sockets[k] \in Conns /\ sockets[k] \in accepted
      /\ \A j, k \in DOMAIN sockets : sockets[j] = sockets[k] => j = k
      /\ accepted \subseteq Conns
  <2>1. \A j, k \in DOMAIN sockets : j < k => sockets[j] < sockets[k]
    BY DEF Lists, Order, Sorted
  <2>2. Conns \subseteq Int
    BY DEF Conns
  <2>3. /\ sockets \in Seq(Conns) /\ DOMAIN sockets = 1 .. Len(sockets) /\ Len(sockets) \in Nat
        /\ \A k \in DOMAIN sockets : sockets[k] \in Conns
        /\ accepted \subseteq Conns
    BY DEF Lists, Shapes
  <2>4. \A k \in DOMAIN sockets : sockets[k] \in accepted
    BY DEF Lists, Order
  <2>5. \A j, k \in DOMAIN sockets : sockets[j] = sockets[k] => j = k
    <3>1. SUFFICES ASSUME NEW j \in DOMAIN sockets, NEW k \in DOMAIN sockets, j /= k
                   PROVE  sockets[j] /= sockets[k]
      OBVIOUS
    <3>2. sockets[j] \in Conns /\ sockets[k] \in Conns
      BY <2>3
    <3>3. sockets[j] \in Int /\ sockets[k] \in Int
      BY <2>2, <3>2
    <3>4. DOMAIN sockets \subseteq Int
      BY <2>3
    <3>5. j < k \/ k < j
      BY <3>1, <3>4
    <3> QED
      BY <2>1, <3>3, <3>5
  <2> QED
    BY <2>3, <2>4, <2>5
<1>10. ASSUME NEW n \in 1 .. Len(sockets)
       PROVE  /\ RemoveAt(sockets, n) \in Seq(Conns) /\ Len(RemoveAt(sockets, n)) = Len(sockets) - 1
              /\ \A j \in 1 .. Len(sockets) - 1 :
                   RemoveAt(sockets, n)[j] = IF j < n THEN sockets[j] ELSE sockets[j + 1]
  <2>1. sockets \in Seq(Conns)
    BY <1>0
  <2> QED
    BY <2>1, RemoveAtProperties
<1> USE DEF ToldInv, Open, Closed, Passed
<1>1. CASE /\ UNCHANGED <<told, fdOpen, accepted, sockets, listening>>
           /\ pc /= "stop" /\ pc' /= "stop"
  BY <1>1
<1>2. CASE UNCHANGED <<told, fdOpen, accepted, sockets, listening, pc, i>>
  BY <1>2
<1>3. CASE StartFails
  <2>1. UNCHANGED <<told, fdOpen, accepted, sockets>> /\ sockets = <<>>
    BY <1>3 DEF StartFails, socketVars, toldVars
  <2> QED
    BY <2>1
<1>4. CASE StartListening
  <2>1. UNCHANGED <<told, fdOpen, accepted>> /\ sockets = <<>> /\ sockets' = <<>>
    BY <1>4 DEF StartListening, socketVars, toldVars
  <2> QED
    BY <2>1
<1>5. CASE StopListening \/ PollFails
  <2>1. UNCHANGED <<told, fdOpen, accepted, sockets, listening>> /\ pc = "idle" /\ i' = 1
    BY <1>5 DEF StopListening, PollFails, Stop, listVars, socketVars, toldVars
  <2> QED
    BY <1>0, <2>1
<1>6. CASE StopNext
  <2>1. /\ pc = "stop" /\ pc' = "stop" /\ i' = i + 1 /\ i <= Len(sockets)
        /\ fdOpen' = [fdOpen EXCEPT ![sockets[i]] = FALSE]
        /\ told' = [told EXCEPT ![sockets[i]] = @ + 1]
        /\ UNCHANGED <<accepted, sockets, listening>>
    BY <1>6 DEF StopNext, listVars
  <2>2. i \in 1 .. Len(sockets)
    BY <2>1, <1>0 DEF Lists, Index
  <2>3. told[sockets[i]] = 0 /\ sockets[i] \in Conns /\ sockets[i] \in accepted /\ i \in DOMAIN sockets
    BY <1>0, <2>1, <2>2
  <2>4. /\ told'[sockets[i]] = 1 /\ fdOpen'[sockets[i]] = FALSE
        /\ \A c \in Conns : c /= sockets[i] => told'[c] = told[c] /\ fdOpen'[c] = fdOpen[c]
    BY <2>1, <2>3
  <2>5. told' \in [Conns -> 0 .. 1] /\ fdOpen' \in [Conns -> BOOLEAN]
    BY <2>1, <2>3
  <2>6. ASSUME NEW k \in DOMAIN sockets
        PROVE  IF k < i + 1 THEN told'[sockets[k]] = 1 /\ fdOpen'[sockets[k]] = FALSE
                            ELSE told'[sockets[k]] = 0 /\ fdOpen'[sockets[k]] = TRUE
    <3>1. CASE k = i
      BY <2>2, <2>4, <3>1
    <3>2. CASE k /= i
      <4>1. sockets[k] \in Conns /\ sockets[k] /= sockets[i]
        BY <1>0, <2>3, <3>2
      <4>2. IF k < i THEN told[sockets[k]] = 1 /\ fdOpen[sockets[k]] = FALSE
                     ELSE told[sockets[k]] = 0 /\ fdOpen[sockets[k]] = TRUE
        BY <2>1
      <4>3. k < i <=> k < i + 1
        BY <1>0, <2>2, <3>2
      <4> QED
        BY <2>4, <4>1, <4>2, <4>3
    <3> QED
      BY <3>1, <3>2
  <2>7. \A c \in Conns : c \notin accepted' => told'[c] = 0
    BY <2>1, <2>3, <2>4
  <2>8. ASSUME NEW c \in accepted'
        PROVE  \/ told'[c] = 1 /\ fdOpen'[c] = FALSE
               \/ \E k \in DOMAIN sockets' : sockets'[k] = c
    <3>1. c \in Conns /\ c \in accepted
      BY <1>0, <2>1
    <3> QED
      BY <2>1, <2>4, <3>1
  <2>9. ~listening' => sockets' = <<>>
    BY <2>1
  <2>10. \A k \in DOMAIN sockets' : IF pc' = "stop" /\ k < i'
                                    THEN told'[sockets'[k]] = 1 /\ fdOpen'[sockets'[k]] = FALSE
                                    ELSE told'[sockets'[k]] = 0 /\ fdOpen'[sockets'[k]] = TRUE
    BY <2>1, <2>6
  <2> QED
    BY <2>5, <2>7, <2>8, <2>9, <2>10
<1>7. CASE StopEnd
  <2>1. /\ UNCHANGED <<told, fdOpen, accepted>> /\ sockets' = <<>> /\ pc = "stop" /\ i > Len(sockets)
    BY <1>7 DEF StopEnd, socketVars, toldVars
  <2>2. \A k \in DOMAIN sockets : k < i
    BY <1>0, <2>1 DEF Lists, Index
  <2>3. \A c \in accepted : Closed(c)
    BY <1>0, <2>1, <2>2
  <2> QED
    BY <2>1, <2>3
<1>8. CASE AcceptNext
  <2> DEFINE h == Head(backlog)
  <2>1. /\ pc = "accept" /\ backlog /= <<>> /\ pc' = pc
        /\ sockets' = Append(sockets, h)
        /\ fdOpen' = [fdOpen EXCEPT ![h] = TRUE]
        /\ accepted' = accepted \cup {h}
        /\ UNCHANGED <<told, listening>>
    BY <1>8 DEF AcceptNext, loopVars
  <2>2. h \in Conns /\ \A c \in accepted : c < h
    BY <2>1, TailOrder DEF Lists
  <2> HIDE DEF h
  <2>3. h \notin accepted
    <3>1. h \in Int
      BY <2>2 DEF Conns
    <3> QED
      BY <2>2, <3>1
  <2>4. /\ sockets' \in Seq(Conns) /\ Len(sockets') = Len(sockets) + 1
        /\ \A k \in 1 .. Len(sockets) : sockets'[k] = sockets[k]
        /\ sockets'[Len(sockets) + 1] = h
    BY <1>0, <2>1, <2>2, AppendProperties
  <2>5. /\ DOMAIN sockets' = 1 .. Len(sockets) + 1
        /\ \A k \in DOMAIN sockets' : k \in DOMAIN sockets \/ k = Len(sockets) + 1
        /\ DOMAIN sockets \subseteq DOMAIN sockets' /\ Len(sockets) + 1 \in DOMAIN sockets'
    BY <1>0, <2>4
  <2>6. listening
    BY <2>1 DEF Running
  <2>7. fdOpen' \in [Conns -> BOOLEAN] /\ fdOpen'[h] = TRUE /\ told'[h] = 0
        /\ \A c \in Conns : c /= h => fdOpen'[c] = fdOpen[c]
    BY <2>1, <2>2, <2>3
  <2>8. ASSUME NEW k \in DOMAIN sockets'
        PROVE  told'[sockets'[k]] = 0 /\ fdOpen'[sockets'[k]] = TRUE
    <3>1. CASE k = Len(sockets) + 1
      BY <2>4, <2>7, <3>1
    <3>2. CASE k \in DOMAIN sockets
      <4>1. /\ sockets'[k] = sockets[k] /\ sockets[k] \in Conns /\ sockets[k] /= h
            /\ told[sockets[k]] = 0 /\ fdOpen[sockets[k]] = TRUE
        BY <1>0, <2>1, <2>3, <2>4, <3>2
      <4> QED
        BY <2>1, <2>7, <4>1
    <3> QED
      BY <2>5, <3>1, <3>2
  <2>9. ASSUME NEW c \in accepted'
        PROVE  \/ told'[c] = 1 /\ fdOpen'[c] = FALSE
               \/ \E k \in DOMAIN sockets' : sockets'[k] = c
    <3>1. CASE c = h
      BY <2>4, <2>5, <3>1
    <3>2. CASE c /= h
      <4>1. c \in Conns /\ c \in accepted /\ fdOpen'[c] = fdOpen[c] /\ told'[c] = told[c]
        BY <1>0, <2>1, <2>7, <3>2
      <4>2. CASE told[c] = 1 /\ fdOpen[c] = FALSE
        BY <4>1, <4>2
      <4>3. CASE \E k \in DOMAIN sockets : sockets[k] = c
        BY <1>0, <2>4, <2>5, <4>3
      <4> QED
        BY <4>1, <4>2, <4>3
    <3> QED
      BY <3>1, <3>2
  <2> QED
    BY <2>1, <2>6, <2>7, <2>8, <2>9
<1>9. CASE RemoveNext
  <2>1. /\ pc = "remove" /\ pc' = pc /\ i > 0
        /\ UNCHANGED <<accepted, listening>>
    BY <1>9 DEF RemoveNext
  <2>2. i \in DOMAIN sockets /\ i \in 1 .. Len(sockets)
    BY <1>0, <2>1 DEF Lists, Index
  <2>3. CASE UNCHANGED <<sockets, told, fdOpen>>
    BY <2>1, <2>3
  <2>4. CASE RemoveClosed(sockets[i])
    <3> DEFINE r == sockets[i]
    <3>1. /\ fdOpen' = [fdOpen EXCEPT ![r] = FALSE] /\ told' = [told EXCEPT ![r] = @ + 1]
          /\ sockets' = RemoveAt(sockets, i)
      BY <2>4 DEF RemoveClosed, Erase
    <3>2. /\ sockets' \in Seq(Conns) /\ Len(sockets') = Len(sockets) - 1
          /\ \A j \in 1 .. Len(sockets) - 1 : sockets'[j] = IF j < i THEN sockets[j] ELSE sockets[j + 1]
      BY <1>10, <2>2, <3>1
    <3>3. r \in Conns /\ r \in accepted /\ told[r] = 0
      BY <1>0, <2>1, <2>2
    <3>4. /\ told' \in [Conns -> 0 .. 1] /\ fdOpen' \in [Conns -> BOOLEAN]
          /\ told'[r] = 1 /\ fdOpen'[r] = FALSE
          /\ \A c \in Conns : c /= r => told'[c] = told[c] /\ fdOpen'[c] = fdOpen[c]
      BY <3>1, <3>3
    <3>5. DOMAIN sockets' = 1 .. Len(sockets) - 1
      BY <3>2
    <3>6. ASSUME NEW k \in DOMAIN sockets'
          PROVE  told'[sockets'[k]] = 0 /\ fdOpen'[sockets'[k]] = TRUE
      <4>1. PICK m \in DOMAIN sockets : m /= i /\ sockets'[k] = sockets[m]
        <5>1. CASE k < i
          BY <1>0, <2>2, <3>2, <3>5, <5>1
        <5>2. CASE ~(k < i)
          <6>1. k + 1 \in DOMAIN sockets /\ k + 1 /= i /\ sockets'[k] = sockets[k + 1]
            BY <1>0, <2>2, <3>2, <3>5, <5>2
          <6> QED
            BY <6>1
        <5> QED
          BY <5>1, <5>2
      <4>2. sockets[m] \in Conns /\ sockets[m] /= r
        BY <1>0, <2>2, <4>1
      <4>3. told[sockets[m]] = 0 /\ fdOpen[sockets[m]] = TRUE
        BY <2>1
      <4> QED
        BY <3>4, <4>1, <4>2, <4>3
    <3>7. ASSUME NEW c \in accepted'
          PROVE  \/ told'[c] = 1 /\ fdOpen'[c] = FALSE
                 \/ \E k \in DOMAIN sockets' : sockets'[k] = c
      <4>1. CASE c = r
        BY <3>4, <4>1
      <4>2. CASE c /= r
        <5>1. c \in Conns /\ c \in accepted /\ fdOpen'[c] = fdOpen[c] /\ told'[c] = told[c]
          BY <1>0, <2>1, <3>4, <4>2
        <5>2. CASE told[c] = 1 /\ fdOpen[c] = FALSE
          BY <5>1, <5>2
        <5>3. ASSUME NEW m \in DOMAIN sockets, sockets[m] = c
              PROVE  \E k \in DOMAIN sockets' : sockets'[k] = c
          <6>1. m /= i /\ m \in 1 .. Len(sockets) /\ i \in Int
            BY <1>0, <2>2, <4>2, <5>3
          <6>2. CASE m < i
            <7>1. m \in DOMAIN sockets' /\ sockets'[m] = sockets[m]
              BY <1>0, <2>2, <3>2, <3>5, <6>1, <6>2
            <7> QED
              BY <5>3, <7>1
          <6>3. CASE m > i
            <7>1. m - 1 \in 1 .. Len(sockets) - 1 /\ ~(m - 1 < i) /\ (m - 1) + 1 = m
              BY <1>0, <2>2, <6>1, <6>3
            <7>2. sockets'[m - 1] = sockets[(m - 1) + 1]
              BY <3>2, <7>1
            <7> QED
              BY <3>5, <5>3, <7>1, <7>2
          <6> QED
            BY <6>1, <6>2, <6>3
        <5> QED
          BY <5>1, <5>2, <5>3
      <4> QED
        BY <4>1, <4>2
    <3>8. \A c \in Conns : c \notin accepted' => told'[c] = 0
      BY <2>1, <3>3, <3>4
    <3> HIDE DEF r
    <3>9. listening
      BY <2>1 DEF Running
    <3> QED
      BY <2>1, <3>4, <3>6, <3>7, <3>8, <3>9
  <2> QED
    BY <1>9, <2>3, <2>4, Zenon DEF RemoveNext, socketVars
<1> QED
  BY <1>1, <1>2, <1>3, <1>4, <1>5, <1>6, <1>7, <1>8, <1>9, ToldSteps, Zenon

LEMMA ToldImpliesClosedOnce == Lists /\ ToldInv => ClosedOnce
<1> SUFFICES ASSUME Lists, ToldInv, NEW c \in accepted
             PROVE  (c \notin Listed => told[c] = 1) /\ (told[c] = 1 <=> ~fdOpen[c])
  BY DEF ClosedOnce
<1>1. CASE told[c] = 1 /\ fdOpen[c] = FALSE
  BY <1>1
<1>2. ASSUME NEW k \in DOMAIN sockets, sockets[k] = c
      PROVE  (c \notin Listed => told[c] = 1) /\ (told[c] = 1 <=> ~fdOpen[c])
  <2>1. c \in Listed
    BY <1>2 DEF Listed, Range
  <2>2. (told[c] = 0 /\ fdOpen[c] = TRUE) \/ (told[c] = 1 /\ fdOpen[c] = FALSE)
    BY <1>2 DEF ToldInv, Open, Closed
  <2> QED
    BY <2>1, <2>2
<1> QED
  BY <1>1, <1>2 DEF ToldInv, Closed

\* Each accepted connection is listed, or its descriptor was closed and the callback was
\* called for it, once.
THEOREM CallbacksComeOnce == Spec => []ClosedOnce
<1>1. Init => Flags /\ Running /\ Lists /\ ToldInv
  BY InitRunning, InitLists, InitTold
<1>2. Flags /\ Running /\ Lists /\ ToldInv /\ [Next]_vars
        => Flags' /\ Running' /\ Lists' /\ ToldInv'
  BY NextRunning, NextLists, NextTold
<1> QED
  BY <1>1, <1>2, ToldImpliesClosedOnce, PTL DEF Spec

-----------------------------------------------------------------------------
\* The count of the events: while poll() serves them, num is the number of entries at or
\* above its index that have one.  Accepting a connection changes neither.

EventsAbove(n) == {k \in DOMAIN pollList : k > n /\ pollList[k].revents /= "none"}

CountInv ==
    /\ pc = "events" => pollList[1].revents \in {"none", "in"} /\ served = {}
    /\ pc = "accept" => served = {}
    /\ pc \in {"events", "accept", "read"} =>
        /\ num = Cardinality(EventsAbove(i))
        /\ \A k \in DOMAIN sockets : reported[sockets[k]] = pollList[k + 1].revents
        /\ \A c \in Conns : reported[c] /= "none" => \E k \in DOMAIN sockets : sockets[k] = c
    /\ pc = "read" =>
        \A k \in DOMAIN sockets : k < i /\ reported[sockets[k]] /= "none" => sockets[k] \in served
    /\ pc = "remove" => \A c \in Conns : reported[c] /= "none" => c \in served
    /\ pc \notin {"events", "accept", "read"} => num = 0

LEMMA FiniteEvents ==
    ASSUME Shapes, NEW n \in Nat
    PROVE  /\ IsFiniteSet(EventsAbove(n)) /\ Cardinality(EventsAbove(n)) \in 0 .. Len(pollList)
           /\ Cardinality(EventsAbove(n)) = 0 <=> EventsAbove(n) = {}
           /\ n + 1 \in EventsAbove(n) =>
                Cardinality(EventsAbove(n + 1)) = Cardinality(EventsAbove(n)) - 1
           /\ n + 1 \notin EventsAbove(n) => EventsAbove(n + 1) = EventsAbove(n)
<1> DEFINE E == EventsAbove(n)
           F == EventsAbove(n + 1)
<1>1. Len(pollList) \in Nat /\ DOMAIN pollList = 1 .. Len(pollList)
  BY DEF Shapes
<1>2. IsFiniteSet(1 .. Len(pollList)) /\ Cardinality(1 .. Len(pollList)) = Len(pollList)
  <2>1. /\ IsFiniteSet(1 .. Len(pollList))
        /\ Cardinality(1 .. Len(pollList)) = IF 1 > Len(pollList) THEN 0 ELSE Len(pollList) - 1 + 1
    BY <1>1, FS_Interval, SMTT(30)
  <2> QED
    BY <1>1, <2>1
<1>3. E \subseteq 1 .. Len(pollList)
  BY <1>1 DEF EventsAbove
<1>4. F = E \ {n + 1}
  BY <1>1 DEF EventsAbove
<1> HIDE DEF E, F
<1>5. IsFiniteSet(E) /\ Cardinality(E) <= Len(pollList)
  BY <1>2, <1>3, FS_Subset
<1>6. Cardinality(E) \in Nat /\ (Cardinality(E) = 0 <=> E = {})
  BY <1>5, FS_CardinalityType, FS_EmptySet
<1>7. n + 1 \in E => Cardinality(F) = Cardinality(E) - 1
  BY <1>4, <1>5, FS_RemoveElement
<1>8. n + 1 \notin E => F = E
  BY <1>4
<1> QED
  BY <1>1, <1>5, <1>6, <1>7, <1>8 DEF E, F

LEMMA InitCount == Init => CountInv
BY DEF Init, CountInv

\* The steps that the count can see.
LEMMA CountSteps ==
    [Next]_vars =>
        \/ UNCHANGED <<pc, i, num, pollList, sockets, reported, served>>
        \/ pc' \in {"idle", "stop", "crashed"} /\ (num' = 0 \/ (pc = "idle" /\ num' = num)
                                                 \/ (pc = "stop" /\ num' = num))
        \/ Poll \/ CheckListener \/ AcceptNext \/ AcceptEnd \/ AcceptFails \/ ServeNext \/ ServeEnd
        \/ RemoveNext
<1> SUFFICES ASSUME [Next]_vars
             PROVE  \/ UNCHANGED <<pc, i, num, pollList, sockets, reported, served>>
                    \/ pc' \in {"idle", "stop", "crashed"} /\ (num' = 0 \/ (pc = "idle" /\ num' = num)
                                                             \/ (pc = "stop" /\ num' = num))
                    \/ Poll \/ CheckListener \/ AcceptNext \/ AcceptEnd \/ AcceptFails \/ ServeNext
                    \/ ServeEnd \/ RemoveNext
  OBVIOUS
<1> USE DEF listVars, loopVars, historyVars
<1>1. CASE StartListening \/ StartFails
  <2>1. pc = "idle" /\ pc' \in {"idle", "crashed"} /\ num' = num
    <3>1. CASE StartListening
      BY <3>1 DEF StartListening
    <3>2. CASE StartFails
      BY <3>2 DEF StartFails
    <3> QED
      BY <1>1, <3>1, <3>2
  <2> QED
    BY <2>1
<1>2. CASE StopListening \/ PollFails \/ StopEnd \/ RemoveEnd
  <2>1. pc' \in {"idle", "stop"} /\ num' = 0
    <3>1. CASE StopListening
      BY <3>1 DEF StopListening, Stop
    <3>2. CASE PollFails
      BY <3>2 DEF PollFails, Stop
    <3>3. CASE StopEnd
      BY <3>3 DEF StopEnd, Idle
    <3>4. CASE RemoveEnd
      BY <3>4 DEF RemoveEnd, Idle
    <3> QED
      BY <1>2, <3>1, <3>2, <3>3, <3>4
  <2>2. pc' \in {"idle", "stop", "crashed"}
    BY <2>1
  <2>3. num' = 0
    BY <2>1
  <2>4. pc' \in {"idle", "stop", "crashed"} /\ (num' = 0 \/ (pc = "idle" /\ num' = num)
                                                   \/ (pc = "stop" /\ num' = num))
    BY <2>2, <2>3
  <2> QED
    BY <2>4
<1>4. CASE StopNext
  BY <1>4 DEF StopNext
<1>3. CASE UserCloses \/ SendToAllFails \/ Arrive \/ UNCHANGED vars
  BY <1>3 DEF UserCloses, SendToAllFails, Arrive, vars
<1> QED
  BY <1>1, <1>2, <1>3, <1>4, Zenon DEF Next, PollStep, Faults, Program

LEMMA PollCount == Running /\ Lists /\ CountInv /\ Poll => CountInv'
<1> SUFFICES ASSUME Running, Lists, Poll PROVE CountInv'
  OBVIOUS
<1>1. hasData /\ sockets' = sockets
  BY DEF Running, Poll
<1>2. PICK ev \in [Listed -> Events] :
        /\ pollList' = [k \in DOMAIN pollList |->
              IF pollList[k].fd = Server
              THEN [fd |-> Server, revents |-> IF backlog = <<>> THEN "none" ELSE "in"]
              ELSE [fd |-> pollList[k].fd, revents |-> ev[pollList[k].fd]]]
        /\ reported' = [c \in Conns |-> IF c \in Listed THEN ev[c] ELSE "none"]
  BY Zenon DEF Poll
<1>3. /\ DOMAIN pollList = 1 .. Len(sockets) + 1 /\ pollList[1].fd = Server
      /\ \A k \in DOMAIN sockets : pollList[k + 1].fd = sockets[k]
      /\ DOMAIN sockets = 1 .. Len(sockets) /\ Len(sockets) \in Nat
      /\ \A k \in DOMAIN sockets : sockets[k] \in Conns
  <2>1. /\ Len(pollList) = Len(sockets) + 1 /\ pollList[1].fd = Server
        /\ \A k \in DOMAIN sockets : pollList[k + 1].fd = sockets[k]
    BY <1>1 DEF Lists, Aligned
  <2>2. /\ DOMAIN pollList = 1 .. Len(pollList)
        /\ DOMAIN sockets = 1 .. Len(sockets) /\ Len(sockets) \in Nat
        /\ \A k \in DOMAIN sockets : sockets[k] \in Conns
    BY DEF Lists, Shapes
  <2> QED
    BY <2>1, <2>2
<1>4. pollList'[1].revents \in {"none", "in"} /\ 1 \in DOMAIN pollList
  BY <1>2, <1>3
<1>5. ASSUME NEW k \in DOMAIN sockets
      PROVE  sockets[k] \in Listed /\ reported'[sockets[k]] = pollList'[k + 1].revents
  <2>1. sockets[k] \in Listed
    BY DEF Listed, Range
  <2>2. k + 1 \in DOMAIN pollList /\ pollList[k + 1].fd = sockets[k] /\ sockets[k] \in Conns
    BY <1>3
  <2>3. sockets[k] /= Server
    BY <2>2 DEF Conns, Server
  <2> QED
    BY <1>2, <2>1, <2>2, <2>3
<1>6. \A c \in Conns : reported'[c] /= "none" => \E k \in DOMAIN sockets : sockets[k] = c
  BY <1>2 DEF Listed, Range
<1>7. num' = Cardinality({k \in DOMAIN pollList : pollList'[k].revents /= "none"}) /\ served' = {}
  BY DEF Poll
<1>8. {k \in DOMAIN pollList : pollList'[k].revents /= "none"}
        = {k \in DOMAIN pollList' : k > 0 /\ pollList'[k].revents /= "none"}
  BY <1>2, <1>3
<1>9. CASE num' > 0
  <2>1. pc' = "events" /\ i' = 0
    BY <1>9 DEF Poll
  <2>2. num' = Cardinality(EventsAbove(i)')
    BY <1>7, <1>8, <2>1 DEF EventsAbove
  <2> QED
    BY <1>1, <1>4, <1>5, <1>6, <1>7, <2>1, <2>2 DEF CountInv
<1>10. CASE ~(num' > 0)
  <2>1. pc' = "remove"
    BY <1>10 DEF Poll, StartRemoval
  <2>2. num' = 0 /\ {k \in DOMAIN pollList : pollList'[k].revents /= "none"} = {}
    <3> DEFINE E == {k \in DOMAIN pollList : pollList'[k].revents /= "none"}
    <3>1. IsFiniteSet(1 .. Len(sockets) + 1) /\ E \subseteq 1 .. Len(sockets) + 1
      BY <1>3, FS_Interval
    <3> HIDE DEF E
    <3>2. IsFiniteSet(E)
      BY <3>1, FS_Subset
    <3>3. Cardinality(E) \in Nat /\ (Cardinality(E) = 0 <=> E = {})
      BY <3>2, FS_CardinalityType, FS_EmptySet
    <3>4. num' = Cardinality(E)
      BY <1>7 DEF E
    <3> QED
      BY <1>10, <3>3, <3>4 DEF E
  <2>3. ASSUME NEW c \in Conns, reported'[c] /= "none" PROVE FALSE
    <3>1. PICK k \in DOMAIN sockets : sockets[k] = c
      BY <1>6, <2>3
    <3>2. pollList'[k + 1].revents /= "none" /\ k + 1 \in DOMAIN pollList
      BY <1>3, <1>5, <2>3, <3>1
    <3> QED
      BY <2>2, <3>2
  <2> QED
    BY <2>1, <2>2, <2>3 DEF CountInv
<1> QED
  BY <1>9, <1>10

LEMMA NextCount == Running /\ Lists /\ CountInv /\ [Next]_vars => CountInv'
<1> SUFFICES ASSUME Running, Lists, CountInv, [Next]_vars PROVE CountInv'
  OBVIOUS
<1>0. /\ DOMAIN sockets = 1 .. Len(sockets) /\ Len(sockets) \in Nat
      /\ DOMAIN pollList = 1 .. Len(pollList) /\ Len(pollList) \in Nat
      /\ pc \in {"events", "accept", "read"} => Len(pollList) = Len(sockets) + 1
      /\ \A k \in DOMAIN sockets : sockets[k] \in Conns /\ sockets[k] \in accepted
      /\ Shapes /\ Index
  <2>1. /\ DOMAIN sockets = 1 .. Len(sockets) /\ Len(sockets) \in Nat
        /\ DOMAIN pollList = 1 .. Len(pollList) /\ Len(pollList) \in Nat
        /\ \A k \in DOMAIN sockets : sockets[k] \in Conns
    BY DEF Lists, Shapes
  <2>2. \A k \in DOMAIN sockets : sockets[k] \in accepted
    BY DEF Lists, Order
  <2>3. pc \in {"events", "accept", "read"} => Len(pollList) = Len(sockets) + 1
    BY DEF Running, Lists, Aligned
  <2> QED
    BY <2>1, <2>2, <2>3 DEF Lists
<1>1. CASE UNCHANGED <<pc, i, num, pollList, sockets, reported, served>>
  BY <1>1 DEF CountInv, EventsAbove
<1>2. CASE pc' \in {"idle", "stop", "crashed"} /\ (num' = 0 \/ (pc = "idle" /\ num' = num)
                                                  \/ (pc = "stop" /\ num' = num))
  BY <1>2 DEF CountInv
<1>3. CASE CheckListener
  <2>1. /\ pc = "events" /\ i' = 1 /\ UNCHANGED <<pollList, sockets, reported, served>>
        /\ \/ pollList[1].revents = "in" /\ pc' = "accept" /\ num' = num - 1
           \/ pollList[1].revents /= "in" /\ pc' = "read" /\ num' = num
    BY <1>3 DEF CheckListener, ServeListener, listVars, historyVars
  <2>2. /\ i = 0 /\ num = Cardinality(EventsAbove(0)) /\ served = {}
        /\ pollList[1].revents \in {"none", "in"} /\ 1 \in DOMAIN pollList
    BY <1>0, <2>1 DEF CountInv, Index
  <2>3. EventsAbove(1)' = EventsAbove(1)
    BY <2>1 DEF EventsAbove
  <2>4. pollList[1].revents /= "none" <=> 1 \in EventsAbove(0)
    BY <2>2 DEF EventsAbove
  <2>5. num' = Cardinality(EventsAbove(1))
    <3>1. /\ 0 + 1 \in EventsAbove(0) => Cardinality(EventsAbove(0 + 1)) = Cardinality(EventsAbove(0)) - 1
          /\ 0 + 1 \notin EventsAbove(0) => EventsAbove(0 + 1) = EventsAbove(0)
      BY <1>0, FiniteEvents
    <3> QED
      BY <2>1, <2>2, <2>4, <3>1
  <2>6. num' = Cardinality(EventsAbove(i)')
    BY <2>1, <2>5 DEF EventsAbove
  <2>7. \A k \in DOMAIN sockets : ~(k < 1)
    <3>1. DOMAIN sockets = 1 .. Len(sockets) /\ Len(sockets) \in Nat
      BY <1>0
    <3> QED
      BY <3>1
  <2> QED
    BY <2>1, <2>2, <2>6, <2>7 DEF CountInv
<1>4. CASE AcceptEnd \/ (AcceptFails /\ pc' = "read")
  <2>1. /\ pc = "accept" /\ pc' = "read" /\ UNCHANGED <<i, num, pollList, sockets, reported, served>>
    <3>1. CASE AcceptEnd
      BY <3>1 DEF AcceptEnd, listVars, historyVars
    <3>2. CASE AcceptFails /\ pc' = "read"
      BY <3>2 DEF AcceptFails, Idle, listVars, historyVars
    <3> QED
      BY <1>4, <3>1, <3>2
  <2>2. i = 1 /\ \A k \in DOMAIN sockets : ~(k < i)
    <3>1. i = 1
      BY <1>0, <2>1 DEF Index
    <3>2. DOMAIN sockets = 1 .. Len(sockets) /\ Len(sockets) \in Nat
      BY <1>0
    <3> QED
      BY <3>1, <3>2
  <2>3. EventsAbove(i)' = EventsAbove(i)
    BY <2>1 DEF EventsAbove
  <2> QED
    BY <2>1, <2>2, <2>3 DEF CountInv
<1>5. CASE AcceptFails /\ pc' /= "read"
  <2>1. pc' = "idle" /\ num' = 0
    BY <1>5 DEF AcceptFails, Idle
  <2> QED
    BY <2>1 DEF CountInv
<1>6. CASE AcceptNext
  <2> DEFINE c == Head(backlog)
  <2>1. /\ pc = "accept" /\ pc' = "accept" /\ i' = i /\ num' = num /\ reported' = reported
        /\ served' = served /\ sockets' = Append(sockets, c)
        /\ pollList' = Append(pollList, [fd |-> c, revents |-> "none"])
    BY <1>6 DEF AcceptNext, loopVars, historyVars
  <2>2. i = 1 /\ num = Cardinality(EventsAbove(1)) /\ served = {}
    BY <1>0, <2>1 DEF CountInv, Index
  <2>3. c \in Conns /\ c \notin accepted
    <3>1. backlog /= <<>> /\ backlog \in Seq(Conns)
      BY <1>6 DEF AcceptNext, Lists, Shapes
    <3>2. c \in Conns /\ 1 \in DOMAIN backlog /\ c = backlog[1]
      BY <3>1
    <3>3. Conns \subseteq Int
      BY DEF Conns
    <3>4. \A d \in accepted : d < c
      BY <3>2 DEF Lists, Order
    <3> QED
      <4>1. c \in Int
        BY <3>2, <3>3
      <4>2. ~(c < c)
        <5> HIDE DEF c
        <5> QED
          BY <4>1
      <4> QED
        BY <3>2, <3>4, <4>2
  <2> HIDE DEF c
  <2>4. /\ DOMAIN sockets' = 1 .. Len(sockets) + 1
        /\ \A k \in 1 .. Len(sockets) : sockets'[k] = sockets[k]
        /\ sockets'[Len(sockets) + 1] = c
    <3>1. sockets \in Seq(Conns)
      BY <1>0 DEF Shapes
    <3> QED
      BY <2>1, <2>3, <3>1, AppendProperties
  <2>5. /\ DOMAIN pollList' = 1 .. Len(pollList) + 1
        /\ \A k \in 1 .. Len(pollList) : pollList'[k] = pollList[k]
        /\ pollList'[Len(pollList) + 1] = [fd |-> c, revents |-> "none"]
    <3>1. pollList \in Seq(Entry)
      BY <1>0 DEF Shapes
    <3>2. [fd |-> c, revents |-> "none"] \in Entry
      BY <2>3 DEF Entry, Events
    <3> QED
      BY <2>1, <3>1, <3>2, AppendProperties
  <2>6. reported[c] = "none"
    <3>1. \A k \in DOMAIN sockets : sockets[k] /= c
      BY <1>0, <2>3
    <3> QED
      BY <2>1, <2>3, <3>1 DEF CountInv
  <2>7. EventsAbove(i)' = EventsAbove(i)
    <3>1. DOMAIN pollList = 1 .. Len(pollList) /\ Len(pollList) \in Nat
      BY <1>0
    <3>2. pollList'[Len(pollList) + 1].revents = "none"
      BY <2>5
    <3> QED
      BY <2>1, <2>5, <3>1, <3>2 DEF EventsAbove
  <2>8. Len(pollList) = Len(sockets) + 1 /\ DOMAIN sockets = 1 .. Len(sockets) /\ Len(sockets) \in Nat
    BY <1>0, <2>1
  <2>9. ASSUME NEW k \in DOMAIN sockets'
        PROVE  reported'[sockets'[k]] = pollList'[k + 1].revents
    <3>1. CASE k = Len(sockets) + 1
      BY <2>1, <2>4, <2>5, <2>6, <2>8, <3>1
    <3>2. CASE k /= Len(sockets) + 1
      <4>1. k \in 1 .. Len(sockets) /\ k + 1 \in 1 .. Len(pollList) /\ k \in DOMAIN sockets
        BY <2>4, <2>8, <2>9, <3>2
      <4>2. sockets'[k] = sockets[k] /\ pollList'[k + 1] = pollList[k + 1]
        BY <2>4, <2>5, <4>1
      <4>3. reported[sockets[k]] = pollList[k + 1].revents
        BY <2>1, <4>1 DEF CountInv
      <4> QED
        BY <2>1, <4>2, <4>3
    <3> QED
      BY <3>1, <3>2
  <2>10. ASSUME NEW d \in Conns, reported'[d] /= "none"
         PROVE  \E k \in DOMAIN sockets' : sockets'[k] = d
    <3>1. PICK k \in DOMAIN sockets : sockets[k] = d
      BY <2>1, <2>10 DEF CountInv
    <3> QED
      BY <2>4, <2>8, <3>1
  <2>11. num' = Cardinality(EventsAbove(i)')
    BY <2>1, <2>2, <2>7
  <2> QED
    BY <2>1, <2>2, <2>9, <2>10, <2>11 DEF CountInv
<1>7. CASE ServeNext
  <2> DEFINE c == sockets[i]
             revents == pollList[i + 1].revents
  <2>1. /\ pc = "read" /\ pc' = "read" /\ i < Len(pollList) /\ i' = i + 1
        /\ UNCHANGED <<pollList, sockets, reported>>
        /\ num' = IF revents = "none" THEN num ELSE num - 1
        /\ served' = IF revents = "none" THEN served ELSE served \cup {c}
    BY <1>7 DEF ServeNext, CountServed, listVars
  <2>2. i \in Nat /\ i >= 1 /\ Len(pollList) = Len(sockets) + 1
    BY <1>0, <2>1 DEF Index
  <2>3. i \in DOMAIN sockets /\ i + 1 \in DOMAIN pollList
    <3>1. /\ DOMAIN sockets = 1 .. Len(sockets) /\ Len(sockets) \in Nat
          /\ DOMAIN pollList = 1 .. Len(pollList)
      BY <1>0
    <3> QED
      BY <2>1, <2>2, <3>1
  <2>4. num = Cardinality(EventsAbove(i)) /\ reported[c] = revents
    BY <2>1, <2>3 DEF CountInv
  <2>5. revents /= "none" <=> i + 1 \in EventsAbove(i)
    BY <2>2, <2>3 DEF EventsAbove
  <2>6. num' = Cardinality(EventsAbove(i + 1))
    <3>1. /\ i + 1 \in EventsAbove(i) => Cardinality(EventsAbove(i + 1)) = Cardinality(EventsAbove(i)) - 1
          /\ i + 1 \notin EventsAbove(i) => EventsAbove(i + 1) = EventsAbove(i)
      BY <1>0, <2>2, FiniteEvents
    <3> HIDE DEF c, revents
    <3> QED
      BY <2>1, <2>4, <2>5, <3>1
  <2>7. num' = Cardinality(EventsAbove(i)')
    BY <2>1, <2>6 DEF EventsAbove
  <2>8. ASSUME NEW k \in DOMAIN sockets, k < i + 1, reported[sockets[k]] /= "none"
        PROVE  sockets[k] \in served'
    <3>1. CASE k = i
      BY <2>1, <2>4, <2>8, <3>1
    <3>2. CASE k /= i
      <4>1. k < i
        <5>1. k \in Int
          <6>1. DOMAIN sockets = 1 .. Len(sockets)
            BY <1>0
          <6> QED
            BY <6>1
        <5> QED
          BY <2>2, <2>8, <3>2, <5>1
      <4>2. sockets[k] \in served
        BY <2>1, <2>8, <4>1 DEF CountInv
      <4> QED
        BY <2>1, <4>2
    <3> QED
      BY <3>1, <3>2
  <2> HIDE DEF c, revents
  <2> QED
    BY <2>1, <2>7, <2>8 DEF CountInv
<1>8. CASE ServeEnd
  <2>1. /\ pc = "read" /\ pc' = "remove" /\ num' = 0 /\ UNCHANGED <<sockets, reported, served>>
        /\ num = 0 \/ i = Len(pollList)
    BY <1>8 DEF ServeEnd, StartRemoval, listVars, historyVars
  <2>2. i \in Nat /\ i >= 1 /\ Len(pollList) = Len(sockets) + 1
    BY <1>0, <2>1 DEF Index
  <2>3. ASSUME NEW d \in Conns, reported[d] /= "none" PROVE d \in served
    <3>1. PICK k \in DOMAIN sockets : sockets[k] = d
      BY <2>1, <2>3 DEF CountInv
    <3>2. k \in Nat /\ k <= Len(sockets) /\ k + 1 \in DOMAIN pollList
      <4>1. /\ DOMAIN sockets = 1 .. Len(sockets) /\ Len(sockets) \in Nat
            /\ DOMAIN pollList = 1 .. Len(pollList)
        BY <1>0
      <4> QED
        BY <2>2, <4>1
    <3>3. pollList[k + 1].revents /= "none"
      BY <2>1, <2>3, <3>1 DEF CountInv
    <3>4. k < i
      <4>1. CASE num = 0
        <5>1. EventsAbove(i) = {}
          BY <1>0, <2>1, <2>2, <4>1, FiniteEvents DEF CountInv
        <5>2. ~(k + 1 > i)
          BY <3>2, <3>3, <5>1 DEF EventsAbove
        <5> QED
          BY <2>2, <3>2, <5>2
      <4>2. CASE i = Len(pollList)
        BY <1>0, <2>2, <3>2, <4>2
      <4> QED
        BY <2>1, <4>1, <4>2
    <3> QED
      BY <2>1, <2>3, <3>1, <3>4 DEF CountInv
  <2> QED
    BY <2>1, <2>3 DEF CountInv
<1>9. CASE RemoveNext
  <2>1. pc = "remove" /\ pc' = "remove" /\ UNCHANGED <<num, reported, served>>
    BY <1>9 DEF RemoveNext, historyVars
  <2> QED
    BY <2>1 DEF CountInv
<1>10. CASE Poll
  BY <1>10, PollCount
<1>11. CASE AcceptFails
  BY <1>4, <1>5, <1>11, Zenon
<1>12. CASE AcceptEnd
  BY <1>4, <1>12, Zenon
<1> QED
  BY <1>1, <1>2, <1>3, <1>6, <1>7, <1>8, <1>9, <1>10, <1>11, <1>12, CountSteps, Zenon

LEMMA CountImpliesServed == CountInv => EventsServed
BY DEF CountInv, EventsServed

\* poll() starts to remove sockets only after it has served every event that was
\* reported: the count of the events does not run out early.
THEOREM EventsAreServed == Spec => []EventsServed
<1>1. Init => Flags /\ Running /\ Lists /\ CountInv
  BY InitRunning, InitLists, InitCount
<1>2. Flags /\ Running /\ Lists /\ CountInv /\ [Next]_vars
        => Flags' /\ Running' /\ Lists' /\ CountInv'
  BY NextRunning, NextLists, NextCount
<1> QED
  BY <1>1, <1>2, CountImpliesServed, PTL DEF Spec
-----------------------------------------------------------------------------
\* The variables that the invariants above do not speak of.
OtherTypes ==
    /\ isClosing \in [Conns -> BOOLEAN]
    /\ starts \in 0 .. MaxStarts /\ faults \in 0 .. MaxFaults
    /\ reported \in [Conns -> Events] /\ served \subseteq Conns

LEMMA InitOther == Init => OtherTypes
<1> SUFFICES ASSUME Init PROVE OtherTypes
  OBVIOUS
<1>1. starts \in 0 .. MaxStarts /\ faults \in 0 .. MaxFaults
  BY BoundsAssumption DEF Init
<1>2. isClosing \in [Conns -> BOOLEAN] /\ served \subseteq Conns
  BY Zenon DEF Init
<1>3. reported \in [Conns -> Events]
  BY DEF Init, Events
<1> QED
  BY <1>1, <1>2, <1>3 DEF OtherTypes

LEMMA CloseAllType ==
    ASSUME NEW closing, CloseAll(closing), isClosing \in [Conns -> BOOLEAN]
    PROVE  isClosing' \in [Conns -> BOOLEAN]
<1>1. \A c \in Conns : (c \in closing \/ isClosing[c]) \in BOOLEAN
  OBVIOUS
<1> QED
  BY <1>1, Zenon DEF CloseAll

LEMMA NextOther == Flags /\ Running /\ Lists /\ OtherTypes /\ [Next]_vars => OtherTypes'
<1> SUFFICES ASSUME Flags, Running, Lists, OtherTypes, [Next]_vars PROVE OtherTypes'
  OBVIOUS
<1> USE DEF listVars, socketVars, loopVars, countVars, toldVars, historyVars
<1>1. isClosing' \in [Conns -> BOOLEAN]
  <2>1. (\E closing : CloseAll(closing)) \/ UNCHANGED isClosing
    <3>1. CASE StopNext
      BY <3>1, Zenon DEF StopNext
    <3>2. CASE AcceptNext
      BY <3>2, Zenon DEF AcceptNext, CallbackCloses
    <3>3. CASE ServeNext
      BY <3>3, Zenon DEF ServeNext, Announce, CallbackCloses
    <3>4. CASE RemoveNext
      BY <3>4, Zenon DEF RemoveNext, RemoveClosed, CallbackCloses
    <3>5. CASE UserCloses \/ SendToAllFails
      BY <3>5, Zenon DEF UserCloses, SendToAllFails
    <3>6. CASE StartListening \/ StartFails \/ StopListening \/ StopEnd \/ Poll \/ PollFails
      BY <3>6, Zenon DEF StartListening, StartFails, StopListening, StopEnd, Poll, PollFails
    <3>7. CASE \/ CheckListener \/ AcceptEnd \/ AcceptFails \/ ServeEnd \/ RemoveEnd \/ Arrive
               \/ UNCHANGED vars
      BY <3>7, Zenon DEF CheckListener, AcceptEnd, AcceptFails, ServeEnd, RemoveEnd, Arrive, vars
    <3> QED
      BY <3>1, <3>2, <3>3, <3>4, <3>5, <3>6, <3>7, Zenon DEF Next, PollStep, Faults, Program
  <2> QED
    BY <2>1, CloseAllType, Zenon DEF OtherTypes
<1>2. starts' \in 0 .. MaxStarts /\ faults' \in 0 .. MaxFaults
  <2>1. (starts < MaxStarts /\ starts' = starts + 1) \/ starts' = starts
    <3>1. CASE StartListening \/ StartFails
      BY <3>1, Zenon DEF StartListening, StartFails
    <3>2. CASE StopNext \/ StopListening \/ StopEnd \/ Poll \/ PollFails \/ CheckListener
      BY <3>2, Zenon DEF StopNext, StopListening, StopEnd, Poll, PollFails, CheckListener
    <3>3. CASE AcceptNext \/ AcceptEnd \/ AcceptFails \/ ServeNext \/ ServeEnd \/ RemoveNext \/ RemoveEnd
      BY <3>3, Zenon DEF AcceptNext, AcceptEnd, AcceptFails, ServeNext, ServeEnd, RemoveNext, RemoveEnd
    <3>4. CASE UserCloses \/ SendToAllFails \/ Arrive \/ UNCHANGED vars
      BY <3>4, Zenon DEF UserCloses, SendToAllFails, Arrive, vars
    <3> QED
      BY <3>1, <3>2, <3>3, <3>4, Zenon DEF Next, PollStep, Faults, Program
  <2>2. (faults < MaxFaults /\ faults' = faults + 1) \/ faults' = faults
    <3>1. CASE Faults
      BY <3>1, Zenon DEF Faults, StartFails, PollFails, AcceptFails, SendToAllFails, Fault
    <3>2. CASE StopNext \/ StopListening \/ StopEnd \/ Poll \/ StartListening \/ CheckListener
      BY <3>2, Zenon DEF StopNext, StopListening, StopEnd, Poll, StartListening, CheckListener
    <3>3. CASE AcceptNext \/ AcceptEnd \/ ServeNext \/ ServeEnd \/ RemoveNext \/ RemoveEnd
      BY <3>3, Zenon DEF AcceptNext, AcceptEnd, ServeNext, ServeEnd, RemoveNext, RemoveEnd
    <3>4. CASE UserCloses \/ Arrive \/ UNCHANGED vars
      BY <3>4, Zenon DEF UserCloses, Arrive, vars
    <3> QED
      BY <3>1, <3>2, <3>3, <3>4, Zenon DEF Next, PollStep, Program
  <2> QED
    BY <2>1, <2>2, BoundsAssumption DEF OtherTypes
<1>3. reported' \in [Conns -> Events] /\ served' \subseteq Conns
  <2>1. CASE Poll
    <3>1. PICK ev \in [Listed -> Events] :
            reported' = [c \in Conns |-> IF c \in Listed THEN ev[c] ELSE "none"]
      BY <2>1, Zenon DEF Poll
    <3>2. "none" \in Events
      BY DEF Events
    <3>3. \A c \in Conns : (IF c \in Listed THEN ev[c] ELSE "none") \in Events
      BY <3>2, Zenon
    <3>4. reported' \in [Conns -> Events]
      BY <3>1, <3>3, Zenon
    <3>5. served' = {}
      BY <2>1, Zenon DEF Poll
    <3> QED
      BY <3>4, <3>5
  <2>2. CASE ServeNext
    <3>1. sockets[i] \in Conns
      <4>1. pc = "read" /\ i < Len(pollList)
        BY <2>2, Zenon DEF ServeNext
      <4>2. i \in 1 .. Len(sockets)
        BY <4>1, IndexRange DEF Running, Lists, Index
      <4> QED
        BY <4>2 DEF Lists, Shapes
    <3>2. reported' = reported /\ (served' = served \/ served' = served \cup {sockets[i]})
      BY <2>2, Zenon DEF ServeNext
    <3> QED
      BY <3>1, <3>2 DEF OtherTypes
  <2>3. CASE ~Poll /\ ~ServeNext
    <3>1. UNCHANGED <<reported, served>>
      <4>1. CASE StopNext \/ StopListening \/ StopEnd \/ StartListening \/ CheckListener
        BY <4>1, Zenon DEF StopNext, StopListening, StopEnd, StartListening, CheckListener
      <4>2. CASE AcceptNext \/ AcceptEnd \/ ServeEnd \/ RemoveNext \/ RemoveEnd
        BY <4>2, Zenon DEF AcceptNext, AcceptEnd, ServeEnd, RemoveNext, RemoveEnd
      <4>3. CASE UserCloses \/ Arrive \/ UNCHANGED vars \/ Faults
        BY <4>3, Zenon DEF UserCloses, Arrive, vars, Faults, StartFails, PollFails, AcceptFails,
             SendToAllFails
      <4> QED
        BY <2>3, <4>1, <4>2, <4>3, Zenon DEF Next, PollStep, Program
    <3> QED
      BY <3>1, Zenon DEF OtherTypes
  <2> QED
    BY <2>1, <2>2, <2>3, Zenon
<1> QED
  BY <1>1, <1>2, <1>3, Zenon DEF OtherTypes

LEMMA ServerTypes == Flags /\ Running /\ Lists /\ ToldInv /\ CountInv /\ OtherTypes => TypeOK
<1> SUFFICES ASSUME Flags, Running, Lists, ToldInv, CountInv, OtherTypes PROVE TypeOK
  OBVIOUS
<1>1. Len(sockets) \in 0 .. MaxConns
  <2>1. sockets \in Seq(Conns) /\ \A k \in DOMAIN sockets : sockets[k] >= k
    BY DEF Lists, Shapes, Order
  <2>2. CASE sockets = <<>>
    BY <2>2, BoundsAssumption
  <2>3. CASE sockets /= <<>>
    <3>1. Len(sockets) \in DOMAIN sockets /\ Len(sockets) \in Nat
      BY <2>1, <2>3
    <3>2. sockets[Len(sockets)] >= Len(sockets) /\ sockets[Len(sockets)] \in Conns
      BY <2>1, <3>1
    <3> QED
      BY <3>1, <3>2, BoundsAssumption DEF Conns
  <2> QED
    BY <2>2, <2>3
<1>2. i \in 0 .. MaxConns + 1
  BY <1>1, IndexRange, BoundsAssumption
<1>3. num \in 0 .. MaxConns + 1
  <2>1. CASE pc \in {"events", "accept", "read"}
    <3>1. num = Cardinality(EventsAbove(i)) /\ hasData
      BY <2>1 DEF CountInv, Running
    <3>2. i \in Nat /\ Len(pollList) = Len(sockets) + 1
      BY <1>2, <3>1, IndexRange
    <3>3. Cardinality(EventsAbove(i)) \in 0 .. Len(pollList)
      BY <3>2, FiniteEvents DEF Lists
    <3> QED
      BY <1>1, <3>1, <3>2, <3>3, BoundsAssumption
  <2>2. CASE pc \notin {"events", "accept", "read"}
    BY <2>2, BoundsAssumption DEF CountInv
  <2> QED
    BY <2>1, <2>2
<1>4. pollList \in Seq([fd : Conns \cup {Server}, revents : Events])
  BY DEF Lists, Shapes, Entry
<1> QED
  BY <1>2, <1>3, <1>4, Zenon DEF Flags, Running, Lists, Shapes, ToldInv, OtherTypes, TypeOK

\* The variables of the server have their types: its index and the count of the events stay
\* within the lists, and nobody is told twice that a connection is closed.
THEOREM TypesHold == Spec => []TypeOK
<1>1. Init => Flags /\ Running /\ Lists /\ ToldInv /\ CountInv /\ OtherTypes
  BY InitRunning, InitLists, InitTold, InitCount, InitOther
<1>2. Flags /\ Running /\ Lists /\ ToldInv /\ CountInv /\ OtherTypes /\ [Next]_vars
        => (Flags /\ Running /\ Lists /\ ToldInv /\ CountInv /\ OtherTypes)'
  BY NextRunning, NextLists, NextTold, NextCount, NextOther
<1> QED
  BY <1>1, <1>2, ServerTypes, PTL DEF Spec

-----------------------------------------------------------------------------
\* The objects that a program of TcpServer4 keeps.

\* The objects are those of the sockets in the list that the closed callback was not
\* called for: stopListening() goes through the list from the front and leaves it as it is
\* until the end, the loop over the closed sockets takes each out as it tells of it.
UserDataIsListed ==
    /\ nullUsed = {}
    /\ \A c \in userData : \E k \in DOMAIN sockets : ~Passed(k) /\ sockets[k] = c
    /\ \A k \in DOMAIN sockets : ~Passed(k) => sockets[k] \in userData

ProgramInv == Flags /\ Running /\ Lists /\ ToldInv /\ UserDataIsListed

\* A step of the program's is one of the server's.
LEMMA ProgramStepsServer == ProgramNext => [Next]_vars
BY Zenon DEF ProgramNext, Commands, Next, PollStep, Program

\* The steps in which no object is made, used or freed.
LEMMA QuietUserData ==
    ASSUME UserDataIsListed, UNCHANGED programVars,
           \/ UNCHANGED sockets /\ pc /= "stop" /\ (pc' = "stop" => i' = 1)
           \/ UNCHANGED <<sockets, pc, i>>,
           \A k \in DOMAIN sockets : k \in Nat \ {0}
    PROVE  UserDataIsListed'
<1>1. \A k \in DOMAIN sockets : Passed(k)' <=> Passed(k)
  BY DEF Passed
<1>2. UNCHANGED <<userData, nullUsed, sockets>>
  BY DEF programVars
<1> QED
  BY <1>1, <1>2, Zenon DEF UserDataIsListed

LEMMA NextUserData == ProgramInv /\ ProgramNext => UserDataIsListed'
<1> SUFFICES ASSUME ProgramInv, ProgramNext PROVE UserDataIsListed'
  OBVIOUS
<1>1. /\ DOMAIN sockets = 1 .. Len(sockets) /\ Len(sockets) \in Nat /\ sockets \in Seq(Conns)
      /\ \A k \in DOMAIN sockets : sockets[k] \in Conns /\ k \in Nat \ {0}
  BY DEF ProgramInv, Lists, Shapes
<1>2. \A j, k \in DOMAIN sockets : sockets[j] = sockets[k] => j = k
  <2>1. \A k \in DOMAIN sockets : sockets[k] \in Int /\ k \in Int
    BY <1>1 DEF Conns
  <2> QED
    BY <2>1 DEF ProgramInv, Lists, Order, Sorted
<1>3. ~listening => sockets = <<>>
  BY DEF ProgramInv, ToldInv
<1>4. UserDataIsListed
  BY DEF ProgramInv
<1>5. CASE AcceptNext /\ OnConnAccepted(Head(backlog))
  <2> DEFINE c == Head(backlog)
  <2>1. /\ sockets' = Append(sockets, c) /\ pc = "accept" /\ pc' = "accept" /\ backlog /= <<>>
    BY <1>5 DEF AcceptNext, loopVars
  <2>2. userData' = userData \cup {c} /\ nullUsed' = nullUsed
    BY <1>5 DEF OnConnAccepted
  <2>3. c \in Conns
    BY <2>1, TailOrder DEF ProgramInv, Lists
  <2> HIDE DEF c
  <2>4. /\ DOMAIN sockets' = 1 .. Len(sockets) + 1
        /\ \A k \in 1 .. Len(sockets) : sockets'[k] = sockets[k]
        /\ sockets'[Len(sockets) + 1] = c
    BY <1>1, <2>1, <2>3, AppendProperties
  <2>5. \A k : ~Passed(k) /\ ~Passed(k)'
    BY <2>1 DEF Passed
  <2>6. Len(sockets) + 1 \in DOMAIN sockets' /\ \A k \in DOMAIN sockets : k \in DOMAIN sockets'
    BY <1>1, <2>4
  <2>7. \A k \in DOMAIN sockets' : k \in DOMAIN sockets \/ k = Len(sockets) + 1
    BY <1>1, <2>4
  <2>8. \A d \in userData' : \E k \in DOMAIN sockets' : sockets'[k] = d
    BY <1>1, <1>4, <2>2, <2>4, <2>6 DEF UserDataIsListed
  <2>9. \A k \in DOMAIN sockets' : sockets'[k] \in userData'
    BY <1>1, <1>4, <2>2, <2>4, <2>5, <2>7 DEF UserDataIsListed
  <2> QED
    BY <1>4, <2>2, <2>5, <2>8, <2>9 DEF UserDataIsListed
<1>6. CASE RemoveNext /\ (IF told' = told THEN UNCHANGED programVars ELSE OnConnClosed(sockets[i]))
  <2>1. pc = "remove" /\ pc' = "remove" /\ i \in DOMAIN sockets
    <3>1. pc = "remove" /\ pc' = "remove" /\ i > 0
      BY <1>6 DEF RemoveNext
    <3>2. i \in 0 .. Len(sockets)
      BY <3>1 DEF ProgramInv, Lists, Index
    <3> QED
      BY <1>1, <3>1, <3>2
  <2>2. told \in [Conns -> 0 .. 1]
    BY DEF ProgramInv, ToldInv
  <2>3. CASE ~IsOpen(sockets[i]) /\ RemoveClosed(sockets[i])
    <3> DEFINE c == sockets[i]
    <3>1. c \in Conns /\ c \in userData
      BY <1>1, <1>4, <2>1 DEF UserDataIsListed, Passed
    <3>2. told' /= told
      <4>1. told' = [told EXCEPT ![c] = @ + 1] /\ told[c] \in 0 .. 1
        BY <2>2, <2>3, <3>1 DEF RemoveClosed
      <4> HIDE DEF c
      <4>2. told'[c] = told[c] + 1
        BY <2>2, <3>1, <4>1
      <4>3. told[c] + 1 /= told[c]
        BY <4>1
      <4> QED
        BY <4>2, <4>3
    <3>3. userData' = userData \ {c} /\ nullUsed' = {}
      BY <1>4, <1>6, <3>1, <3>2 DEF OnConnClosed, Use, UserDataIsListed
    <3>4. /\ sockets' = RemoveAt(sockets, i)
      BY <2>3 DEF RemoveClosed, Erase
    <3>5. /\ sockets' \in Seq(Conns) /\ Len(sockets') = Len(sockets) - 1
          /\ \A j \in 1 .. Len(sockets) - 1 :
               sockets'[j] = IF j < i THEN sockets[j] ELSE sockets[j + 1]
      BY <1>1, <2>1, <3>4, RemoveAtProperties
    <3> HIDE DEF c
    <3>6. DOMAIN sockets' = 1 .. Len(sockets) - 1
      BY <3>5
    <3>7. \A k : ~Passed(k) /\ ~Passed(k)'
      BY <2>1 DEF Passed
    <3>8. ASSUME NEW k \in DOMAIN sockets'
          PROVE  sockets'[k] \in userData'
      <4>1. PICK j \in DOMAIN sockets : j /= i /\ sockets'[k] = sockets[j]
        <5>1. k \in DOMAIN sockets /\ k + 1 \in DOMAIN sockets /\ i \in Nat /\ k \in Nat
          BY <1>1, <2>1, <3>6
        <5>2. CASE k < i
          BY <3>5, <3>6, <5>1, <5>2
        <5>3. CASE ~(k < i)
          BY <3>5, <3>6, <5>1, <5>3
        <5> QED
          BY <5>2, <5>3
      <4>2. sockets[j] /= c
        BY <1>2, <2>1, <4>1 DEF c
      <4>3. sockets[j] \in userData
        BY <1>4, <3>7 DEF UserDataIsListed
      <4> QED
        BY <3>3, <4>1, <4>2, <4>3
    <3>9. ASSUME NEW d \in userData'
          PROVE  \E k \in DOMAIN sockets' : sockets'[k] = d
      <4>1. d \in userData /\ d /= c
        BY <3>3
      <4>2. PICK j \in DOMAIN sockets : sockets[j] = d
        BY <1>4, <4>1 DEF UserDataIsListed
      <4>3. j /= i
        BY <4>1, <4>2 DEF c
      <4>4. j \in 1 .. Len(sockets) /\ i \in 1 .. Len(sockets)
        BY <1>1, <2>1
      <4>5. CASE j < i
        <5>1. j \in 1 .. Len(sockets) - 1
          BY <1>1, <4>4, <4>5
        <5> QED
          BY <3>5, <3>6, <4>2, <4>5, <5>1
      <4>6. CASE j > i
        <5>1. j - 1 \in 1 .. Len(sockets) - 1 /\ ~(j - 1 < i) /\ (j - 1) + 1 = j
          BY <1>1, <4>4, <4>6
        <5>2. sockets'[j - 1] = sockets[j]
          BY <3>5, <5>1
        <5> QED
          BY <3>6, <4>2, <5>1, <5>2
      <4> QED
        BY <4>3, <4>4, <4>5, <4>6
    <3> QED
      BY <3>3, <3>7, <3>8, <3>9 DEF UserDataIsListed
  <2>4. CASE IsOpen(sockets[i]) /\ UNCHANGED <<sockets, pollList, socketVars, told>>
    <3>1. UNCHANGED programVars /\ UNCHANGED sockets /\ pc /= "stop" /\ pc' /= "stop"
      BY <1>6, <2>1, <2>4
    <3> QED
      BY <1>1, <1>4, <3>1, QuietUserData
  <2> QED
    BY <1>6, <2>3, <2>4 DEF RemoveNext
<1>7. CASE StopNext /\ OnConnClosed(sockets[i])
  <2>1. pc = "stop" /\ pc' = "stop" /\ UNCHANGED sockets /\ i' = i + 1
    BY <1>7 DEF StopNext, listVars
  <2>2. i \in DOMAIN sockets
    <3>1. i \in 1 .. Len(sockets) + 1
      BY <2>1 DEF ProgramInv, Lists, Index
    <3>2. i <= Len(sockets)
      BY <1>7 DEF StopNext
    <3> QED
      BY <1>1, <3>1, <3>2
  <2> DEFINE c == sockets[i]
  <2>3. c \in userData
    <3>1. i \in Nat
      BY <1>1, <2>2
    <3>2. ~Passed(i)
      BY <3>1 DEF Passed
    <3> QED
      BY <1>4, <2>2, <3>2 DEF UserDataIsListed
  <2>4. userData' = userData \ {c} /\ nullUsed' = {}
    BY <1>4, <1>7, <2>3 DEF OnConnClosed, Use, UserDataIsListed
  <2>5. \A k \in DOMAIN sockets : Passed(k)' <=> Passed(k) \/ k = i
    BY <1>1, <2>1, <2>2 DEF Passed
  <2>6. \A k \in DOMAIN sockets : sockets[k] = c => k = i
    BY <1>2, <2>2
  <2> HIDE DEF c
  <2>7. sockets[i] = c
    BY DEF c
  <2>8. \A d \in userData' : \E k \in DOMAIN sockets' : ~Passed(k)' /\ sockets'[k] = d
    BY <1>4, <2>1, <2>4, <2>5, <2>7 DEF UserDataIsListed
  <2>9. \A k \in DOMAIN sockets' : ~Passed(k)' => sockets'[k] \in userData'
    BY <1>4, <2>1, <2>4, <2>5, <2>6 DEF UserDataIsListed
  <2> QED
    BY <2>4, <2>8, <2>9 DEF UserDataIsListed
<1>8. CASE ServeNext /\ (IF pollList[i + 1].revents = "in" /\ IsOpen(sockets[i])
                         THEN OnReadyRead(sockets[i]) ELSE UNCHANGED programVars)
  <2>1. pc = "read" /\ pc' = "read" /\ UNCHANGED sockets
    BY <1>8 DEF ServeNext, listVars
  <2>2. i \in DOMAIN sockets
    <3>1. i \in 1 .. Len(pollList) /\ i < Len(pollList)
      BY <1>8, <2>1 DEF ServeNext, ProgramInv, Lists, Index
    <3>2. Len(pollList) = Len(sockets) + 1
      BY <2>1 DEF ProgramInv, Running, Lists, Aligned
    <3> QED
      BY <1>1, <3>1, <3>2
  <2>3. sockets[i] \in userData
    BY <1>4, <2>1, <2>2 DEF UserDataIsListed, Passed
  <2>4. UNCHANGED programVars
    BY <1>4, <1>8, <2>3 DEF OnReadyRead, Use, UserDataIsListed, programVars
  <2> QED
    BY <1>1, <1>4, <2>1, <2>4, QuietUserData
<1>9. CASE Commands
  <2>1. pc = "idle" /\ UNCHANGED <<sockets, pc, i>> /\ nullUsed' = nullUsed \cup (Listed \ userData)
        /\ userData' = userData
    BY <1>9 DEF Commands, Use, UserCloses, listVars, loopVars, vars
  <2>2. Listed \subseteq userData
    BY <1>4, <2>1 DEF UserDataIsListed, Passed, Listed, Range
  <2>3. UNCHANGED programVars
    BY <2>1, <2>2 DEF programVars
  <2> QED
    BY <1>1, <1>4, <2>1, <2>3, QuietUserData
<1>10. CASE /\ \/ Poll \/ CheckListener \/ AcceptEnd \/ ServeEnd \/ RemoveEnd \/ StopEnd
               \/ Faults \/ StartListening \/ StopListening \/ Arrive
            /\ UNCHANGED programVars
  <2>1. CASE Poll \/ CheckListener \/ AcceptEnd \/ ServeEnd \/ RemoveEnd \/ StopListening
    <3>1. UNCHANGED sockets /\ pc /= "stop" /\ (pc' = "stop" => i' = 1)
      BY <2>1 DEF Poll, StartRemoval, CheckListener, ServeListener, AcceptEnd, ServeEnd, RemoveEnd, Idle,
                  StopListening, Stop, listVars
    <3> QED
      BY <1>1, <1>4, <1>10, <3>1, QuietUserData
  <2>2. CASE Faults \/ Arrive
    <3>1. \/ UNCHANGED sockets /\ pc /= "stop" /\ (pc' = "stop" => i' = 1)
          \/ UNCHANGED <<sockets, pc, i>>
      BY <2>2 DEF Faults, StartFails, PollFails, Stop, AcceptFails, Idle, SendToAllFails, Arrive,
                  listVars, loopVars
    <3> QED
      BY <1>1, <1>4, <1>10, <3>1, QuietUserData
  <2>3. CASE StartListening
    <3>1. sockets = <<>> /\ sockets' = <<>> /\ UNCHANGED <<userData, nullUsed>>
      BY <1>3, <1>10, <2>3 DEF StartListening, programVars
    <3> QED
      BY <1>4, <3>1 DEF UserDataIsListed
  <2>4. CASE StopEnd
    <3>1. pc = "stop" /\ i > Len(sockets) /\ sockets' = <<>> /\ UNCHANGED <<userData, nullUsed>>
      BY <1>10, <2>4 DEF StopEnd, programVars
    <3>2. \A k \in DOMAIN sockets : Passed(k)
      <4>1. i \in 1 .. Len(sockets) + 1
        BY <3>1 DEF ProgramInv, Lists, Index
      <4> QED
        BY <1>1, <3>1, <4>1 DEF Passed
    <3>3. userData = {}
      BY <1>4, <3>2 DEF UserDataIsListed
    <3> QED
      BY <1>4, <3>1, <3>3 DEF UserDataIsListed
  <2> QED
    BY <1>10, <2>1, <2>2, <2>3, <2>4
<1> QED
  BY <1>5, <1>6, <1>7, <1>8, <1>9, <1>10, Zenon DEF ProgramNext

LEMMA ProgramSteps == ProgramInv /\ ProgramNext => ProgramInv'
BY ProgramStepsServer, NextRunning, NextLists, NextTold, NextUserData DEF ProgramInv

LEMMA ProgramStutters == ProgramInv /\ UNCHANGED serverVars => ProgramInv'
<1> SUFFICES ASSUME ProgramInv, UNCHANGED serverVars PROVE ProgramInv'
  OBVIOUS
<1>1. [Next]_vars /\ UNCHANGED <<sockets, pc, i, userData, nullUsed>>
  BY DEF serverVars, vars, programVars, listVars, loopVars
<1>2. UserDataIsListed'
  BY <1>1, Zenon DEF ProgramInv, UserDataIsListed, Passed
<1> QED
  BY <1>1, <1>2, NextRunning, NextLists, NextTold DEF ProgramInv

LEMMA ProgramImpliesLive == ProgramInv => UserDataLive
BY DEF ProgramInv, UserDataIsListed, UserDataLive, Listed, Range

\* Callbacks and commands find the object of every socket that they are called with, and
\* no object is left when its socket has gone, however many sockets the callbacks, the
\* commands and stopListening() close in between.
THEOREM ObjectsLiveWithTheirSockets == NetworkSpec => []UserDataLive
<1>1. NetworkInit => ProgramInv
  <2> SUFFICES ASSUME NetworkInit PROVE ProgramInv
    OBVIOUS
  <2>1. Init /\ userData = {} /\ nullUsed = {}
    BY DEF NetworkInit, ProgramInit
  <2>2. UserDataIsListed
    BY <2>1 DEF Init, UserDataIsListed
  <2> QED
    BY <2>1, <2>2, InitRunning, InitLists, InitTold DEF ProgramInv
<1>2. ProgramInv /\ [NetworkNext]_<<serverVars, parserVars, clientVars>> => ProgramInv'
  BY ProgramSteps, ProgramStutters, Zenon DEF NetworkNext, ServerMoves, ParserMoves, ClientMoves
<1> QED
  BY <1>1, <1>2, ProgramImpliesLive, PTL DEF NetworkSpec

-----------------------------------------------------------------------------
\* The client.

\* A step of the client in this specification is one that TcpClient_proofs knows.
LEMMA SameSteps == Client!Next <=> ClientProofs!Next
BY Zenon DEF
     Client!Next, Client!Command, Client!Update, Client!Loop, Client!Network, Client!Count,
     Client!CloseDescriptor, Client!Unconnected, Client!Close, Client!Fault, Client!NoCommand,
     Client!ConnectBegins, Client!ConnectFails, Client!Connect, Client!Disconnect, Client!Text,
     Client!NewLine, Client!Send, Client!Rest, Client!WriteSome, Client!WriteFails, Client!Quit,
     Client!Answered, Client!TimedOut, Client!UpdateClosed, Client!StillConnecting,
     Client!Established, Client!ConnectionFailed, Client!ReportedTooEarly, Client!Readable,
     Client!NothingNew, Client!NewData, Client!SelectFails, Client!Read, Client!ReadNothing,
     Client!Answer, Client!DataArrives, Client!ServerTakes, Client!ServerLeaves,
     Client!TimePasses, Client!client, Client!sending, Client!kernel,
     ClientProofs!Next, ClientProofs!Command, ClientProofs!Update, ClientProofs!Loop,
     ClientProofs!Network, ClientProofs!Count, ClientProofs!CloseDescriptor,
     ClientProofs!Unconnected, ClientProofs!Close, ClientProofs!Fault, ClientProofs!NoCommand,
     ClientProofs!ConnectBegins, ClientProofs!ConnectFails, ClientProofs!Connect,
     ClientProofs!Disconnect, ClientProofs!Text, ClientProofs!NewLine, ClientProofs!Send,
     ClientProofs!Rest, ClientProofs!WriteSome, ClientProofs!WriteFails, ClientProofs!Quit,
     ClientProofs!Answered, ClientProofs!TimedOut, ClientProofs!UpdateClosed,
     ClientProofs!StillConnecting, ClientProofs!Established, ClientProofs!ConnectionFailed,
     ClientProofs!ReportedTooEarly, ClientProofs!Readable, ClientProofs!NothingNew,
     ClientProofs!NewData, ClientProofs!SelectFails, ClientProofs!Read,
     ClientProofs!ReadNothing, ClientProofs!Answer, ClientProofs!DataArrives,
     ClientProofs!ServerTakes, ClientProofs!ServerLeaves, ClientProofs!TimePasses,
     ClientProofs!client, ClientProofs!sending, ClientProofs!kernel

LEMMA ClientSteps ==
    [NetworkNext]_<<serverVars, parserVars, clientVars>> => [ClientProofs!Next]_ClientProofs!clientVars
<1>1. ASSUME UNCHANGED clientVars PROVE UNCHANGED ClientProofs!clientVars
  BY <1>1 DEF clientVars, ClientProofs!clientVars, ClientProofs!client, ClientProofs!sending, ClientProofs!kernel
<1> QED
  BY <1>1, SameSteps, Zenon DEF NetworkNext, ServerMoves, ParserMoves, ClientMoves

\* The client in this specification is closed exactly when it has no descriptor, and it
\* leaves none open.
THEOREM NetworkKeepsDescriptors == NetworkSpec => []NoDescriptorLost
<1>1. NetworkInit => ClientProofs!NoDescriptorLost
  BY DEF NetworkInit, Client!Init, ClientProofs!NoDescriptorLost
<1>2. ClientProofs!NoDescriptorLost /\ [NetworkNext]_<<serverVars, parserVars, clientVars>>
        => ClientProofs!NoDescriptorLost'
  BY ClientSteps, ClientProofs!DescriptorSteps
<1>3. ClientProofs!NoDescriptorLost => NoDescriptorLost
  BY DEF NoDescriptorLost, Client!NoDescriptorLost, ClientProofs!NoDescriptorLost
<1> QED
  BY <1>1, <1>2, <1>3, PTL DEF NetworkSpec

\* The messages of the client in this specification arrive whole and in order, however
\* little each write() takes.
THEOREM NetworkKeepsMessages == ASSUME TextSize \in Nat PROVE NetworkSpec => []MessagesWhole
<1>1. NetworkInit => ClientProofs!WireInv
  BY ClientProofs!InitWire DEF NetworkInit, Client!Init, ClientProofs!Init
<1>2. ClientProofs!WireInv /\ [NetworkNext]_<<serverVars, parserVars, clientVars>>
        => ClientProofs!WireInv'
  BY ClientSteps, ClientProofs!WireSteps
<1>3. ClientProofs!WireInv => MessagesWhole
  BY DEF MessagesWhole, Client!MessagesWhole, ClientProofs!MessagesWhole, ClientProofs!WireInv
<1> QED
  BY <1>1, <1>2, <1>3, PTL DEF NetworkSpec

-----------------------------------------------------------------------------
\* Induction over the numbers, and what is defined by recursion over them.

\* A set of numbers with zero and the successors of its members is all of them.
LEMMA Induction ==
    ASSUME NEW T \in SUBSET Nat, 0 \in T, \A n \in T : n + 1 \in T
    PROVE  T = Nat
<1> SUFFICES ASSUME Nat \ T # {} PROVE FALSE
  OBVIOUS
<1> DEFINE R == OpToRel(<, Nat)
           U == Nat \ T
<1>1. IsWellFoundedOn(R, Nat) /\ U \subseteq Nat /\ U # {}
  BY NatLessThanWellFounded
<1>2. \A y, x \in Nat : <<y, x>> \in R <=> y < x
  BY DEF OpToRel
<1> HIDE DEF U, R
<1>3. PICK x \in U : \A y \in U : ~ (<<y, x>> \in R)
  BY <1>1, WFMin
<1>4. x \in Nat /\ x \notin T
  BY <1>3 DEF U
<1>5. x # 0 /\ x - 1 \in Nat /\ x - 1 < x /\ (x - 1) + 1 = x
  BY <1>4
<1>6. x - 1 \in T
  BY <1>2, <1>3, <1>4, <1>5 DEF U
<1> QED BY <1>4, <1>5, <1>6

IsStep(G, V) == G \in [Nat -> [V -> V]]
Follows(f, G, V, a, N) == f \in [0..N -> V] /\ f[0] = a /\ \A n \in 1..N : f[n] = G[n][f[n - 1]]

\* A function that is defined by what follows each of its values.
LEMMA Recursion ==
    ASSUME NEW V, NEW a \in V, NEW G, IsStep(G, V), NEW N \in Nat
    PROVE  \E f : Follows(f, G, V, a, N)
<1>0. G \in [Nat -> [V -> V]]
  BY DEF IsStep
<1> DEFINE Defines(f, n) == f \in [0..n -> V] /\ f[0] = a /\ \A k \in 1..n : f[k] = G[k][f[k - 1]]
           T == {n \in Nat : \E f : Defines(f, n)}
<1>1. 0 \in T
  <2>1. Defines([k \in 0..0 |-> a], 0)
    OBVIOUS
  <2> QED BY <2>1
<1>2. ASSUME NEW n \in T PROVE n + 1 \in T
  <2>1. PICK f : Defines(f, n)
    OBVIOUS
  <2> DEFINE g == [k \in 0..(n + 1) |-> IF k = n + 1 THEN G[n + 1][f[n]] ELSE f[k]]
  <2>2. n \in Nat /\ n + 1 \in Nat /\ f[n] \in V /\ G[n + 1] \in [V -> V]
    BY <2>1, <1>0
  <2>3. g \in [0..(n + 1) -> V] /\ g[0] = a
    BY <2>1, <2>2
  <2>4. ASSUME NEW k \in 1..(n + 1) PROVE g[k] = G[k][g[k - 1]]
    BY <2>1, <2>2
  <2>5. Defines(g, n + 1)
    BY <2>3, <2>4
  <2> QED BY <2>2, <2>5
<1> HIDE DEF T
<1>3. T = Nat
  <2>1. T \in SUBSET Nat
    BY DEF T
  <2> QED BY <2>1, <1>1, <1>2, Induction
<1> QED BY <1>3 DEF T, Follows

Flattens(f, seqs, S) ==
    /\ f \in [1..Len(seqs) -> Seq(S)]
    /\ FlattenSeq(seqs) = f[Len(seqs)]
    /\ f[1] = seqs[1]
    /\ \A k \in 2..Len(seqs) : f[k] = f[k - 1] \o seqs[k]

\* What FlattenSeq puts together, from the first sequence on.
LEMMA FlattenSteps ==
    ASSUME NEW S, NEW seqs \in Seq(Seq(S)), seqs /= <<>>
    PROVE  \E f : Flattens(f, seqs, S)
<1> DEFINE N == Len(seqs)
           Step(g) == [k \in 1..N |-> IF k = 1 THEN seqs[k] ELSE g[k - 1] \o seqs[k]]
           G == [n \in Nat |-> [s \in Seq(S) |-> IF n \in 1..N THEN s \o seqs[n] ELSE s]]
           f == CHOOSE g : g = Step(g)
<1>1. N \in Nat \ {0} /\ \A k \in 1..N : seqs[k] \in Seq(S)
  OBVIOUS
<1> HIDE DEF N
<1>2. G \in [Nat -> [Seq(S) -> Seq(S)]] /\ <<>> \in Seq(S)
  <2>1. ASSUME NEW n \in Nat, NEW s \in Seq(S) PROVE (IF n \in 1..N THEN s \o seqs[n] ELSE s) \in Seq(S)
    <3>1. CASE n \in 1..N
      <4> DEFINE x == seqs[n]
      <4>1. x \in Seq(S)
        BY <3>1, <1>1
      <4> HIDE DEF x
      <4>2. s \o x \in Seq(S)
        BY <4>1
      <4> QED BY <3>1, <4>2 DEF x
    <3> QED BY <3>1
  <2> QED BY <2>1
<1>3. PICK h \in [0..N -> Seq(S)] : h[0] = <<>> /\ \A n \in 1..N : h[n] = G[n][h[n - 1]]
  <2> DEFINE V == Seq(S)
             a == <<>>
  <2>1. N \in Nat /\ a \in V /\ IsStep(G, V)
    BY <1>1, <1>2 DEF IsStep
  <2> HIDE DEF G, V, a
  <2>2. \E v : Follows(v, G, V, a, N)
    BY <2>1, Recursion
  <2> QED BY <2>2 DEF V, a, Follows
<1> DEFINE g == [k \in 1..N |-> h[k]]
<1>4. g = Step(g)
  <2>1. ASSUME NEW k \in 1..N PROVE h[k] = h[k - 1] \o seqs[k]
    <3>1. k \in Nat /\ k - 1 \in 0..N /\ h[k - 1] \in Seq(S)
      BY <1>1, <1>3
    <3> QED BY <1>3, <3>1
  <2>2. ASSUME NEW k \in 1..N PROVE g[k] = IF k = 1 THEN seqs[k] ELSE g[k - 1] \o seqs[k]
    <3>1. CASE k = 1
      <4> DEFINE x == seqs[1]
      <4>1. x \in Seq(S) /\ h[1] = <<>> \o x
        <5>1. \A j : j = k - 1 => h[k] = h[j] \o seqs[k]
          BY <2>1
        <5>3. 0 = k - 1 /\ h[0] = <<>>
          BY <1>3, <3>1
        <5>2. seqs[1] \in Seq(S)
          BY <1>1, <3>1
        <5>4. h[k] = h[0] \o seqs[k]
          BY <5>1, <5>3
        <5> QED BY <5>2, <5>3, <5>4, <3>1
      <4> HIDE DEF x
      <4>2. h[1] = x
        BY <4>1
      <4> QED BY <3>1, <4>2 DEF x
    <3>2. CASE k /= 1
      <4>1. k - 1 \in 1..N
        BY <1>1, <3>2
      <4> QED BY <2>1, <3>2, <4>1
    <3> QED BY <3>1, <3>2
  <2> HIDE DEF g
  <2>3. g = [k \in 1..N |-> g[k]]
    BY DEF g
  <2> QED BY <2>2, <2>3
<1>5. f = Step(f)
  <2> HIDE DEF g, Step
  <2> QED BY <1>4
<1> HIDE DEF f
<1>6. f[1] = seqs[1] /\ \A k \in 2..N : f[k] = f[k - 1] \o seqs[k]
  <2>1. \A k \in 1..N : f[k] = IF k = 1 THEN seqs[k] ELSE f[k - 1] \o seqs[k]
    BY <1>5
  <2>2. 1 \in 1..N /\ \A k \in 2..N : k \in 1..N /\ k /= 1
    BY <1>1
  <2>3. f[1] = seqs[1]
    BY <2>1, <2>2
  <2>4. ASSUME NEW k \in 2..N PROVE f[k] = f[k - 1] \o seqs[k]
    BY <2>1, <2>2
  <2> QED BY <2>3, <2>4
<1>7. FlattenSeq(seqs) = f[N]
  BY <1>1 DEF FlattenSeq, f, N
<1>8. f \in [1..N -> Seq(S)]
  <2> DEFINE T == {n \in Nat : n + 1 \in 1..N => f[n + 1] \in Seq(S)}
  <2>1. 0 \in T
    BY <1>1, <1>6
  <2>2. ASSUME NEW n \in T PROVE n + 1 \in T
    <3> SUFFICES ASSUME (n + 1) + 1 \in 1..N PROVE f[(n + 1) + 1] \in Seq(S)
      OBVIOUS
    <3>1. n + 1 \in 1..N /\ (n + 1) + 1 \in 2..N /\ ((n + 1) + 1) - 1 = n + 1
      BY <1>1
    <3> DEFINE x == seqs[(n + 1) + 1]
               y == f[n + 1]
    <3>2. x \in Seq(S) /\ y \in Seq(S)
      BY <3>1, <1>1
    <3>3. f[(n + 1) + 1] = y \o x
      BY <3>1, <1>6
    <3> HIDE DEF x, y
    <3> QED BY <3>2, <3>3
  <2> HIDE DEF T
  <2>3. T = Nat
    <3>1. T \in SUBSET Nat
      BY DEF T
    <3> QED BY <3>1, <2>1, <2>2, Induction
  <2>4. ASSUME NEW k \in 1..N PROVE f[k] \in Seq(S)
    <3>1. k - 1 \in T /\ (k - 1) + 1 = k
      BY <1>1, <2>3
    <3> QED BY <3>1 DEF T
  <2>5. f = [k \in 1..N |-> f[k]]
    BY <1>5
  <2> QED BY <2>4, <2>5
<1> QED BY <1>6, <1>7, <1>8 DEF N, Flattens

LEMMA FlattenNone == \A seqs : Len(seqs) = 0 => FlattenSeq(seqs) = seqs
BY DEF FlattenSeq

LEMMA FlattenType ==
    ASSUME NEW S, NEW seqs \in Seq(Seq(S))
    PROVE  FlattenSeq(seqs) \in Seq(S)
<1>1. CASE seqs = <<>>
  BY <1>1 DEF FlattenSeq
<1>2. CASE seqs /= <<>>
  <2>1. PICK f : Flattens(f, seqs, S)
    BY <1>2, FlattenSteps
  <2>2. Len(seqs) \in 1..Len(seqs)
    BY <1>2
  <2> QED BY <2>1, <2>2 DEF Flattens
<1> QED BY <1>1, <1>2

\* One more sequence comes at the end.
LEMMA FlattenAppend ==
    ASSUME NEW S, NEW seqs \in Seq(Seq(S)), NEW x \in Seq(S)
    PROVE  FlattenSeq(Append(seqs, x)) = FlattenSeq(seqs) \o x
<1> DEFINE N == Len(seqs)
           more == Append(seqs, x)
<1>1. /\ N \in Nat /\ Len(more) = N + 1 /\ more \in Seq(Seq(S)) /\ more /= <<>>
      /\ more[N + 1] = x /\ \A k \in 1..N : more[k] = seqs[k]
  <2> HIDE DEF more, N
  <2>1. seqs \in Seq(Seq(S)) /\ x \in Seq(S)
    OBVIOUS
  <2> DEFINE T == Seq(S)
  <2> HIDE DEF T
  <2>2. /\ Len(seqs) \in Nat /\ Len(Append(seqs, x)) = Len(seqs) + 1
        /\ Append(seqs, x) \in Seq(T) /\ Append(seqs, x) /= <<>>
        /\ Append(seqs, x)[Len(seqs) + 1] = x
        /\ \A k \in 1..Len(seqs) : Append(seqs, x)[k] = seqs[k]
    BY <2>1, AppendProperties DEF T
  <2> QED BY <2>2 DEF more, N, T
<1> HIDE DEF more, N
<1>2. PICK g \in [1..(N + 1) -> Seq(S)] :
        /\ FlattenSeq(more) = g[N + 1] /\ g[1] = more[1]
        /\ \A k \in 2..(N + 1) : g[k] = g[k - 1] \o more[k]
  <2>1. PICK g : Flattens(g, more, S)
    BY <1>1, FlattenSteps
  <2> QED BY <1>1, <2>1 DEF Flattens
<1>3. CASE seqs = <<>>
  <2>1. N = 0
    BY <1>3 DEF N
  <2>2. FlattenSeq(more) = x
    BY <1>1, <1>2, <2>1
  <2>3. FlattenSeq(seqs) = <<>>
    BY <1>3 DEF FlattenSeq
  <2> QED BY <2>2, <2>3 DEF more
<1>4. CASE seqs /= <<>>
  <2>1. PICK f \in [1..N -> Seq(S)] :
          /\ FlattenSeq(seqs) = f[N] /\ f[1] = seqs[1]
          /\ \A k \in 2..N : f[k] = f[k - 1] \o seqs[k]
    <3>1. PICK f : Flattens(f, seqs, S)
      BY <1>4, FlattenSteps
    <3> QED BY <3>1 DEF N, Flattens
  <2>2. N >= 1
    BY <1>1, <1>4 DEF N
  <2> DEFINE T == {n \in Nat : n + 1 \in 1..N => g[n + 1] = f[n + 1]}
  <2>3. 0 \in T
    BY <1>1, <1>2, <2>1, <2>2
  <2>4. ASSUME NEW n \in T PROVE n + 1 \in T
    <3> SUFFICES ASSUME (n + 1) + 1 \in 1..N PROVE g[(n + 1) + 1] = f[(n + 1) + 1]
      OBVIOUS
    <3>1. /\ n + 1 \in 1..N /\ (n + 1) + 1 \in 2..N /\ (n + 1) + 1 \in 2..(N + 1)
          /\ ((n + 1) + 1) - 1 = n + 1
      BY <1>1
    <3>2. g[n + 1] = f[n + 1]
      BY <3>1
    <3>3. more[(n + 1) + 1] = seqs[(n + 1) + 1]
      BY <1>1
    <3> QED BY <1>2, <2>1, <3>1, <3>2, <3>3
  <2> HIDE DEF T
  <2>5. T = Nat
    <3>1. T \in SUBSET Nat
      BY DEF T
    <3> QED BY <3>1, <2>3, <2>4, Induction
  <2>6. N - 1 \in T /\ (N - 1) + 1 = N
    BY <1>1, <2>2, <2>5
  <2>7. g[N] = f[N]
    BY <1>1, <2>2, <2>6 DEF T
  <2>8. N + 1 \in 2..(N + 1) /\ (N + 1) - 1 = N
    BY <1>1, <2>2
  <2>9. g[N + 1] = g[N] \o x
    BY <1>1, <1>2, <2>8
  <2> QED BY <1>2, <2>1, <2>7, <2>9 DEF more
<1> QED BY <1>3, <1>4

-----------------------------------------------------------------------------
LEMMA OneMoreTime == ASSUME NEW b \in Nat, NEW x \in Int PROVE b * (x + 1) = b * x + b
OBVIOUS

LEMMA Times == ASSUME NEW b \in Nat, NEW x \in Int, NEW y \in Int, x <= y PROVE b * x <= b * y
OBVIOUS

\* A byte before a number of bytes is what the division leaves.
LEMMA DivideByBase ==
    ASSUME NEW b \in Nat \ {0}, NEW d \in 0..(b - 1), NEW x \in Nat
    PROVE  (d + b * x) \div b = x /\ (d + b * x) % b = d
<1> DEFINE n == d + b * x
           q == n \div b
           r == n % b
<1>1. b * x \in Nat
  OBVIOUS
<1>2. n \in Nat
  BY <1>1
<1>3. q \in Int /\ r \in 0..(b - 1) /\ n = b * q + r
  <2> HIDE DEF n
  <2> QED BY <1>2
<1> HIDE DEF q, r
<1>4. q = x
  <2>1. b * q \in Int
    BY <1>3
  <2>2. CASE q >= x + 1
    <3>1. b * (x + 1) <= b * q
      BY <1>3, <2>2, Times
    <3>2. b * (x + 1) = b * x + b
      BY OneMoreTime
    <3> QED BY <1>1, <1>3, <2>1, <3>1, <3>2
  <2>3. CASE q + 1 <= x
    <3>1. b * (q + 1) <= b * x
      BY <1>3, <2>3, Times
    <3>2. b * (q + 1) = b * q + b
      BY <1>3, OneMoreTime
    <3> QED BY <1>1, <1>3, <2>1, <3>1, <3>2
  <2> QED BY <1>3, <2>2, <2>3
<1>5. r = d
  BY <1>1, <1>3, <1>4
<1> QED BY <1>4, <1>5 DEF q, r

-----------------------------------------------------------------------------
\* The parser: the bytes of a size.

\* What LittleEndian computes, from the last byte on.
Values(f, bytes) ==
    /\ f \in [0..SizeBytes -> Nat]
    /\ Parser!LittleEndian(bytes) = f[SizeBytes]
    /\ f[0] = 0
    /\ \A n \in 1..SizeBytes : f[n] = bytes[SizeBytes - n + 1] + Base * f[n - 1]

LEMMA LittleEndianSteps ==
    ASSUME Base \in Nat \ {0}, SizeBytes \in Nat, NEW bytes \in [1..SizeBytes -> Parser!Byte]
    PROVE  \E f : Values(f, bytes)
<1> DEFINE N == SizeBytes
           Step(g) == [n \in 0..N |-> IF n = 0 THEN 0 ELSE bytes[N - n + 1] + Base * g[n - 1]]
           G == [n \in Nat |-> [v \in Nat |-> IF n \in 1..N THEN bytes[N - n + 1] + Base * v ELSE v]]
           f == CHOOSE g : g = Step(g)
<1>1. N \in Nat /\ \A n \in 1..N : bytes[N - n + 1] \in Nat
  <2>1. ASSUME NEW n \in 1..N PROVE N - n + 1 \in 1..N
    OBVIOUS
  <2> QED BY <2>1 DEF Parser!Byte
<1> HIDE DEF N
<1>2. G \in [Nat -> [Nat -> Nat]]
  <2>1. ASSUME NEW n \in Nat, NEW v \in Nat
        PROVE  (IF n \in 1..N THEN bytes[N - n + 1] + Base * v ELSE v) \in Nat
    <3> DEFINE x == Base * v
    <3>1. x \in Nat
      OBVIOUS
    <3> HIDE DEF x
    <3>2. CASE n \in 1..N
      <4>1. bytes[N - n + 1] \in Nat
        BY <1>1, <3>2
      <4> QED BY <3>1, <3>2, <4>1 DEF x
    <3>3. CASE n \notin 1..N
      BY <3>3
    <3> QED BY <3>2, <3>3
  <2> QED BY <2>1
<1>3. PICK h \in [0..N -> Nat] : h[0] = 0 /\ \A n \in 1..N : h[n] = G[n][h[n - 1]]
  <2>1. IsStep(G, Nat)
    BY <1>2 DEF IsStep
  <2> HIDE DEF G
  <2>2. \E v : Follows(v, G, Nat, 0, N)
    BY <1>1, <2>1, Recursion
  <2> QED BY <2>2 DEF Follows
<1>4. h = Step(h)
  <2>1. ASSUME NEW n \in 1..N PROVE h[n] = bytes[N - n + 1] + Base * h[n - 1]
    <3>1. n \in Nat /\ n - 1 \in 0..N /\ h[n - 1] \in Nat
      BY <1>1, <1>3
    <3> QED BY <1>3, <3>1
  <2>2. ASSUME NEW n \in 0..N
        PROVE  h[n] = IF n = 0 THEN 0 ELSE bytes[N - n + 1] + Base * h[n - 1]
    BY <1>1, <1>3, <2>1
  <2>3. h = [n \in 0..N |-> h[n]]
    BY <1>3
  <2> QED BY <2>2, <2>3
<1>5. f = Step(f)
  <2> HIDE DEF Step
  <2> QED BY <1>4
<1>6. Parser!LittleEndian(bytes) = f[N]
  BY DEF Parser!LittleEndian, f, N
<1> HIDE DEF f
<1>7. f[0] = 0 /\ \A n \in 1..N : f[n] = bytes[N - n + 1] + Base * f[n - 1]
  <2>1. \A n \in 0..N : f[n] = IF n = 0 THEN 0 ELSE bytes[N - n + 1] + Base * f[n - 1]
    BY <1>5
  <2>2. 0 \in 0..N /\ \A n \in 1..N : n \in 0..N /\ n /= 0
    BY <1>1
  <2>3. f[0] = 0
    BY <2>1, <2>2
  <2>4. ASSUME NEW n \in 1..N PROVE f[n] = bytes[N - n + 1] + Base * f[n - 1]
    BY <2>1, <2>2
  <2> QED BY <2>3, <2>4
<1>8. f \in [0..N -> Nat]
  <2> DEFINE T == {n \in Nat : n \in 0..N => f[n] \in Nat}
  <2>1. 0 \in T
    BY <1>7
  <2>2. ASSUME NEW n \in T PROVE n + 1 \in T
    <3> SUFFICES ASSUME n + 1 \in 0..N PROVE f[n + 1] \in Nat
      OBVIOUS
    <3>1. n + 1 \in 1..N /\ n \in 0..N /\ (n + 1) - 1 = n /\ f[n] \in Nat
      BY <1>1
    <3> DEFINE x == Base * f[n]
    <3>2. x \in Nat
      BY <3>1
    <3>3. f[n + 1] = bytes[N - (n + 1) + 1] + x
      BY <1>7, <3>1
    <3>4. bytes[N - (n + 1) + 1] \in Nat
      BY <1>1, <3>1
    <3> HIDE DEF x
    <3> QED BY <3>2, <3>3, <3>4
  <2> HIDE DEF T
  <2>3. T = Nat
    <3>1. T \in SUBSET Nat
      BY DEF T
    <3> QED BY <3>1, <2>1, <2>2, Induction
  <2>4. ASSUME NEW k \in 0..N PROVE f[k] \in Nat
    BY <1>1, <2>3, SMTT(30) DEF T
  <2>5. f = [k \in 0..N |-> f[k]]
    BY <1>5
  <2> QED BY <2>4, <2>5
<1> QED BY <1>6, <1>7, <1>8 DEF N, Values

\* What SizeField computes: what is left of the size when the lowest bytes are taken away.
Rests(g, size) ==
    /\ g \in [0..SizeBytes -> Nat]
    /\ Parser!SizeField(size) = [k \in 1..SizeBytes |-> g[k - 1] % Base]
    /\ g[0] = size
    /\ \A k \in 1..SizeBytes : g[k] = g[k - 1] \div Base

LEMMA DivideNat == ASSUME NEW b \in Nat \ {0}, NEW n \in Nat PROVE n \div b \in Nat /\ n % b \in 0..(b - 1)
<1> DEFINE q == n \div b
           r == n % b
<1>1. q \in Int /\ r \in 0..(b - 1) /\ n = b * q + r
  OBVIOUS
<1> HIDE DEF q, r
<1>2. q >= 0
  <2> SUFFICES ASSUME q + 1 <= 0 PROVE FALSE
    BY <1>1
  <2>1. b * (q + 1) <= b * 0 /\ b * (q + 1) = b * q + b /\ b * 0 = 0 /\ b * q \in Int
    BY <1>1, Times, OneMoreTime
  <2> QED BY <1>1, <2>1
<1> QED BY <1>1, <1>2 DEF q, r

LEMMA SizeFieldSteps ==
    ASSUME Base \in Nat \ {0}, SizeBytes \in Nat, NEW size \in Nat
    PROVE  \E g : Rests(g, size)
<1> DEFINE N == SizeBytes
           Step(g) == [k \in 0..N |-> IF k = 0 THEN size ELSE g[k - 1] \div Base]
           G == [n \in Nat |-> [v \in Nat |-> v \div Base]]
           f == CHOOSE g : g = Step(g)
<1>1. N \in Nat
  OBVIOUS
<1> HIDE DEF N
<1>2. G \in [Nat -> [Nat -> Nat]]
  <2>1. ASSUME NEW v \in Nat PROVE v \div Base \in Nat
    BY DivideNat
  <2> QED BY <2>1
<1>3. PICK h \in [0..N -> Nat] : h[0] = size /\ \A n \in 1..N : h[n] = G[n][h[n - 1]]
  <2>1. IsStep(G, Nat)
    BY <1>2 DEF IsStep
  <2> HIDE DEF G
  <2>2. \E v : Follows(v, G, Nat, size, N)
    BY <1>1, <2>1, Recursion
  <2> QED BY <2>2 DEF Follows
<1>4. h = Step(h)
  <2>1. ASSUME NEW n \in 1..N PROVE h[n] = h[n - 1] \div Base
    <3>1. n \in Nat /\ n - 1 \in 0..N /\ h[n - 1] \in Nat
      BY <1>1, <1>3
    <3> QED BY <1>3, <3>1
  <2>2. ASSUME NEW n \in 0..N PROVE h[n] = IF n = 0 THEN size ELSE h[n - 1] \div Base
    BY <1>1, <1>3, <2>1
  <2>3. h = [n \in 0..N |-> h[n]]
    BY <1>3
  <2> QED BY <2>2, <2>3
<1>5. f = Step(f)
  <2> HIDE DEF Step
  <2> QED BY <1>4
<1>6. Parser!SizeField(size) = [k \in 1..N |-> f[k - 1] % Base]
  BY DEF Parser!SizeField, f, N
<1> HIDE DEF f
<1>7. f[0] = size /\ \A n \in 1..N : f[n] = f[n - 1] \div Base
  <2>1. \A n \in 0..N : f[n] = IF n = 0 THEN size ELSE f[n - 1] \div Base
    BY <1>5
  <2>2. 0 \in 0..N /\ \A n \in 1..N : n \in 0..N /\ n /= 0
    BY <1>1
  <2>3. f[0] = size
    BY <2>1, <2>2
  <2>4. ASSUME NEW n \in 1..N PROVE f[n] = f[n - 1] \div Base
    BY <2>1, <2>2
  <2> QED BY <2>3, <2>4
<1>8. f \in [0..N -> Nat]
  <2> DEFINE T == {n \in Nat : n \in 0..N => f[n] \in Nat}
  <2>1. 0 \in T
    BY <1>7
  <2>2. ASSUME NEW n \in T PROVE n + 1 \in T
    <3> SUFFICES ASSUME n + 1 \in 0..N PROVE f[n + 1] \in Nat
      OBVIOUS
    <3>1. n + 1 \in 1..N /\ n \in 0..N /\ (n + 1) - 1 = n /\ f[n] \in Nat
      BY <1>1
    <3>3. f[n + 1] = f[n] \div Base
      BY <1>7, <3>1
    <3> QED BY <3>1, <3>3, DivideNat
  <2> HIDE DEF T
  <2>3. T = Nat
    <3>1. T \in SUBSET Nat
      BY DEF T
    <3> QED BY <3>1, <2>1, <2>2, Induction
  <2>4. ASSUME NEW k \in 0..N PROVE f[k] \in Nat
    BY <1>1, <2>3 DEF T
  <2>5. f = [k \in 0..N |-> f[k]]
    BY <1>5
  <2> QED BY <2>4, <2>5
<1> QED BY <1>6, <1>7, <1>8 DEF N, Rests

\* The bytes of a size are those that give it.
LEMMA SizeFieldOfValue ==
    ASSUME Base \in Nat \ {0}, SizeBytes \in Nat, NEW bytes \in [1..SizeBytes -> Parser!Byte]
    PROVE  Parser!LittleEndian(bytes) \in Nat /\ Parser!SizeField(Parser!LittleEndian(bytes)) = bytes
<1> DEFINE N == SizeBytes
           size == Parser!LittleEndian(bytes)
<1>1. PICK f \in [0..N -> Nat] :
        size = f[N] /\ f[0] = 0 /\ \A n \in 1..N : f[n] = bytes[N - n + 1] + Base * f[n - 1]
  <2>1. PICK f : Values(f, bytes)
    BY LittleEndianSteps
  <2> QED BY <2>1 DEF Values
<1>2. N \in Nat /\ \A k \in 1..N : bytes[k] \in 0..(Base - 1)
  BY DEF Parser!Byte
<1>3. size \in Nat
  BY <1>1, <1>2
<1> HIDE DEF size
<1>4. PICK g \in [0..N -> Nat] :
        /\ Parser!SizeField(size) = [k \in 1..N |-> g[k - 1] % Base]
        /\ g[0] = size /\ \A k \in 1..N : g[k] = g[k - 1] \div Base
  <2>1. PICK g : Rests(g, size)
    BY <1>3, SizeFieldSteps
  <2> QED BY <2>1 DEF Rests
<1> HIDE DEF N
<1>5. ASSUME NEW k \in 1..N, g[k - 1] = f[N - (k - 1)]
      PROVE  g[k] = f[N - k] /\ g[k - 1] % Base = bytes[k]
  <2> DEFINE n == N - (k - 1)
  <2>1. n \in 1..N /\ n - 1 = N - k /\ N - n + 1 = k /\ N - k \in 0..N
    BY <1>2
  <2> HIDE DEF n
  <2>2. f[n] = bytes[k] + Base * f[N - k] /\ f[N - k] \in Nat /\ bytes[k] \in 0..(Base - 1)
    BY <1>1, <1>2, <2>1
  <2>3. f[n] \div Base = f[N - k] /\ f[n] % Base = bytes[k]
    <3> DEFINE d == bytes[k]
               x == f[N - k]
    <3>1. f[n] = d + Base * x /\ x \in Nat /\ d \in 0..(Base - 1)
      BY <2>2
    <3> HIDE DEF d, x
    <3>2. (d + Base * x) \div Base = x /\ (d + Base * x) % Base = d
      BY <3>1, DivideByBase
    <3> QED BY <3>1, <3>2 DEF d, x
  <2>4. g[k - 1] = f[n] /\ g[k] = g[k - 1] \div Base
    BY <1>4, <1>5 DEF n
  <2> QED BY <2>3, <2>4
<1> DEFINE T == {k \in Nat : k \in 0..N => g[k] = f[N - k]}
<1>6. 0 \in T
  BY <1>1, <1>2, <1>4
<1>7. ASSUME NEW k \in T PROVE k + 1 \in T
  <2> SUFFICES ASSUME k + 1 \in 0..N PROVE g[k + 1] = f[N - (k + 1)]
    OBVIOUS
  <2>1. k + 1 \in 1..N /\ (k + 1) - 1 = k /\ k \in 0..N /\ g[k] = f[N - k]
    BY <1>2
  <2> QED BY <1>5, <2>1
<1> HIDE DEF T
<1>8. T = Nat
  <2>1. T \in SUBSET Nat
    BY DEF T
  <2> QED BY <2>1, <1>6, <1>7, Induction
<1>9. ASSUME NEW k \in 1..N PROVE g[k - 1] % Base = bytes[k]
  <2>1. k - 1 \in T /\ k - 1 \in 0..N
    BY <1>2, <1>8
  <2>2. g[k - 1] = f[N - (k - 1)]
    BY <2>1 DEF T
  <2> QED BY <1>5, <2>2
<1>10. bytes = [k \in 1..N |-> bytes[k]]
  BY DEF N
<1> QED BY <1>3, <1>4, <1>9, <1>10 DEF size

LEMMA SizeFieldType ==
    ASSUME Base \in Nat \ {0}, SizeBytes \in Nat, NEW size \in Nat
    PROVE  Parser!SizeField(size) \in [1..SizeBytes -> Parser!Byte]
<1>1. PICK g : Rests(g, size)
  BY SizeFieldSteps
<1>2. ASSUME NEW k \in 1..SizeBytes PROVE g[k - 1] % Base \in Parser!Byte
  <2>1. g[k - 1] \in Nat
    BY <1>1 DEF Rests
  <2> QED BY <2>1, DivideNat DEF Parser!Byte
<1> QED BY <1>1, <1>2 DEF Rests

-----------------------------------------------------------------------------
\* The parser: what is true of it between two rounds.

\* The parameters of the parser: bytes are numbers, and so are sizes and limits.
ParserConstants ==
    /\ Base \in Nat \ {0} /\ SizeBytes \in Nat /\ MaxPiece \in Nat
    /\ Magic \in Seq(Parser!Byte) /\ Limits \subseteq Nat

\* What the call goes on to read, what a round of it reads, and the datagrams of the session.
Rest == SubSeq(data, bytesRead + 1, Len(data))
Piece == SubSeq(data, bytesRead + 1, bytesRead + Parser!ReadSize)
Datagrams == [k \in DOMAIN delivered |-> Parser!Datagram(delivered[k])]

Going == phase \in {"idle", "parsing"}

\* The part that is read is not complete, unless it is an empty one.
PartInv ==
    Going =>
        /\ parsedSize \in Parser!Begin .. Parser!End
        /\ stage /= "payload" => payloadSize = 0
        /\ stage = "payload" =>
              /\ payloadSize = Parser!LittleEndian(sizeBytes)
              /\ Parser!Pos <= maxPayload
              /\ parsedSize < Parser!End \/ payloadSize = 0
        /\ phase = "idle" => data = <<>>

\* The stream is the datagrams, what was read of the next one and what was not yet read.
StreamInv == Going => stream = FlattenSeq(Datagrams) \o Parser!Partial \o Rest

ParserInv == Parser!TypeOK /\ PartInv /\ StreamInv

-----------------------------------------------------------------------------
LEMMA SplitRange ==
    ASSUME NEW S, NEW s \in Seq(S), NEW m \in Nat, NEW k \in Nat, NEW n \in Nat, m <= k, k <= n, n <= Len(s)
    PROVE  /\ SubSeq(s, m + 1, n) = SubSeq(s, m + 1, k) \o SubSeq(s, k + 1, n)
           /\ SubSeq(s, m + 1, n) \in Seq(S) /\ SubSeq(s, m + 1, k) \in Seq(S)
           /\ SubSeq(s, k + 1, n) \in Seq(S)
           /\ Len(SubSeq(s, m + 1, n)) = n - m
OBVIOUS

LEMMA Concat3 ==
    ASSUME NEW S, NEW a \in Seq(S), NEW b \in Seq(S), NEW c \in Seq(S)
    PROVE  (a \o b) \o c = a \o (b \o c) /\ a \o b \in Seq(S)
OBVIOUS

\* What a buffer begins with after the bytes are copied to it.
LEMMA CopiedBytes ==
    ASSUME NEW S, NEW L \in Nat, NEW buffer \in [1..L -> S], NEW d \in Seq(S),
           NEW p \in Nat, NEW b \in Nat, NEW r \in Nat, p + r <= L, b + r <= Len(d),
           NEW copy, copy = [k \in 1..L |-> IF k \in p + 1 .. p + r THEN d[b + k - p] ELSE buffer[k]]
    PROVE  /\ copy \in [1..L -> S]
           /\ SubSeq(copy, 1, p + r) = SubSeq(buffer, 1, p) \o SubSeq(d, b + 1, b + r)
           /\ SubSeq(buffer, 1, p) \in Seq(S)
<1>1. ASSUME NEW k \in 1..L PROVE copy[k] \in S
  <2>1. CASE k \in p + 1 .. p + r
    <3>1. b + k - p \in 1..Len(d)
      BY <2>1
    <3> QED BY <2>1, <3>1
  <2>2. CASE k \notin p + 1 .. p + r
    BY <2>2
  <2> QED BY <2>1, <2>2
<1>2. copy \in [1..L -> S]
  BY <1>1
<1>9. \A k \in 1..L : copy[k] = IF k \in p + 1 .. p + r THEN d[b + k - p] ELSE buffer[k]
  OBVIOUS
<1>3. buffer \in Seq(S) /\ Len(buffer) = L /\ copy \in Seq(S) /\ Len(copy) = L
  BY <1>2
<1> DEFINE x == SubSeq(buffer, 1, p)
           y == SubSeq(d, b + 1, b + r)
           z == SubSeq(copy, 1, p + r)
<1>4. x \in Seq(S) /\ Len(x) = p /\ \A k \in 1..p : x[k] = buffer[k]
  BY <1>3
<1>5. y \in Seq(S) /\ Len(y) = r /\ \A k \in 1..r : y[k] = d[b + k]
  OBVIOUS
<1>6. z \in Seq(S) /\ Len(z) = p + r /\ \A k \in 1..(p + r) : z[k] = copy[k]
  BY <1>3
<1> HIDE DEF x, y, z
<1>7. ASSUME NEW k \in 1..(p + r) PROVE z[k] = (x \o y)[k]
  <2>1. CASE k <= p
    <3>1. k \in 1..p /\ k \in 1..L /\ k \notin p + 1 .. p + r
      BY <2>1
    <3>2. z[k] = buffer[k]
      BY <1>6, <1>9, <3>1
    <3>3. (x \o y)[k] = x[k]
      BY <1>4, <1>5, <3>1
    <3> QED BY <1>4, <3>1, <3>2, <3>3
  <2>2. CASE k > p
    <3>1. k \in p + 1 .. p + r /\ k \in 1..L /\ k - p \in 1..r /\ b + (k - p) = b + k - p
      BY <2>2
    <3>2. z[k] = d[b + k - p]
      BY <1>6, <1>9, <3>1
    <3>3. (x \o y)[k] = y[k - p]
      <4> DEFINE j == k - p
      <4>1. j \in 1..Len(y) /\ k = Len(x) + j
        <5>1. Len(x) = p /\ Len(y) = r
          BY <1>4, <1>5
        <5>2. j \in 1..r /\ k = p + j
          BY <3>1
        <5> HIDE DEF j
        <5> QED BY <5>1, <5>2
      <4> HIDE DEF j
      <4>2. (x \o y)[Len(x) + j] = y[j]
        <5>1. x \in Seq(S) /\ y \in Seq(S)
          BY <1>4, <1>5
        <5>2. \A m \in 1..Len(y) : (x \o y)[Len(x) + m] = y[m]
          BY <5>1
        <5> QED BY <4>1, <5>2, Zenon
      <4> QED BY <4>1, <4>2 DEF j
    <3>4. y[k - p] = d[b + (k - p)]
      BY <1>5, <3>1
    <3> QED BY <3>1, <3>2, <3>3, <3>4
  <2>3. k <= p \/ k > p
    OBVIOUS
  <2> QED BY <2>1, <2>2, <2>3, Zenon
<1>8. z = x \o y
  <2> DEFINE v == x \o y
  <2>1. v \in Seq(S) /\ Len(v) = p + r
    <3>1. x \in Seq(S) /\ y \in Seq(S)
      BY <1>4, <1>5
    <3>2. x \o y \in Seq(S) /\ Len(x \o y) = Len(x) + Len(y)
      BY <3>1
    <3> QED BY <1>4, <1>5, <3>2
  <2>2. \A k \in 1..(p + r) : z[k] = v[k]
    BY <1>7
  <2>3. z \in Seq(S) /\ Len(z) = p + r
    BY <1>6
  <2> HIDE DEF v
  <2>4. Len(z) = Len(v) /\ \A k \in 1..Len(z) : z[k] = v[k]
    BY <2>1, <2>2, <2>3
  <2>5. z = v
    BY <2>1, <2>3, <2>4, SeqEqual, Zenon
  <2> QED BY <2>5 DEF v
<1> QED BY <1>2, <1>4, <1>8 DEF x, y, z

LEMMA DatagramType ==
    ASSUME ParserConstants, NEW p \in Seq(Parser!Byte)
    PROVE  Parser!Datagram(p) \in Seq(Parser!Byte)
<1> DEFINE f == Parser!SizeField(Len(p))
<1>1. f \in [1..SizeBytes -> Parser!Byte]
  BY SizeFieldType DEF ParserConstants
<1> HIDE DEF f
<1>2. f \in Seq(Parser!Byte)
  BY <1>1 DEF ParserConstants
<1>3. Magic \o f \o p \in Seq(Parser!Byte)
  BY <1>2 DEF ParserConstants
<1> QED BY <1>3 DEF Parser!Datagram, f

\* The datagrams and what was read of the next one are sequences of bytes.
LEMMA DatagramsType ==
    ASSUME ParserConstants, Parser!TypeOK
    PROVE  Datagrams \in Seq(Seq(Parser!Byte)) /\ Len(Datagrams) = Len(delivered) /\ FlattenSeq(Datagrams) \in Seq(Parser!Byte)
<1>1. delivered \in Seq(Seq(Parser!Byte))
  BY DEF Parser!TypeOK
<1>2. ASSUME NEW k \in DOMAIN delivered PROVE Parser!Datagram(delivered[k]) \in Seq(Parser!Byte)
  BY <1>1, DatagramType
<1>3. Datagrams \in Seq(Seq(Parser!Byte)) /\ Len(Datagrams) = Len(delivered)
  <2> DEFINE T == Seq(Parser!Byte)
             D(k) == Parser!Datagram(delivered[k])
             L == Len(delivered)
  <2>1. L \in Nat /\ DOMAIN delivered = 1..L
    BY <1>1
  <2>2. \A k \in 1..L : D(k) \in T
    BY <1>2, <2>1
  <2>3. Datagrams = [k \in 1..L |-> D(k)]
    BY <2>1 DEF Datagrams
  <2> HIDE DEF T, D, L
  <2>4. Datagrams \in Seq(T) /\ Len(Datagrams) = L
    BY <2>1, <2>2, <2>3
  <2> QED BY <2>4 DEF T, L
<1> QED BY <1>3, FlattenType

\* A round that stays inside the buffers.
LEMMA RoundFacts ==
    ASSUME ParserConstants, ParserInv, phase = "parsing", Parser!ReadsInside
    PROVE  /\ Parser!ReadSize \in Nat /\ Parser!LeftToRead \in Nat /\ Parser!Pos \in Nat
           /\ Parser!ReadSize <= Parser!LeftToRead
           /\ bytesRead \in Nat /\ bytesRead + Parser!ReadSize <= Len(data) /\ Len(data) \in Nat
           /\ bytesRead + Parser!ReadSize \in 0..Len(data)
           /\ Rest = Piece \o SubSeq(data, bytesRead + Parser!ReadSize + 1, Len(data))
           /\ Piece \in Seq(Parser!Byte)
           /\ SubSeq(data, bytesRead + Parser!ReadSize + 1, Len(data)) \in Seq(Parser!Byte)
           /\ Len(Magic) \in Nat
<1>1. /\ stage \in {"magic", "size", "payload"} /\ payloadSize \in Nat /\ parsedSize \in Nat /\ Len(Magic) \in Nat
      /\ SizeBytes \in Nat /\ data \in Seq(Parser!Byte) /\ Len(data) \in Nat /\ bytesRead \in 0..Len(data)
      /\ parsedSize \in Parser!Begin .. Parser!End
  BY DEF ParserConstants, ParserInv, PartInv, Going, Parser!TypeOK
<1>2. Parser!Begin \in Nat /\ Parser!End \in Nat
  BY <1>1 DEF Parser!Begin, Parser!End, Parser!MagicSize, Parser!HeaderSize
<1>3. Parser!Pos \in Nat /\ Parser!LeftToRead \in Nat
  BY <1>1, <1>2 DEF Parser!Pos, Parser!LeftToRead
<1>4. Parser!ReadSize \in Nat /\ Parser!ReadSize <= Parser!LeftToRead
  BY <1>1, <1>3 DEF Parser!ReadSize
<1>5. bytesRead + Parser!ReadSize <= Len(data)
  BY DEF Parser!ReadsInside
<1> DEFINE k == bytesRead + Parser!ReadSize
<1>6. bytesRead \in Nat /\ k \in Nat /\ bytesRead <= k /\ k <= Len(data)
  BY <1>1, <1>4, <1>5
<1> HIDE DEF k
<1>7. /\ SubSeq(data, bytesRead + 1, Len(data)) = SubSeq(data, bytesRead + 1, k) \o SubSeq(data, k + 1, Len(data))
      /\ SubSeq(data, bytesRead + 1, k) \in Seq(Parser!Byte) /\ SubSeq(data, k + 1, Len(data)) \in Seq(Parser!Byte)
  <2> DEFINE S == Parser!Byte
             n == Len(data)
             m == bytesRead
             s == data
  <2>1. s \in Seq(S) /\ m \in Nat /\ k \in Nat /\ n \in Nat /\ m <= k /\ k <= n /\ n <= Len(s)
    BY <1>1, <1>6
  <2> HIDE DEF S, n, m, s
  <2>2. /\ SubSeq(s, m + 1, n) = SubSeq(s, m + 1, k) \o SubSeq(s, k + 1, n)
        /\ SubSeq(s, m + 1, k) \in Seq(S) /\ SubSeq(s, k + 1, n) \in Seq(S)
    BY <2>1, SplitRange
  <2> QED BY <2>2 DEF S, n, m, s
<1>8. k = bytesRead + Parser!ReadSize /\ k \in 0..Len(data)
  BY <1>1, <1>6 DEF k
<1>9. Rest = Piece \o SubSeq(data, k + 1, Len(data)) /\ Piece \in Seq(Parser!Byte)
  BY <1>7 DEF k, Rest, Piece
<1> QED BY <1>1, <1>3, <1>4, <1>5, <1>6, <1>7, <1>8, <1>9

\* A round keeps the account of the stream when it moves what it reads from the rest to
\* the datagrams.
LEMMA AccountMoves ==
    ASSUME ParserConstants, ParserInv, phase = "parsing", Parser!ReadsInside,
           UNCHANGED <<data, stream>>, bytesRead' = bytesRead + Parser!ReadSize,
           Parser!Partial \in Seq(Parser!Byte),
           (FlattenSeq(Datagrams) \o Parser!Partial)' = (FlattenSeq(Datagrams) \o Parser!Partial) \o Piece
    PROVE  StreamInv'
<1> DEFINE rest == SubSeq(data, bytesRead + Parser!ReadSize + 1, Len(data))
           B == Parser!Byte
           read == FlattenSeq(Datagrams) \o Parser!Partial
           piece == Piece
<1>1. Rest = piece \o rest /\ piece \in Seq(B) /\ rest \in Seq(B)
  BY RoundFacts
<1>2. Rest' = rest
  BY DEF Rest
<1>3. read \in Seq(B)
  <2>1. FlattenSeq(Datagrams) \in Seq(B)
    BY DatagramsType DEF ParserInv
  <2> DEFINE a == FlattenSeq(Datagrams)
             b == Parser!Partial
  <2>2. a \in Seq(B) /\ b \in Seq(B)
    BY <2>1
  <2> HIDE DEF a, b, B
  <2>3. a \o b \in Seq(B)
    BY <2>2, Concat3
  <2> QED BY <2>3 DEF a, b
<1>4. stream = read \o Rest
  BY DEF ParserInv, StreamInv, Going
<1>5. read' = read \o piece
  OBVIOUS
<1>6. stream' = stream
  OBVIOUS
<1> HIDE DEF rest, B, read, piece
<1>7. (read \o piece) \o rest = read \o (piece \o rest)
  BY <1>1, <1>3, Concat3, SMTT(30)
<1>8. stream' = read' \o Rest'
  BY <1>1, <1>2, <1>4, <1>5, <1>6, <1>7
<1> QED BY <1>8 DEF StreamInv, read

\* Where each part begins and ends, and what was read of the datagram.
InStage ==
    /\ stage = "magic" =>
          /\ Parser!Begin = 0 /\ Parser!End = Len(Magic) /\ Parser!Pos = parsedSize - 0
          /\ Parser!Partial = SubSeq(magicBytes, 1, parsedSize)
    /\ stage = "size" =>
          /\ Parser!Begin = Len(Magic) /\ Parser!End = Len(Magic) + SizeBytes
          /\ Parser!Pos = parsedSize - Len(Magic)
          /\ Parser!Partial = Magic \o SubSeq(sizeBytes, 1, Parser!Pos)
    /\ stage = "payload" =>
          /\ Parser!Begin = Len(Magic) + SizeBytes /\ Parser!End = Len(Magic) + SizeBytes + payloadSize
          /\ Parser!Pos = parsedSize - (Len(Magic) + SizeBytes)
          /\ Parser!Partial = Magic \o sizeBytes \o SubSeq(payload, 1, Parser!Pos)

LEMMA Stages == InStage /\ InStage'
<1>1. InStage
  BY DEF InStage, Parser!Begin, Parser!End, Parser!Pos, Parser!Partial, Parser!MagicSize, Parser!HeaderSize
<1>2. InStage'
  BY DEF InStage, Parser!Begin, Parser!End, Parser!Pos, Parser!Partial, Parser!MagicSize, Parser!HeaderSize
<1> QED BY <1>1, <1>2

LEMMA Prefix ==
    ASSUME NEW S, NEW L \in Nat, NEW buffer \in [1..L -> S], NEW p \in 0..L
    PROVE  /\ SubSeq(buffer, 1, p) \in Seq(S) /\ buffer \in Seq(S)
           /\ SubSeq(buffer, 1, 0) = <<>> /\ SubSeq(buffer, 1, L) = buffer
<1>1. buffer \in Seq(S) /\ Len(buffer) = L
  OBVIOUS
<1>2. SubSeq(buffer, 1, L) = buffer
  <2> DEFINE z == SubSeq(buffer, 1, L)
  <2>1. z \in Seq(S) /\ Len(z) = Len(buffer) /\ \A k \in 1..Len(z) : z[k] = buffer[k]
    BY <1>1
  <2> HIDE DEF z
  <2>2. z = buffer
    BY <1>1, <2>1, SeqEqual, Zenon
  <2> QED BY <2>2 DEF z
<1> QED BY <1>1, <1>2

LEMMA PartialType ==
    ASSUME ParserConstants, Parser!TypeOK, PartInv, Going
    PROVE  Parser!Partial \in Seq(Parser!Byte)
<1> DEFINE B == Parser!Byte
<1>1. /\ stage \in {"magic", "size", "payload"} /\ parsedSize \in Nat /\ Len(Magic) \in Nat /\ SizeBytes \in Nat
      /\ magicBytes \in [1..Len(Magic) -> B] /\ sizeBytes \in [1..SizeBytes -> B]
      /\ maxPayload \in Nat /\ payload \in [1..maxPayload -> B] /\ Magic \in Seq(B)
      /\ parsedSize \in Parser!Begin .. Parser!End
      /\ payloadSize \in Nat
  BY DEF ParserConstants, PartInv, Parser!TypeOK, Parser!MagicSize
<1>0. stage = "payload" => Parser!Pos <= maxPayload
  BY DEF PartInv
<1> HIDE DEF B
<1>2. CASE stage = "magic"
  <2>1. Parser!Partial = SubSeq(magicBytes, 1, parsedSize) /\ parsedSize \in 0..Len(Magic)
    BY <1>1, <1>2, Stages DEF InStage
  <2>2. SubSeq(magicBytes, 1, parsedSize) \in Seq(B)
    BY <1>1, <2>1, Prefix
  <2> QED BY <2>1, <2>2 DEF B
<1>3. CASE stage = "size"
  <2> DEFINE p == Parser!Pos
             s == SubSeq(sizeBytes, 1, p)
  <2>1. Parser!Partial = Magic \o s /\ p \in 0..SizeBytes
    BY <1>1, <1>3, Stages DEF InStage
  <2> HIDE DEF p
  <2>2. s \in Seq(B)
    BY <1>1, <2>1, Prefix
  <2> HIDE DEF s
  <2>3. Magic \o s \in Seq(B)
    BY <1>1, <2>2, Concat3
  <2> QED BY <2>1, <2>3 DEF B
<1>4. CASE stage = "payload"
  <2> DEFINE p == Parser!Pos
             s == SubSeq(payload, 1, p)
  <2>1. Parser!Partial = Magic \o sizeBytes \o s /\ p \in 0..maxPayload
    <3>1. Parser!Pos \in Nat
      BY <1>1, <1>4, Stages DEF InStage
    <3> QED BY <1>0, <1>1, <1>4, <3>1, Stages DEF InStage
  <2> HIDE DEF p
  <2>2. s \in Seq(B)
    BY <1>1, <2>1, Prefix
  <2> HIDE DEF s
  <2>3. sizeBytes \in Seq(B)
    BY <1>1
  <2>4. Magic \o sizeBytes \o s \in Seq(B)
    BY <1>1, <2>2, <2>3, Concat3
  <2> QED BY <2>1, <2>4 DEF B
<1> QED BY <1>1, <1>2, <1>3, <1>4

\* What a round leaves in the buffer of the part that it reads.
LEMMA RoundCopies ==
    ASSUME ParserConstants, ParserInv, phase = "parsing", Parser!ReadsInside,
           NEW L \in Nat, NEW buffer \in [1..L -> Parser!Byte], Parser!Pos + Parser!ReadSize <= L
    PROVE  /\ Parser!Copied(buffer) \in [1..L -> Parser!Byte]
           /\ SubSeq(Parser!Copied(buffer), 1, Parser!Pos + Parser!ReadSize)
                = SubSeq(buffer, 1, Parser!Pos) \o Piece
           /\ SubSeq(buffer, 1, Parser!Pos) \in Seq(Parser!Byte)
<1> DEFINE p == Parser!Pos
           r == Parser!ReadSize
           b == bytesRead
           d == data
           B == Parser!Byte
           copy == Parser!Copied(buffer)
<1>1. p \in Nat /\ r \in Nat /\ b \in Nat /\ b + r <= Len(d) /\ p + r <= L
  BY RoundFacts
<1>2. d \in Seq(B)
  BY DEF ParserInv, Parser!TypeOK
<1>3. copy = [k \in 1..L |-> IF k \in p + 1 .. p + r THEN d[b + k - p] ELSE buffer[k]]
  <2>1. DOMAIN buffer = 1..L
    OBVIOUS
  <2> QED BY <2>1 DEF Parser!Copied
<1>4. Piece = SubSeq(d, b + 1, b + r)
  BY DEF Piece
<1>5. buffer \in [1..L -> B]
  OBVIOUS
<1> HIDE DEF p, r, b, d, B, copy
<1>6. /\ copy \in [1..L -> B]
      /\ SubSeq(copy, 1, p + r) = SubSeq(buffer, 1, p) \o SubSeq(d, b + 1, b + r)
      /\ SubSeq(buffer, 1, p) \in Seq(B)
  BY <1>1, <1>2, <1>3, <1>5, CopiedBytes
<1> QED BY <1>4, <1>6 DEF p, r, b, d, B, copy

\* A round after which the same datagrams are delivered.
LEMMA PartMoves ==
    ASSUME ParserConstants, ParserInv, phase = "parsing", Parser!ReadsInside,
           UNCHANGED <<data, stream, delivered>>, bytesRead' = bytesRead + Parser!ReadSize,
           (Parser!Partial)' = Parser!Partial \o Piece
    PROVE  StreamInv'
<1> DEFINE f == FlattenSeq(Datagrams)
           p == Parser!Partial
           B == Parser!Byte
           piece == Piece
<1>1. f \in Seq(B) /\ p \in Seq(B) /\ piece \in Seq(B)
  BY DatagramsType, PartialType, RoundFacts DEF ParserInv, Going
<1>2. f' = f
  BY DEF Datagrams, Parser!Datagram, Parser!SizeField
<1> HIDE DEF f, B, piece
<1>3. f \o (p \o piece) = (f \o p) \o piece
  <2> HIDE DEF p
  <2> QED BY <1>1, Concat3
<1>4. (f \o p)' = (f \o p) \o piece
  BY <1>2, <1>3 DEF piece
<1> QED BY <1>1, <1>4, AccountMoves DEF f, B, piece

-----------------------------------------------------------------------------
\* The parser: its steps.

\* What the types say in numbers.
LEMMA ParserNumbers ==
    ASSUME ParserConstants, ParserInv
    PROVE  /\ maxPayload \in Nat /\ parsedSize \in Nat /\ payloadSize \in Nat
           /\ Len(Magic) \in Nat /\ SizeBytes \in Nat /\ Magic \in Seq(Parser!Byte)
           /\ magicBytes \in [1..Len(Magic) -> Parser!Byte]
           /\ sizeBytes \in [1..SizeBytes -> Parser!Byte]
           /\ payload \in [1..maxPayload -> Parser!Byte]
           /\ stage \in {"magic", "size", "payload"}
           /\ data \in Seq(Parser!Byte) /\ stream \in Seq(Parser!Byte)
           /\ delivered \in Seq(Seq(Parser!Byte))
BY DEF ParserConstants, ParserInv, Parser!TypeOK, Parser!MagicSize

LEMMA ParserNats ==
    ASSUME ParserConstants, ParserInv
    PROVE  /\ maxPayload \in Nat /\ parsedSize \in Nat /\ payloadSize \in Nat
           /\ Len(Magic) \in Nat /\ SizeBytes \in Nat
BY ParserNumbers

\* Where a round leaves the counter of a part that begins at m and has the length l.
LEMMA Offsets ==
    ASSUME NEW x \in Nat, NEW m \in Nat, NEW p \in Nat, NEW q \in Nat, NEW l \in Nat, p = x - m, p + q <= l
    PROVE  /\ x + q \in m .. m + l /\ x + q \in Nat /\ (x + q) - m = p + q
           /\ p + q = l => x + q = m + l
           /\ p + q < l => x + q < m + l
OBVIOUS

LEMMA ReadMagicKeeps ==
    ASSUME ParserConstants, ParserInv, Parser!ReadMagic
    PROVE  ParserInv'
<1> USE DEF Parser!ReadMagic, Parser!Round, Parser!Part
<1> DEFINE r == Parser!ReadSize
           B == Parser!Byte
<1>1. /\ phase = "parsing" /\ Parser!ReadsInside /\ stage = "magic"
      /\ bytesRead' = bytesRead + r /\ parsedSize' = parsedSize + r
      /\ UNCHANGED <<maxPayload, sizeBytes, payloadSize, payload, data, stream, delivered>>
      /\ magicBytes' = Parser!Copied(magicBytes)
  BY DEF Parser!historyVars
<1>2. /\ Parser!Pos = parsedSize /\ Parser!LeftToRead = Len(Magic) - parsedSize
      /\ Parser!Partial = SubSeq(magicBytes, 1, parsedSize)
  BY <1>1, Stages, ParserNumbers DEF InStage, Parser!LeftToRead
<1>3. r \in Nat /\ parsedSize + r <= Len(Magic) /\ bytesRead + r \in 0..Len(data)
  <2>1. r \in Nat /\ r <= Parser!LeftToRead /\ bytesRead + r \in 0..Len(data)
    BY <1>1, RoundFacts
  <2>2. Parser!LeftToRead = Len(Magic) - parsedSize
    BY <1>2
  <2> HIDE DEF r
  <2> QED BY <2>1, <2>2, ParserNats
<1>4. /\ magicBytes' \in [1..Len(Magic) -> B]
      /\ SubSeq(magicBytes', 1, parsedSize + r) = Parser!Partial \o Piece
  <2>1. magicBytes \in [1..Len(Magic) -> B] /\ Len(Magic) \in Nat
    BY ParserNumbers
  <2>2. Parser!Pos + Parser!ReadSize <= Len(Magic)
    BY <1>2, <1>3
  <2>3. /\ Parser!Copied(magicBytes) \in [1..Len(Magic) -> B]
        /\ SubSeq(Parser!Copied(magicBytes), 1, Parser!Pos + Parser!ReadSize)
             = SubSeq(magicBytes, 1, Parser!Pos) \o Piece
    BY <1>1, <2>1, <2>2, RoundCopies
  <2> HIDE DEF r
  <2> QED BY <1>1, <1>2, <2>3, Zenon DEF r
<1>5. payloadSize = 0
  BY <1>1 DEF ParserInv, PartInv, Going
<1>6. stage' \in {"magic", "size"} /\ phase' \in {"parsing", "failed"}
  BY <1>1
<1> HIDE DEF r
<1>7. Parser!TypeOK'
  <2>1. parsedSize' \in Nat
    BY <1>1, <1>3, ParserNumbers
  <2> QED BY <1>1, <1>3, <1>4, <1>6, <2>1 DEF ParserInv, Parser!TypeOK, Parser!Phases, Parser!MagicSize
<1>8. CASE ~Parser!Complete /\ UNCHANGED <<stage, phase>>
  <2>1. PartInv'
    <3>1. (Parser!Begin)' = 0 /\ (Parser!End)' = Len(Magic)
      BY <1>1, <1>8, Stages DEF InStage
    <3> QED BY <1>1, <1>3, <1>5, <1>8, <3>1, ParserNumbers DEF PartInv
  <2>2. (Parser!Partial)' = Parser!Partial \o Piece
    BY <1>1, <1>4, <1>8, Stages DEF InStage
  <2>3. StreamInv'
    BY <1>1, <2>2, PartMoves DEF r
  <2> QED BY <1>7, <2>1, <2>3 DEF ParserInv
<1>9. CASE Parser!Complete /\ magicBytes' = Magic /\ stage' = "size" /\ UNCHANGED phase
  <2>1. parsedSize' = Len(Magic)
    BY <1>1, <1>2, <1>3, <1>9, ParserNumbers DEF Parser!Complete, r
  <2>2. PartInv'
    <3>1. (Parser!Begin)' = Len(Magic) /\ (Parser!End)' = Len(Magic) + SizeBytes
      BY <1>9, Stages DEF InStage
    <3> QED BY <1>1, <1>5, <1>9, <2>1, <3>1, ParserNumbers DEF PartInv
  <2>3. (Parser!Partial)' = Parser!Partial \o Piece
    <3>1. (Parser!Pos)' = 0
      BY <1>9, <2>1, Stages, ParserNumbers DEF InStage
    <3>2. (Parser!Partial)' = Magic \o SubSeq(sizeBytes', 1, 0)
      BY <1>9, <3>1, Stages DEF InStage
    <3>3. SubSeq(sizeBytes', 1, 0) = <<>>
      BY <1>1, ParserNumbers, Prefix
    <3>4. Magic \o <<>> = Magic
      BY ParserNumbers
    <3>5. SubSeq(Magic, 1, Len(Magic)) = Magic
      BY <1>4, <1>9, ParserNumbers, Prefix
    <3> QED BY <1>1, <1>4, <1>9, <2>1, <3>2, <3>3, <3>4, <3>5
  <2>4. StreamInv'
    BY <1>1, <2>3, PartMoves DEF r
  <2> QED BY <1>7, <2>2, <2>4 DEF ParserInv
<1>10. CASE phase' = "failed"
  BY <1>7, <1>10 DEF ParserInv, PartInv, StreamInv, Going
<1> QED BY <1>8, <1>9, <1>10

LEMMA ReadSizeFieldKeeps ==
    ASSUME ParserConstants, ParserInv, Parser!ReadSizeField
    PROVE  ParserInv'
<1> USE DEF Parser!ReadSizeField, Parser!Round, Parser!Part
<1> DEFINE r == Parser!ReadSize
           B == Parser!Byte
           p == Parser!Pos
<1>1. /\ phase = "parsing" /\ Parser!ReadsInside /\ stage = "size"
      /\ bytesRead' = bytesRead + r /\ parsedSize' = parsedSize + r
      /\ UNCHANGED <<maxPayload, magicBytes, payload, data, stream, delivered>>
      /\ sizeBytes' = Parser!Copied(sizeBytes)
      /\ payloadSize' = IF Parser!Complete THEN Parser!LittleEndian(sizeBytes') ELSE payloadSize
  BY DEF Parser!historyVars
<1>2. /\ p = parsedSize - Len(Magic) /\ Parser!LeftToRead = SizeBytes - p
      /\ Parser!Partial = Magic \o SubSeq(sizeBytes, 1, p)
  <2>1. /\ p = parsedSize - Len(Magic) /\ Parser!End = Len(Magic) + SizeBytes
        /\ Parser!Partial = Magic \o SubSeq(sizeBytes, 1, p)
    BY <1>1, Stages DEF InStage
  <2>2. Parser!LeftToRead = Parser!End - parsedSize
    BY DEF Parser!LeftToRead
  <2> HIDE DEF p
  <2>3. Parser!LeftToRead = SizeBytes - p
    BY <2>1, <2>2, ParserNats
  <2> QED BY <2>1, <2>3
<1>3. r \in Nat /\ p \in Nat /\ p + r <= SizeBytes /\ bytesRead + r \in 0..Len(data)
  <2>1. r \in Nat /\ p \in Nat /\ r <= Parser!LeftToRead /\ bytesRead + r \in 0..Len(data)
    BY <1>1, RoundFacts
  <2> HIDE DEF p, r
  <2> QED BY <1>2, <2>1, ParserNats
<1>4. /\ sizeBytes' \in [1..SizeBytes -> B]
      /\ SubSeq(sizeBytes', 1, p + r) = SubSeq(sizeBytes, 1, p) \o Piece
      /\ SubSeq(sizeBytes, 1, p) \in Seq(B)
  <2>1. SizeBytes \in Nat /\ sizeBytes \in [1..SizeBytes -> B] /\ p + r <= SizeBytes
    BY <1>3, ParserNumbers
  <2>2. /\ Parser!Copied(sizeBytes) \in [1..SizeBytes -> B]
        /\ SubSeq(Parser!Copied(sizeBytes), 1, p + r) = SubSeq(sizeBytes, 1, p) \o Piece
        /\ SubSeq(sizeBytes, 1, p) \in Seq(B)
    BY <1>1, <2>1, RoundCopies
  <2> QED BY <1>1, <2>2
<1>5. payloadSize = 0
  BY <1>1 DEF ParserInv, PartInv, Going
<1>6. stage' \in {"size", "payload"} /\ phase' \in {"parsing", "failed"}
  BY <1>1
<1>7. Parser!LittleEndian(sizeBytes') \in Nat
  BY <1>4, SizeFieldOfValue DEF ParserConstants
<1>8. Magic \o SubSeq(sizeBytes', 1, p + r) = Parser!Partial \o Piece
  <2> DEFINE s == SubSeq(sizeBytes, 1, p)
             piece == Piece
  <2>1. s \in Seq(B) /\ piece \in Seq(B) /\ Magic \in Seq(B)
    BY <1>1, <1>4, RoundFacts, ParserNumbers
  <2> HIDE DEF s, piece, B
  <2>2. Magic \o (s \o piece) = (Magic \o s) \o piece
    BY <2>1, Concat3, SMTT(30)
  <2> QED BY <1>2, <1>4, <2>2 DEF s, piece
<1> HIDE DEF r, p
<1>13. /\ parsedSize + r \in Len(Magic) .. Len(Magic) + SizeBytes
       /\ p + r = SizeBytes => parsedSize + r = Len(Magic) + SizeBytes
  <2> DEFINE m == Len(Magic)
  <2>1. m \in Nat /\ parsedSize \in Nat /\ SizeBytes \in Nat /\ p = parsedSize - m
    BY <1>2, ParserNats
  <2> HIDE DEF m
  <2> QED BY <1>3, <2>1, Offsets DEF m
<1>9. Parser!TypeOK'
  <2>1. parsedSize' \in Nat /\ payloadSize' \in Nat
    BY <1>1, <1>3, <1>7, ParserNumbers
  <2> QED BY <1>1, <1>3, <1>4, <1>6, <2>1 DEF ParserInv, Parser!TypeOK, Parser!Phases, Parser!MagicSize
<1>10. CASE ~Parser!Complete /\ UNCHANGED <<stage, phase>>
  <2>1. (Parser!Pos)' = p + r
    BY <1>1, <1>2, <1>3, <1>10, Stages, ParserNumbers, SMTT(30) DEF InStage
  <2>2. PartInv'
    <3>1. (Parser!Begin)' = Len(Magic) /\ (Parser!End)' = Len(Magic) + SizeBytes
      BY <1>1, <1>10, Stages DEF InStage
    <3>2. parsedSize + r \in Len(Magic) .. Len(Magic) + SizeBytes
      BY <1>13
    <3> QED BY <1>1, <1>5, <1>10, <3>1, <3>2 DEF PartInv
  <2>3. (Parser!Partial)' = Parser!Partial \o Piece
    BY <1>1, <1>8, <1>10, <2>1, Stages DEF InStage
  <2>4. StreamInv'
    BY <1>1, <2>3, PartMoves DEF r
  <2> QED BY <1>9, <2>2, <2>4 DEF ParserInv
<1>11. CASE Parser!Complete /\ stage' = "payload" /\ UNCHANGED phase
  <2>1. parsedSize' = Len(Magic) + SizeBytes /\ p + r = SizeBytes
    <3>1. r = SizeBytes - p
      BY <1>2, <1>11 DEF Parser!Complete, r
    <3>2. p + r = SizeBytes
      BY <1>3, <3>1, ParserNats
    <3> QED BY <1>1, <1>13, <3>2
  <2>2. (Parser!Pos)' = 0
    BY <1>11, <2>1, Stages, ParserNumbers DEF InStage
  <2>3. PartInv'
    <3>1. /\ (Parser!Begin)' = Len(Magic) + SizeBytes
          /\ (Parser!End)' = Len(Magic) + SizeBytes + payloadSize'
      BY <1>11, Stages DEF InStage
    <3>2. payloadSize' = Parser!LittleEndian(sizeBytes') /\ payloadSize' \in Nat
      BY <1>1, <1>7, <1>11
    <3>3. (Parser!Pos)' <= maxPayload'
      BY <1>1, <2>2, ParserNumbers
    <3>4. (parsedSize \in Parser!Begin .. Parser!End)' /\ (parsedSize' < (Parser!End)' \/ payloadSize' = 0)
      BY <2>1, <3>1, <3>2, ParserNats, SMTT(30)
    <3>5. (Parser!LittleEndian(sizeBytes))' = Parser!LittleEndian(sizeBytes')
      BY DEF Parser!LittleEndian
    <3> QED BY <1>1, <1>11, <3>2, <3>3, <3>4, <3>5 DEF PartInv
  <2>4. (Parser!Partial)' = Parser!Partial \o Piece
    <3>1. (Parser!Partial)' = Magic \o sizeBytes' \o SubSeq(payload', 1, 0)
      BY <1>11, <2>2, Stages DEF InStage
    <3>2. SubSeq(payload', 1, 0) = <<>>
      BY <1>1, ParserNumbers, Prefix
    <3>3. SubSeq(sizeBytes', 1, SizeBytes) = sizeBytes' /\ sizeBytes' \in Seq(B)
      <4> DEFINE b == sizeBytes'
      <4>1. b \in [1..SizeBytes -> B] /\ SizeBytes \in Nat /\ SizeBytes \in 0..SizeBytes
        BY <1>4, ParserNats
      <4> HIDE DEF b, B
      <4>2. SubSeq(b, 1, SizeBytes) = b /\ b \in Seq(B)
        BY <4>1, Prefix
      <4> QED BY <4>2 DEF b
    <3>4. Magic \o sizeBytes' \o <<>> = Magic \o sizeBytes'
      <4> DEFINE t == sizeBytes'
      <4>1. t \in Seq(B) /\ Magic \in Seq(B)
        BY <3>3, ParserNumbers
      <4> HIDE DEF t, B
      <4>2. Magic \o t \in Seq(B)
        BY <4>1, Concat3
      <4>3. (Magic \o t) \o <<>> = Magic \o t
        BY <4>2
      <4> QED BY <4>3 DEF t
    <3> QED BY <1>8, <2>1, <3>1, <3>2, <3>3, <3>4
  <2>5. StreamInv'
    BY <1>1, <2>4, PartMoves DEF r
  <2> QED BY <1>9, <2>3, <2>5 DEF ParserInv
<1>12. CASE phase' = "failed"
  BY <1>9, <1>12 DEF ParserInv, PartInv, StreamInv, Going
<1> QED BY <1>10, <1>11, <1>12

\* A round that reads of the payload: what both actions do.
LEMMA PayloadRound ==
    ASSUME ParserConstants, ParserInv, Parser!Round("payload"), payload' = Parser!Copied(payload)
    PROVE  /\ phase = "parsing" /\ Parser!ReadsInside /\ stage = "payload"
           /\ Parser!Pos = parsedSize - (Len(Magic) + SizeBytes)
           /\ Parser!LeftToRead = payloadSize - Parser!Pos
           /\ Parser!ReadSize \in Nat /\ Parser!Pos \in Nat /\ Parser!Pos + Parser!ReadSize <= maxPayload
           /\ Parser!ReadSize <= Parser!LeftToRead
           /\ bytesRead + Parser!ReadSize \in 0..Len(data)
           /\ payload' \in [1..maxPayload -> Parser!Byte]
           /\ Magic \o sizeBytes \o SubSeq(payload', 1, Parser!Pos + Parser!ReadSize) = Parser!Partial \o Piece
           /\ payloadSize = Parser!LittleEndian(sizeBytes)
<1> DEFINE r == Parser!ReadSize
           B == Parser!Byte
           p == Parser!Pos
<1>1. phase = "parsing" /\ Parser!ReadsInside /\ stage = "payload" /\ p + r <= maxPayload
  BY DEF Parser!Round, Parser!WritesInside
<1>2. /\ p = parsedSize - (Len(Magic) + SizeBytes) /\ Parser!LeftToRead = payloadSize - p
      /\ Parser!Partial = Magic \o sizeBytes \o SubSeq(payload, 1, p)
  <2>1. /\ p = parsedSize - (Len(Magic) + SizeBytes) /\ Parser!End = Len(Magic) + SizeBytes + payloadSize
        /\ Parser!Partial = Magic \o sizeBytes \o SubSeq(payload, 1, p)
    BY <1>1, Stages DEF InStage
  <2>2. Parser!LeftToRead = Parser!End - parsedSize
    BY DEF Parser!LeftToRead
  <2> HIDE DEF p
  <2>3. Parser!LeftToRead = payloadSize - p
    BY <2>1, <2>2, ParserNats
  <2> QED BY <2>1, <2>3
<1>3. r \in Nat /\ p \in Nat /\ r <= Parser!LeftToRead /\ bytesRead + r \in 0..Len(data)
  BY <1>1, RoundFacts
<1>4. /\ payload' \in [1..maxPayload -> B]
      /\ SubSeq(payload', 1, p + r) = SubSeq(payload, 1, p) \o Piece
      /\ SubSeq(payload, 1, p) \in Seq(B)
  BY <1>1, RoundCopies, ParserNumbers
<1>5. Magic \o sizeBytes \o SubSeq(payload', 1, p + r) = Parser!Partial \o Piece
  <2> DEFINE s == SubSeq(payload, 1, p)
             piece == Piece
             h == Magic \o sizeBytes
  <2>1. s \in Seq(B) /\ piece \in Seq(B) /\ Magic \in Seq(B) /\ sizeBytes \in Seq(B)
    <3>1. piece \in Seq(B)
      BY <1>1, RoundFacts
    <3>2. sizeBytes \in [1..SizeBytes -> B] /\ SizeBytes \in Nat /\ Magic \in Seq(B)
      BY ParserNumbers
    <3> HIDE DEF B, piece
    <3>3. sizeBytes \in Seq(B)
      BY <3>2
    <3> QED BY <1>4, <3>1, <3>2, <3>3
  <2>2. h \in Seq(B)
    <3> HIDE DEF B
    <3>1. Magic \o sizeBytes \in Seq(B)
      BY <2>1, Concat3
    <3> QED BY <3>1
  <2> HIDE DEF s, piece, B, h
  <2>4. s \in Seq(B) /\ piece \in Seq(B)
    BY <2>1
  <2>5. h \in Seq(B)
    BY <2>2
  <2>3. (h \o s) \o piece = h \o (s \o piece)
    BY <2>5, <2>4, Concat3
  <2> QED BY <1>2, <1>4, <2>3 DEF s, piece, h
<1>6. payloadSize = Parser!LittleEndian(sizeBytes)
  BY <1>1 DEF ParserInv, PartInv, Going
<1> QED BY <1>1, <1>2, <1>3, <1>4, <1>5, <1>6

LEMMA ReadPayloadKeeps ==
    ASSUME ParserConstants, ParserInv, Parser!ReadPayload
    PROVE  ParserInv'
<1> DEFINE r == Parser!ReadSize
           p == Parser!Pos
<1>1. /\ ~Parser!Complete /\ bytesRead' = bytesRead + r /\ parsedSize' = parsedSize + r
      /\ Parser!Round("payload") /\ payload' = Parser!Copied(payload)
      /\ UNCHANGED <<maxPayload, stage, payloadSize, magicBytes, sizeBytes, phase, data, stream, delivered>>
  BY DEF Parser!ReadPayload, Parser!Part, Parser!historyVars
<1>2. /\ phase = "parsing" /\ Parser!ReadsInside /\ stage = "payload"
      /\ p = parsedSize - (Len(Magic) + SizeBytes) /\ Parser!LeftToRead = payloadSize - p
      /\ r \in Nat /\ p \in Nat /\ p + r <= maxPayload /\ r <= Parser!LeftToRead
      /\ bytesRead + r \in 0..Len(data) /\ payload' \in [1..maxPayload -> Parser!Byte]
      /\ Magic \o sizeBytes \o SubSeq(payload', 1, p + r) = Parser!Partial \o Piece
      /\ payloadSize = Parser!LittleEndian(sizeBytes)
  BY <1>1, PayloadRound
<1>3. r /= Parser!LeftToRead
  BY <1>1 DEF Parser!Complete
<1> HIDE DEF r, p
<1>9. /\ parsedSize + r \in Len(Magic) + SizeBytes .. Len(Magic) + SizeBytes + payloadSize
      /\ parsedSize + r \in Nat /\ (parsedSize + r) - (Len(Magic) + SizeBytes) = p + r
      /\ parsedSize + r < Len(Magic) + SizeBytes + payloadSize
  <2> DEFINE m == Len(Magic) + SizeBytes
             left == Parser!LeftToRead
  <2>0. p = parsedSize - m
    BY <1>2, Zenon
  <2>1. m \in Nat /\ parsedSize \in Nat /\ payloadSize \in Nat /\ p = parsedSize - m
    BY <2>0, ParserNats
  <2>2. r \in Nat /\ p \in Nat /\ left = payloadSize - p /\ r <= left /\ r /= left
    BY <1>2, <1>3
  <2> HIDE DEF m, left
  <2>3. p + r < payloadSize
    BY <2>1, <2>2
  <2> QED BY <2>1, <2>2, <2>3, Offsets DEF m
<1>4. Parser!TypeOK'
  <2>1. parsedSize' \in Nat
    BY <1>1, <1>9
  <2> QED BY <1>1, <1>2, <2>1 DEF ParserInv, Parser!TypeOK, Parser!Phases, Parser!MagicSize
<1>5. /\ (Parser!Begin)' = Len(Magic) + SizeBytes /\ (Parser!End)' = Len(Magic) + SizeBytes + payloadSize
      /\ (Parser!Pos)' = p + r
  <2>1. /\ (Parser!Begin)' = Len(Magic) + SizeBytes /\ (Parser!End)' = Len(Magic) + SizeBytes + payloadSize
        /\ (Parser!Pos)' = parsedSize' - (Len(Magic) + SizeBytes)
    BY <1>1, <1>2, Stages DEF InStage
  <2>2. parsedSize' - (Len(Magic) + SizeBytes) = p + r
    BY <1>1, <1>9
  <2> QED BY <2>1, <2>2
<1>6. PartInv'
  <2>1. (parsedSize \in Parser!Begin .. Parser!End)' /\ parsedSize' < (Parser!End)'
    BY <1>1, <1>5, <1>9
  <2>2. (Parser!LittleEndian(sizeBytes))' = Parser!LittleEndian(sizeBytes)
    BY <1>1 DEF Parser!LittleEndian
  <2>3. (Parser!Pos)' <= maxPayload'
    BY <1>1, <1>2, <1>5
  <2> QED BY <1>1, <1>2, <2>1, <2>2, <2>3 DEF PartInv
<1>7. (Parser!Partial)' = Parser!Partial \o Piece
  BY <1>1, <1>2, <1>5, Stages DEF InStage
<1>8. StreamInv'
  BY <1>1, <1>2, <1>7, PartMoves DEF r
<1> QED BY <1>4, <1>6, <1>8 DEF ParserInv

LEMMA DeliverKeeps ==
    ASSUME ParserConstants, ParserInv, Parser!Deliver
    PROVE  ParserInv'
<1> DEFINE r == Parser!ReadSize
           p == Parser!Pos
           B == Parser!Byte
           P == SubSeq(payload', 1, payloadSize)
<1>1. /\ Parser!Complete /\ bytesRead' = bytesRead + r
      /\ Parser!Round("payload") /\ payload' = Parser!Copied(payload)
      /\ delivered' = Append(delivered, P)
      /\ UNCHANGED <<maxPayload, magicBytes, sizeBytes, data, stream>>
      /\ \/ stage' = "magic" /\ parsedSize' = 0 /\ payloadSize' = 0 /\ UNCHANGED phase
         \/ phase' = "failed" /\ parsedSize' = parsedSize + r /\ UNCHANGED <<stage, payloadSize>>
  BY DEF Parser!Deliver, Parser!ResetParts, Parser!Payload
<1>2. /\ phase = "parsing" /\ Parser!ReadsInside /\ stage = "payload"
      /\ p = parsedSize - (Len(Magic) + SizeBytes) /\ Parser!LeftToRead = payloadSize - p
      /\ r \in Nat /\ p \in Nat /\ p + r <= maxPayload
      /\ bytesRead + r \in 0..Len(data) /\ payload' \in [1..maxPayload -> B]
      /\ Magic \o sizeBytes \o SubSeq(payload', 1, p + r) = Parser!Partial \o Piece
      /\ payloadSize = Parser!LittleEndian(sizeBytes)
  BY <1>1, PayloadRound
<1>3. payloadSize = p + r
  <2>1. r = Parser!LeftToRead
    BY <1>1 DEF Parser!Complete
  <2> HIDE DEF p, r
  <2> QED BY <1>2, <2>1, ParserNats, SMTT(30)
<1>4. P \in Seq(B) /\ Len(P) = payloadSize
  <2> DEFINE b == payload'
  <2>1. b \in Seq(B) /\ Len(b) = maxPayload /\ payloadSize \in 0..maxPayload
    <3>1. b \in [1..maxPayload -> B] /\ maxPayload \in Nat
      BY <1>2, ParserNats
    <3> HIDE DEF b, B, p, r
    <3>2. b \in Seq(B) /\ Len(b) = maxPayload
      BY <3>1
    <3> QED BY <1>2, <1>3, <3>2, ParserNats
  <2> HIDE DEF b, B
  <2>2. SubSeq(b, 1, payloadSize) \in Seq(B) /\ Len(SubSeq(b, 1, payloadSize)) = payloadSize
    BY <2>1
  <2> QED BY <2>2 DEF b, B
<1> HIDE DEF r, p
<1>5. Parser!TypeOK'
  <2>1. /\ parsedSize' \in Nat /\ payloadSize' \in Nat
        /\ stage' \in {"magic", "payload"} /\ phase' \in {"parsing", "failed"}
    <3>1. parsedSize + r \in Nat /\ payloadSize \in Nat
      <4>1. r \in Nat /\ parsedSize \in Nat /\ payloadSize \in Nat
        BY <1>2, ParserNats
      <4> QED BY <4>1
    <3>2. parsedSize' \in Nat /\ payloadSize' \in Nat
      BY <1>1, <3>1
    <3>3. stage' \in {"magic", "payload"} /\ phase' \in {"parsing", "failed"}
      BY <1>1, <1>2
    <3> QED BY <3>2, <3>3
  <2>2. delivered' \in Seq(Seq(B))
    BY <1>1, <1>4, ParserNumbers
  <2> QED BY <1>1, <1>2, <2>1, <2>2 DEF ParserInv, Parser!TypeOK, Parser!Phases, Parser!MagicSize
<1>6. CASE phase' = "failed"
  BY <1>5, <1>6 DEF ParserInv, PartInv, StreamInv, Going
<1>7. CASE stage' = "magic" /\ parsedSize' = 0 /\ payloadSize' = 0 /\ UNCHANGED phase
  <2>1. (Parser!Begin)' = 0 /\ (Parser!End)' = Len(Magic) /\ (Parser!Partial)' = SubSeq(magicBytes', 1, 0)
    BY <1>7, Stages DEF InStage
  <2>2. PartInv'
    BY <1>2, <1>7, <2>1, ParserNumbers DEF PartInv
  <2>3. (Parser!Partial)' = <<>>
    BY <1>1, <2>1, ParserNumbers, Prefix
  <2>4. Parser!Datagram(P) = Parser!Partial \o Piece
    <3>1. Parser!SizeField(payloadSize) = sizeBytes
      BY <1>2, ParserNumbers, SizeFieldOfValue DEF ParserConstants
    <3> QED BY <1>2, <1>3, <1>4, <3>1 DEF Parser!Datagram
  <2>5. Datagrams' = Append(Datagrams, Parser!Datagram(P))
    <3> DEFINE D(q) == Parser!Datagram(q)
               L == Len(delivered)
    <3>1. L \in Nat /\ DOMAIN delivered = 1..L /\ DOMAIN delivered' = 1..(L + 1)
          /\ delivered'[L + 1] = P /\ \A k \in 1..L : delivered'[k] = delivered[k]
      BY <1>1, <1>4, ParserNumbers
    <3>2. Datagrams' = [k \in 1..(L + 1) |-> D(delivered'[k])]
      BY <3>1 DEF Datagrams, Parser!Datagram, Parser!SizeField
    <3>3. Datagrams = [k \in 1..L |-> D(delivered[k])]
      BY <3>1 DEF Datagrams
    <3> DEFINE x == D(P)
               y == Append(Datagrams, x)
               T == Seq(B)
    <3>4. Datagrams \in Seq(T) /\ Len(Datagrams) = L /\ x \in T
      BY <1>4, DatagramsType, DatagramType DEF ParserInv
    <3>5. \A k \in 1..L : Datagrams[k] = D(delivered[k])
      BY <3>3
    <3> HIDE DEF D, x, T, L
    <3>6. y \in Seq(T) /\ Len(y) = L + 1 /\ y[L + 1] = x /\ \A k \in 1..L : y[k] = Datagrams[k]
      BY <3>4, AppendProperties
    <3> HIDE DEF y
    <3>7. y = [k \in 1..(L + 1) |-> y[k]]
      BY <3>1, <3>6
    <3>8. ASSUME NEW k \in 1..(L + 1) PROVE y[k] = D(delivered'[k])
      <4>1. CASE k \in 1..L
        BY <3>1, <3>5, <3>6, <4>1
      <4>2. CASE k = L + 1
        BY <3>1, <3>6, <4>2 DEF x
      <4> QED BY <3>1, <4>1, <4>2
    <3>9. Datagrams' = y
      BY <3>2, <3>7, <3>8
    <3> QED BY <3>9 DEF D, x, y
  <2> DEFINE f == FlattenSeq(Datagrams)
             q == Parser!Partial
             piece == Piece
  <2>6. f \in Seq(B) /\ q \in Seq(B) /\ piece \in Seq(B)
    BY <1>2, DatagramsType, PartialType, RoundFacts DEF ParserInv, Going
  <2>7. (FlattenSeq(Datagrams))' = f \o (q \o piece)
    <3> DEFINE d == Parser!Datagram(P)
    <3>1. Datagrams \in Seq(Seq(B)) /\ d \in Seq(B)
      BY <1>4, DatagramsType, DatagramType DEF ParserInv
    <3> HIDE DEF d, B
    <3>2. FlattenSeq(Append(Datagrams, d)) = FlattenSeq(Datagrams) \o d
      BY <3>1, FlattenAppend
    <3> HIDE DEF f, q, piece
    <3>3. (FlattenSeq(Datagrams))' = FlattenSeq(Datagrams')
      BY DEF FlattenSeq
    <3> QED BY <2>4, <2>5, <3>2, <3>3 DEF d, f, q, piece
  <2>8. (FlattenSeq(Datagrams) \o Parser!Partial)' = (f \o q) \o piece
    <3>1. (FlattenSeq(Datagrams) \o Parser!Partial)' = (f \o (q \o piece)) \o <<>>
      BY <2>3, <2>7
    <3> HIDE DEF f, q, piece, B
    <3>2. f \o (q \o piece) = (f \o q) \o piece /\ q \o piece \in Seq(B)
      BY <2>6, Concat3, SMTT(30)
    <3>3. f \o (q \o piece) \in Seq(B)
      BY <2>6, <3>2, Concat3
    <3> DEFINE z == f \o (q \o piece)
    <3>4. z \in Seq(B)
      BY <3>3
    <3> HIDE DEF z
    <3>5. z \o <<>> = z
      BY <3>4
    <3> QED BY <3>1, <3>2, <3>5 DEF z
  <2>9. StreamInv'
    BY <1>1, <1>2, <2>6, <2>8, AccountMoves DEF r
  <2> QED BY <1>5, <2>2, <2>9 DEF ParserInv
<1> QED BY <1>1, <1>6, <1>7

LEMMA NoDatagram == ASSUME delivered' = <<>> PROVE FlattenSeq(Datagrams)' = <<>>
<1>1. DOMAIN delivered' = {}
  OBVIOUS
<1>2. Datagrams' = <<>>
  BY <1>1 DEF Datagrams
<1>3. FlattenSeq(Datagrams)' = FlattenSeq(Datagrams')
  BY DEF FlattenSeq
<1> QED BY <1>2, <1>3, FlattenNone

\* A session begins.
LEMMA SessionBegins ==
    ASSUME ParserConstants, (Parser!TypeOK)',
           stage' = "magic", parsedSize' = 0, payloadSize' = 0, phase' = "idle", data' = <<>>,
           bytesRead' = 0, stream' = <<>>, delivered' = <<>>
    PROVE  ParserInv'
<1>1. magicBytes' \in [1..Len(Magic) -> Parser!Byte] /\ Len(Magic) \in Nat
  BY DEF ParserConstants, Parser!TypeOK, Parser!MagicSize
<1>2. /\ (Parser!Begin)' = 0 /\ (Parser!End)' = Len(Magic)
      /\ (Parser!Partial)' = SubSeq(magicBytes', 1, 0)
  BY Stages DEF InStage
<1>3. PartInv'
  BY <1>1, <1>2 DEF PartInv
<1>4. (Parser!Partial)' = <<>>
  BY <1>1, <1>2, Prefix
<1>5. Rest' = <<>>
  BY DEF Rest
<1>6. StreamInv'
  BY <1>4, <1>5, NoDatagram DEF StreamInv
<1> QED BY <1>3, <1>6 DEF ParserInv

\* The account stays what it is.
LEMMA SameDatagrams ==
    ASSUME UNCHANGED <<stage, parsedSize, payloadSize, magicBytes, sizeBytes, payload, delivered>>
    PROVE  /\ FlattenSeq(Datagrams)' = FlattenSeq(Datagrams) /\ (Parser!Partial)' = Parser!Partial
           /\ (Parser!Begin)' = Parser!Begin /\ (Parser!End)' = Parser!End /\ (Parser!Pos)' = Parser!Pos
           /\ (Parser!LittleEndian(sizeBytes))' = Parser!LittleEndian(sizeBytes)
<1>1. FlattenSeq(Datagrams)' = FlattenSeq(Datagrams)
  BY DEF Datagrams, Parser!Datagram, Parser!SizeField
<1>2. /\ (Parser!Partial)' = Parser!Partial /\ (Parser!Begin)' = Parser!Begin
      /\ (Parser!End)' = Parser!End /\ (Parser!Pos)' = Parser!Pos
  BY DEF Parser!Partial, Parser!Begin, Parser!End, Parser!Pos, Parser!MagicSize, Parser!HeaderSize
<1>3. (Parser!LittleEndian(sizeBytes))' = Parser!LittleEndian(sizeBytes)
  BY DEF Parser!LittleEndian
<1> QED BY <1>1, <1>2, <1>3

LEMMA ParserStays ==
    ASSUME ParserInv, UNCHANGED parserVars
    PROVE  ParserInv'
<1>1. UNCHANGED <<maxPayload, stage, parsedSize, magicBytes, sizeBytes, payloadSize, payload, phase, data,
                  bytesRead, stream, delivered>>
  BY DEF parserVars
<1>2. Parser!TypeOK'
  BY <1>1 DEF ParserInv, Parser!TypeOK
<1>3. PartInv'
  BY <1>1, SameDatagrams DEF ParserInv, PartInv, Going
<1>4. StreamInv'
  BY <1>1, SameDatagrams DEF ParserInv, StreamInv, Going, Rest
<1> QED BY <1>2, <1>3, <1>4 DEF ParserInv

\* A call begins and ends.
LEMMA CallKeeps ==
    ASSUME ParserConstants, ParserInv, Parser!ParseData \/ Parser!ParseEnd
    PROVE  ParserInv'
<1>1. CASE Parser!ParseData
  <2>1. PICK piece \in BoundedSeq(Parser!Byte, MaxPiece) :
          /\ phase = "idle" /\ phase' = "parsing" /\ data' = piece /\ bytesRead' = 0
          /\ stream' = stream \o piece
          /\ UNCHANGED <<maxPayload, stage, parsedSize, payloadSize, magicBytes, sizeBytes, payload, delivered>>
    BY <1>1 DEF Parser!ParseData, Parser!partVars, Parser!bufferVars, Parser!BoundedSeq, BoundedSeq,
           Parser!SeqOf, SeqOf
  <2>2. piece \in Seq(Parser!Byte)
    BY DEF BoundedSeq, SeqOf, ParserConstants
  <2>3. data = <<>>
    BY <2>1 DEF ParserInv, PartInv, Going
  <2> DEFINE B == Parser!Byte
             f == FlattenSeq(Datagrams)
             q == Parser!Partial
  <2>4. Rest = <<>> /\ Rest' = piece
    <3>1. bytesRead = 0
      BY <2>3 DEF ParserInv, Parser!TypeOK
    <3>2. SubSeq(<<>>, 1, 0) = <<>>
      OBVIOUS
    <3>3. SubSeq(piece, 1, Len(piece)) = piece
      <4> HIDE DEF B
      <4>1. piece \in [1..Len(piece) -> Parser!Byte] /\ Len(piece) \in Nat /\ Len(piece) \in 0..Len(piece)
        BY <2>2
      <4> QED BY <4>1, Prefix
    <3> QED BY <2>1, <2>3, <3>1, <3>2, <3>3 DEF Rest
  <2>5. f \in Seq(B) /\ q \in Seq(B)
    BY <2>1, DatagramsType, PartialType DEF ParserInv, Going
  <2>6. stream = (f \o q) \o <<>>
    BY <2>1, <2>4 DEF ParserInv, StreamInv, Going
  <2>7. f' = f /\ q' = q
    BY <2>1, SameDatagrams
  <2>8. stream' = (f \o q) \o piece
    <3> HIDE DEF f, q, B
    <3>1. f \o q \in Seq(B)
      BY <2>5, Concat3
    <3> DEFINE z == f \o q
    <3>2. z \in Seq(B)
      BY <3>1
    <3> HIDE DEF z
    <3>3. z \o <<>> = z
      BY <3>2
    <3> QED BY <2>1, <2>6, <3>3 DEF z
  <2>9. StreamInv'
    BY <2>4, <2>7, <2>8 DEF StreamInv
  <2>10. Parser!TypeOK'
    <3> DEFINE s == stream'
    <3>1. stream' \in Seq(B)
      BY <2>1, <2>2, ParserNumbers
    <3>2. bytesRead' \in 0..Len(data')
      BY <2>1, <2>2
    <3> QED BY <2>1, <2>2, <3>1, <3>2 DEF ParserInv, Parser!TypeOK, Parser!Phases
  <2>11. PartInv'
    BY <2>1, SameDatagrams DEF ParserInv, PartInv, Going
  <2> QED BY <2>9, <2>10, <2>11 DEF ParserInv
<1>2. CASE Parser!ParseEnd
  <2>1. /\ phase = "parsing" /\ bytesRead = Len(data) /\ phase' = "idle" /\ data' = <<>> /\ bytesRead' = 0
        /\ UNCHANGED <<maxPayload, stage, parsedSize, payloadSize, magicBytes, sizeBytes, payload, stream, delivered>>
    BY <1>2 DEF Parser!ParseEnd, Parser!partVars, Parser!bufferVars, Parser!historyVars
  <2>2. Rest = <<>> /\ Rest' = <<>>
    BY <2>1, ParserNumbers DEF Rest
  <2>3. Parser!TypeOK'
    BY <2>1 DEF ParserInv, Parser!TypeOK, Parser!Phases
  <2>4. PartInv'
    BY <2>1, SameDatagrams DEF ParserInv, PartInv, Going
  <2>5. StreamInv'
    BY <2>1, <2>2, SameDatagrams DEF ParserInv, StreamInv, Going
  <2> QED BY <2>3, <2>4, <2>5 DEF ParserInv
<1> QED BY <1>1, <1>2

LEMMA ParserInitKeeps == ASSUME ParserConstants, Parser!Init PROVE ParserInv
<1> USE DEF Parser!Init
<1>1. Parser!TypeOK
  <2>1. 0 \in Parser!Byte
    BY DEF ParserConstants, Parser!Byte
  <2>2. Parser!Begin \in Nat
    BY DEF Parser!Begin
  <2> QED BY <2>1 DEF Parser!TypeOK, Parser!Phases, ParserConstants
<1>2. /\ Parser!Begin = 0 /\ Parser!End = Len(Magic) /\ Parser!Partial = SubSeq(magicBytes, 1, 0)
  BY Stages DEF InStage
<1>3. magicBytes \in [1..Len(Magic) -> Parser!Byte] /\ Len(Magic) \in Nat
  BY <1>1 DEF ParserConstants, Parser!TypeOK, Parser!MagicSize
<1>4. PartInv
  BY <1>2, <1>3 DEF PartInv
<1>5. Parser!Partial = <<>>
  BY <1>2, <1>3, Prefix
<1>6. FlattenSeq(Datagrams) = <<>>
  <2>1. DOMAIN delivered = {}
    OBVIOUS
  <2>2. Datagrams = <<>>
    BY <2>1 DEF Datagrams
  <2> QED BY <2>2, FlattenNone
<1>7. Rest = <<>>
  BY DEF Rest
<1>8. StreamInv
  BY <1>5, <1>6, <1>7 DEF StreamInv
<1> QED BY <1>1, <1>4, <1>8 DEF ParserInv

LEMMA ParserNextKeeps == ASSUME ParserConstants, ParserInv, Parser!Next PROVE ParserInv'
<1>1. CASE Parser!ReadOutside \/ Parser!WriteOutside
  <2>1. /\ phase' = "outside"
        /\ UNCHANGED <<maxPayload, stage, parsedSize, payloadSize, magicBytes, sizeBytes, payload, data,
                       bytesRead, stream, delivered>>
    BY <1>1 DEF Parser!ReadOutside, Parser!WriteOutside, Parser!partVars, Parser!bufferVars, Parser!historyVars
  <2>2. Parser!TypeOK'
    BY <2>1 DEF ParserInv, Parser!TypeOK, Parser!Phases
  <2> QED BY <2>1, <2>2 DEF ParserInv, PartInv, StreamInv, Going
<1>2. CASE Parser!Reset
  <2>1. /\ stage' = "magic" /\ parsedSize' = 0 /\ payloadSize' = 0 /\ phase' = "idle" /\ data' = <<>>
        /\ bytesRead' = 0 /\ stream' = <<>> /\ delivered' = <<>>
        /\ UNCHANGED <<maxPayload, magicBytes, sizeBytes, payload>>
    BY <1>2 DEF Parser!Reset, Parser!ResetParts, Parser!bufferVars
  <2>2. Parser!TypeOK'
    BY <2>1 DEF ParserInv, Parser!TypeOK, Parser!Phases
  <2> QED BY <2>1, <2>2, SessionBegins
<1> QED BY <1>1, <1>2, CallKeeps, ReadMagicKeeps, ReadSizeFieldKeeps, ReadPayloadKeeps, DeliverKeeps
        DEF Parser!Next, Parser!ParseStep

LEMMA ParserInvIsRight == ASSUME ParserConstants, ParserInv PROVE ParsesStream
<1> SUFFICES ASSUME phase = "idle"
             PROVE  /\ stream = Parser!FlattenSeq(Datagrams) \o Parser!Partial
                    /\ Len(Parser!Partial) < Parser!End \/ payloadSize = 0
  BY DEF ParsesStream, Parser!ParsesStream, Datagrams
<1>1. Parser!FlattenSeq(Datagrams) = FlattenSeq(Datagrams)
  BY DEF FlattenSeq, Parser!FlattenSeq
<1> DEFINE B == Parser!Byte
           f == FlattenSeq(Datagrams)
           q == Parser!Partial
<1>2. f \in Seq(B) /\ q \in Seq(B)
  BY DatagramsType, PartialType DEF ParserInv, Going
<1>3. Rest = <<>>
  BY DEF ParserInv, PartInv, Going, Rest, Parser!TypeOK
<1>4. stream = (f \o q) \o <<>>
  BY <1>3 DEF ParserInv, StreamInv, Going
<1>5. (f \o q) \o <<>> = f \o q
  <2> HIDE DEF f, q, B
  <2>1. f \o q \in Seq(B)
    BY <1>2, Concat3
  <2> DEFINE z == f \o q
  <2>2. z \in Seq(B)
    BY <2>1
  <2> HIDE DEF z
  <2>3. z \o <<>> = z
    BY <2>2
  <2> QED BY <2>3 DEF z
<1>6. CASE stage /= "payload"
  BY <1>1, <1>4, <1>5, <1>6 DEF ParserInv, PartInv, Going
<1>7. CASE stage = "payload"
  <2> DEFINE p == Parser!Pos
             s == SubSeq(payload, 1, p)
  <2>1. /\ p = parsedSize - (Len(Magic) + SizeBytes) /\ Parser!End = Len(Magic) + SizeBytes + payloadSize
        /\ q = Magic \o sizeBytes \o s
    BY <1>7, Stages DEF InStage
  <2>2. parsedSize \in Len(Magic) + SizeBytes .. Len(Magic) + SizeBytes + payloadSize
    BY <1>7, Stages DEF InStage, ParserInv, PartInv, Going
  <2>3. p <= maxPayload /\ (parsedSize < Parser!End \/ payloadSize = 0)
    BY <1>7 DEF ParserInv, PartInv, Going
  <2> HIDE DEF p
  <2>4. p \in 0..maxPayload /\ Len(Magic) + SizeBytes + p = parsedSize
    <3>1. p = parsedSize - (Len(Magic) + SizeBytes)
      BY <2>1, Zenon
    <3> QED BY <2>2, <2>3, <3>1, ParserNats
  <2>5. Len(q) = parsedSize
    <3>1. s \in Seq(B) /\ sizeBytes \in Seq(B) /\ Magic \in Seq(B) /\ Len(s) = p /\ Len(sizeBytes) = SizeBytes
      <4>1. /\ payload \in [1..maxPayload -> B] /\ maxPayload \in Nat /\ Magic \in Seq(B)
            /\ sizeBytes \in [1..SizeBytes -> B] /\ SizeBytes \in Nat
        BY ParserNumbers
      <4> HIDE DEF B
      <4>2. s \in Seq(B) /\ Len(s) = p
        <5>1. payload \in Seq(B) /\ Len(payload) = maxPayload
          BY <4>1
        <5> QED BY <2>4, <5>1
      <4>3. sizeBytes \in Seq(B) /\ Len(sizeBytes) = SizeBytes
        BY <4>1
      <4> QED BY <4>1, <4>2, <4>3
    <3> HIDE DEF s, B
    <3>2. Len(Magic \o sizeBytes \o s) = Len(Magic) + Len(sizeBytes) + Len(s)
      <4> DEFINE h == Magic \o sizeBytes
      <4>1. h \in Seq(B) /\ Len(h) = Len(Magic) + Len(sizeBytes)
        BY <3>1
      <4> HIDE DEF h
      <4>2. s \in Seq(B)
        BY <3>1
      <4>3. Len(h \o s) = Len(h) + Len(s)
        BY <4>1, <4>2
      <4> QED BY <4>1, <4>3 DEF h
    <3> QED BY <2>1, <2>4, <3>1, <3>2
  <2> QED BY <1>1, <1>4, <1>5, <2>3, <2>5
<1> QED BY <1>6, <1>7

\* The parser loses no byte and makes none up: between two calls the stream of the session
\* is the datagrams that were delivered and what was read of the next, wherever the pieces
\* that parseData() was given began and ended.
THEOREM ParserAccountsForStream ==
    ASSUME ParserConstants
    PROVE  NetworkSpec => []ParsesStream
<1>1. NetworkInit => ParserInv
  BY ParserInitKeeps DEF NetworkInit
<1>2. ParserInv /\ [NetworkNext]_<<serverVars, parserVars, clientVars>> => ParserInv'
  <2> SUFFICES ASSUME ParserInv, [NetworkNext]_<<serverVars, parserVars, clientVars>> PROVE ParserInv'
    OBVIOUS
  <2>1. CASE ParserMoves
    BY <2>1, ParserNextKeeps DEF ParserMoves
  <2>2. CASE UNCHANGED parserVars
    BY <2>2, ParserStays
  <2> QED BY <2>1, <2>2 DEF NetworkNext, ServerMoves, ClientMoves
<1>3. ParserInv => ParsesStream
  BY ParserInvIsRight
<1> QED BY <1>1, <1>2, <1>3, PTL DEF NetworkSpec

-----------------------------------------------------------------------------
\* The types.

\* The server, the client and the parser keep the types of their variables: no index, count
\* or buffer leaves its range, for any number of connections and messages.
THEOREM NetworkKeepsTypes ==
    ASSUME ParserConstants, ClientProofs!Sizes
    PROVE  NetworkSpec => []NetworkTypes
<1> DEFINE ServerInv == Flags /\ Running /\ Lists /\ ToldInv /\ CountInv /\ OtherTypes
           ClientInv == ClientProofs!WireInv /\ ClientProofs!ClientTypes
           netVars == <<serverVars, parserVars, clientVars>>
<1>1. NetworkInit => ServerInv /\ ClientInv /\ ParserInv
  <2> SUFFICES ASSUME NetworkInit PROVE ServerInv /\ ClientInv /\ ParserInv
    OBVIOUS
  <2>1. ServerInv
    BY InitRunning, InitLists, InitTold, InitCount, InitOther DEF NetworkInit
  <2>2. ClientProofs!Init /\ TextSize \in Nat
    BY DEF NetworkInit, Client!Init, ClientProofs!Init, ClientProofs!Sizes
  <2>3. ClientInv
    BY <2>2, ClientProofs!InitWire, ClientProofs!InitTypes
  <2>4. ParserInv
    BY ParserInitKeeps DEF NetworkInit
  <2> QED BY <2>1, <2>3, <2>4
<1>2. ServerInv /\ [NetworkNext]_netVars => ServerInv'
  <2>1. [NetworkNext]_netVars => [Next]_vars
    <3>1. UNCHANGED serverVars => UNCHANGED vars
      BY DEF serverVars
    <3> QED BY <3>1, ProgramStepsServer, Zenon DEF NetworkNext, ServerMoves, ParserMoves, ClientMoves
  <2> QED BY <2>1, NextRunning, NextLists, NextTold, NextCount, NextOther
<1>3. ClientInv /\ [NetworkNext]_netVars => ClientInv'
  BY ClientSteps, ClientProofs!WireSteps, ClientProofs!TypeSteps DEF ClientProofs!Sizes
<1>4. ParserInv /\ [NetworkNext]_netVars => ParserInv'
  <2> SUFFICES ASSUME ParserInv, [NetworkNext]_netVars PROVE ParserInv'
    OBVIOUS
  <2>1. CASE ParserMoves
    BY <2>1, ParserNextKeeps DEF ParserMoves
  <2>2. CASE UNCHANGED parserVars
    BY <2>2, ParserStays
  <2> QED BY <2>1, <2>2, Zenon DEF NetworkNext, ServerMoves, ClientMoves
<1>5. ServerInv /\ ClientInv /\ ParserInv => NetworkTypes
  <2> SUFFICES ASSUME ServerInv, ClientInv, ParserInv PROVE NetworkTypes
    OBVIOUS
  <2>1. TypeOK
    BY ServerTypes
  <2>2. ClientProofs!TypeOK
    BY ClientProofs!TypesAreRight
  <2>3. Client!TypeOK
    BY <2>2, Zenon DEF Client!TypeOK, Client!Statuses, Client!Conns,
       ClientProofs!TypeOK, ClientProofs!Statuses, ClientProofs!Conns
  <2> QED BY <2>1, <2>3 DEF ParserInv, NetworkTypes
<1> QED BY <1>1, <1>2, <1>3, <1>4, <1>5, PTL DEF NetworkSpec
=============================================================================
