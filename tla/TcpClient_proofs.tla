-------------------------- MODULE TcpClient_proofs --------------------------
(***************************************************************************)
(* Theorems of TcpClient: no descriptor is lost, the messages arrive       *)
(* whole, and the variables have their types.                              *)
(***************************************************************************)
EXTENDS TcpClient, TLAPS

\* What neither the descriptors nor the status of the client depend on.
StaysOpen == UNCHANGED <<status, fd, held, conn>>

LEMMA CloseKeeps == NoDescriptorLost /\ Close => NoDescriptorLost'
  BY DEF NoDescriptorLost, Close, CloseDescriptor

LEMMA StaysOpenKeeps == NoDescriptorLost /\ StaysOpen => NoDescriptorLost'
  BY DEF NoDescriptorLost, StaysOpen

LEMMA AttemptKeeps == NoDescriptorLost /\ Connect => NoDescriptorLost'
<1> SUFFICES ASSUME NoDescriptorLost, Connect PROVE NoDescriptorLost'
  OBVIOUS
<1>1. CloseDescriptor \subseteq {0}
  BY DEF NoDescriptorLost, CloseDescriptor
<1>2. CASE ConnectBegins
  <2>1. PICK d \in Descriptors \ CloseDescriptor, c \in {"up", "pending"} :
          /\ fd' = d /\ held' = CloseDescriptor \cup {d} /\ conn' = c
          /\ status' = IF c = "up" THEN "Connected" ELSE "Connecting"
    BY <1>2 DEF ConnectBegins
  <2> QED
    BY <1>1, <2>1 DEF NoDescriptorLost
<1>3. CASE ConnectFails
  <2>1. status' = "Closed" /\ fd' = 0 /\ conn' = "none"
    BY <1>3 DEF ConnectFails
  <2>2. held' \subseteq {0}
    BY <1>1, <1>3 DEF ConnectFails
  <2> QED
    BY <2>1, <2>2 DEF NoDescriptorLost
<1> QED
  BY <1>2, <1>3 DEF Connect

\* Everything else of the loop leaves the descriptor alone or closes it.
LEMMA LoopClosesOrStays ==
    Loop => Connect \/ Close \/ StaysOpen \/ Established
<1> SUFFICES ASSUME Loop PROVE Connect \/ Close \/ StaysOpen \/ Established
  OBVIOUS
<1>1. CASE Command
  BY <1>1 DEF Command, NoCommand, Disconnect, Send, Quit, StaysOpen, client, kernel
<1>2. CASE WriteSome \/ WriteFails
  BY <1>2 DEF WriteSome, WriteFails, StaysOpen, client
<1>3. CASE Update
  BY <1>3 DEF Update, UpdateClosed, StillConnecting, ConnectionFailed, ReportedTooEarly,
              NothingNew, NewData, SelectFails, StaysOpen, client, kernel
<1>4. CASE Read \/ ReadNothing
  BY <1>4 DEF Read, ReadNothing, StaysOpen, client
<1> QED
  BY <1>1, <1>2, <1>3, <1>4 DEF Loop

LEMMA DescriptorSteps == NoDescriptorLost /\ [Next]_clientVars => NoDescriptorLost'
<1> SUFFICES ASSUME NoDescriptorLost, [Next]_clientVars PROVE NoDescriptorLost'
  OBVIOUS
<1>1. CASE Loop
  <2>1. CASE Established
    BY <2>1 DEF Established, NoDescriptorLost, kernel
  <2> QED
    BY <1>1, <2>1, LoopClosesOrStays, AttemptKeeps, CloseKeeps, StaysOpenKeeps
<1>2. CASE Answer
  BY <1>2 DEF Answer, NoDescriptorLost, client
<1>3. CASE ServerLeaves
  BY <1>3 DEF ServerLeaves, NoDescriptorLost, client
<1>4. CASE DataArrives \/ ServerTakes \/ TimePasses
  BY <1>4, StaysOpenKeeps DEF DataArrives, ServerTakes, TimePasses, StaysOpen, client, kernel
<1>5. CASE UNCHANGED clientVars
  BY <1>5, StaysOpenKeeps DEF StaysOpen, clientVars, client, kernel
<1> QED
  BY <1>1, <1>2, <1>3, <1>4, <1>5 DEF Next, Network

\* However an attempt, a transfer or the program ends, and whichever call fails on the way,
\* SockFd has closed every descriptor that the client no longer holds, but for descriptor 0.
THEOREM DescriptorsAreClosed == Spec => []NoDescriptorLost
<1>1. Init => NoDescriptorLost
  BY DEF Init, NoDescriptorLost
<1> QED
  BY <1>1, DescriptorSteps, PTL DEF Spec
-----------------------------------------------------------------------------
(* Whole messages. *)

Period == TextSize + 1

\* The place in a message of the first byte that writeAll() has not written yet.
Offset ==
    IF writing = <<>> THEN 0 ELSE IF writing = <<Text, NewLine>> THEN sent ELSE TextSize

\* The bytes on the connection end where the spans that are still to be written begin.
WireInv ==
    /\ wire \in Seq(Nat)
    /\ pc = "send" <=> writing /= <<>>
    /\ \/ writing = <<>>
       \/ writing = <<Text, NewLine>> /\ sent \in 0..TextSize
       \/ writing = <<NewLine>> /\ sent = 0
    /\ \E q \in Nat : Len(wire) = Period * q + Offset
    /\ MessagesWhole

LEMMA Multiples == ASSUME NEW x \in Int, NEW y \in Int, NEW n \in Nat, x >= y
                   PROVE  n * x >= n * y
  BY Z3

LEMMA OneMore == ASSUME NEW x \in Int, NEW n \in Int PROVE n * (x + 1) = n * x + n
  BY Z3

\* The remainder is the only one.
LEMMA Remainder ==
    ASSUME NEW a \in Nat, NEW n \in Nat, NEW q \in Nat, NEW r \in Nat, r < n, a = n * q + r
    PROVE  a % n = r
<1> DEFINE d == a \div n
           m == a % n
<1>1. m \in Nat /\ m < n
  BY Z3
<1>2. d \in Int /\ a = n * d + m
  BY Z3
<1>3. n * q \in Int /\ n * d \in Int
  BY <1>2, Z3
<1> HIDE DEF d, m
<1>4. CASE d >= q + 1
  <2>1. n * d >= n * (q + 1)
    BY <1>2, <1>4, Multiples
  <2>2. n * (q + 1) = n * q + n
    BY OneMore
  <2> QED
    BY <1>1, <1>2, <1>3, <2>1, <2>2
<1>5. CASE q >= d + 1
  <2>1. n * q >= n * (d + 1)
    BY <1>2, <1>5, Multiples
  <2>2. n * (d + 1) = n * d + n
    BY <1>2, OneMore
  <2> QED
    BY <1>1, <1>2, <1>3, <2>1, <2>2
<1>6. CASE d = q
  BY <1>1, <1>2, <1>3, <1>6 DEF m
<1> QED
  BY <1>2, <1>4, <1>5, <1>6

\* A new connection, or none, has nothing of a message on it.
LEMMA NothingWritten ==
    ASSUME TextSize \in Nat, wire' = <<>>, writing' = <<>>, pc' /= "send"
    PROVE  WireInv'
<1>1. Len(wire') = Period * 0 + Offset'
  BY DEF Offset, Period
<1>2. wire' \in Seq(Nat) /\ MessagesWhole'
  BY DEF MessagesWhole
<1> QED
  BY <1>1, <1>2 DEF WireInv

LEMMA WireKept ==
    ASSUME WireInv, UNCHANGED <<wire, writing, sent>>, pc' = "send" <=> pc = "send"
    PROVE  WireInv'
<1>1. Offset' = Offset
  BY DEF Offset, Text, NewLine
<1>2. MessagesWhole'
  BY DEF WireInv, MessagesWhole
<1>3. Text' = Text /\ NewLine' = NewLine /\ Period' = Period
  BY DEF Text, NewLine, Period
<1> QED
  BY <1>1, <1>2, <1>3 DEF WireInv

\* The bytes that one write() takes continue the pattern.
LEMMA WriteContinues ==
    ASSUME TextSize \in Nat, WireInv, WriteSome
    PROVE  WireInv'
<1>1. PICK n \in 0..Len(Rest) :
        /\ wire' = wire \o SubSeq(Rest, 1, n)
        /\ IF sent + n >= Len(Head(writing))
           THEN writing' = Tail(writing) /\ sent' = 0
           ELSE sent' = sent + n /\ UNCHANGED writing
  BY DEF WriteSome
<1>2. /\ pc = "send"
      /\ pc' = IF writing' = <<>> THEN "update" ELSE "send"
  BY DEF WriteSome
<1>3. PICK q \in Nat : Len(wire) = Period * q + Offset
  BY DEF WireInv
<1>4. /\ Period \in Nat /\ Period > 0 /\ Period * q \in Nat /\ Period * (q + 1) \in Nat
      /\ Period * (q + 1) = Period * q + Period
  BY <1>3, Z3 DEF Period
<1>5. /\ Text \in Seq(Nat) /\ Len(Text) = TextSize /\ \A k \in 1..TextSize : Text[k] = k
      /\ NewLine \in Seq(Nat) /\ Len(NewLine) = 1 /\ NewLine[1] = 0
      /\ Text' = Text /\ NewLine' = NewLine /\ Period' = Period
  BY DEF Text, NewLine, Period
<1>6. wire \in Seq(Nat) /\ Len(wire) \in Nat /\ \A k \in 1..Len(wire) : wire[k] = k % Period
  BY SMTT(30) DEF WireInv, MessagesWhole, Period
<1> DEFINE span == Head(writing)
<1>7. ASSUME span \in Seq(Nat), sent \in 0..Len(span),
             \A j \in 1..n : span[sent + j] = (Len(wire) + j) % Period
      PROVE  wire' \in Seq(Nat) /\ MessagesWhole' /\ Len(wire') = Len(wire) + n
  <2> HIDE DEF span
  <2>1. Rest = SubSeq(span, sent + 1, Len(span))
    BY DEF Rest, span
  <2>2. Rest \in Seq(Nat) /\ Len(Rest) = Len(span) - sent
    BY <1>7, <2>1, SMTT(30)
  <2>3. \A j \in 1..Len(Rest) : Rest[j] = span[sent + j]
    BY <1>7, <2>1
  <2> DEFINE piece == SubSeq(Rest, 1, n)
  <2>4. piece \in Seq(Nat) /\ Len(piece) = n /\ \A j \in 1..n : piece[j] = Rest[j]
    BY <2>2
  <2> HIDE DEF piece
  <2>5. wire' = wire \o piece
    BY <1>1 DEF piece
  <2>6. wire' \in Seq(Nat) /\ Len(wire') = Len(wire) + n
    <3>1. piece \in Seq(Nat) /\ Len(piece) = n
      BY <2>4
    <3>2. wire \in Seq(Nat)
      BY <1>6
    <3>3. wire \o piece \in Seq(Nat) /\ Len(wire \o piece) = Len(wire) + Len(piece)
      BY <3>1, <3>2, SMTT(30)
    <3> QED
      BY <2>5, <3>1, <3>3
  <2>7. ASSUME NEW k \in 1..Len(wire') PROVE wire'[k] = k % Period
    <3>1. CASE k <= Len(wire)
      <4>1. k \in 1..Len(wire) /\ wire'[k] = wire[k]
        BY <1>6, <2>4, <2>5, <2>6, <3>1
      <4> QED
        BY <1>6, <4>1
    <3>2. CASE k > Len(wire)
      <4> DEFINE j == k - Len(wire)
      <4>1. j \in 1..n /\ k = Len(wire) + j
        BY <1>6, <2>6, <3>2
      <4>2. wire'[k] = piece[j]
        BY <1>6, <2>4, <2>5, <4>1
      <4> HIDE DEF j
      <4>3. piece[j] = span[sent + j]
        BY <2>2, <2>3, <2>4, <4>1
      <4> QED
        BY <1>7, <4>1, <4>2, <4>3
    <3> QED
      BY <1>6, <3>1, <3>2
  <2>8. DOMAIN wire' = 1..Len(wire')
    BY <2>6
  <2> QED
    BY <2>6, <2>7, <2>8 DEF MessagesWhole, Period
<1>8. CASE writing = <<Text, NewLine>> /\ sent \in 0..TextSize
  <2>1. span = Text /\ Tail(writing) = <<NewLine>> /\ Offset = sent /\ writing /= <<>>
    BY <1>8 DEF Offset
  <2>2. n \in 0..(TextSize - sent)
    BY <1>1, <1>5, <1>8, <2>1 DEF Rest
  <2>3. ASSUME NEW j \in 1..n PROVE span[sent + j] = (Len(wire) + j) % Period
    <3>1. sent + j \in 1..TextSize /\ sent + j < Period /\ Len(wire) + j = Period * q + (sent + j)
      BY <1>3, <1>4, <1>8, <2>1, <2>2, <2>3 DEF Period
    <3>2. Len(wire) + j \in Nat /\ sent + j \in Nat
      BY <1>6, <2>2, <2>3, <3>1
    <3>3. (Len(wire) + j) % Period = sent + j
      BY <1>4, <3>1, <3>2, Remainder
    <3> QED
      BY <1>5, <2>1, <3>1, <3>3
  <2>4. wire' \in Seq(Nat) /\ MessagesWhole' /\ Len(wire') = Period * q + (sent + n)
    <3>1. Len(wire') = Len(wire) + n /\ wire' \in Seq(Nat) /\ MessagesWhole'
      BY <1>5, <1>7, <1>8, <2>1, <2>3
    <3> QED
      BY <1>3, <1>4, <1>8, <2>1, <2>2, <3>1
  <2>5. CASE sent + n >= TextSize
    <3>1. writing' = <<NewLine>> /\ sent' = 0 /\ sent + n = TextSize
      BY <1>1, <1>5, <1>8, <2>1, <2>2, <2>5
    <3>2. <<NewLine>> /= <<>> /\ <<NewLine>> /= <<Text, NewLine>>
      OBVIOUS
    <3>3. Offset' = TextSize
      BY <1>5, <3>1, <3>2 DEF Offset
    <3> QED
      BY <1>2, <1>5, <2>4, <3>1, <3>2, <3>3 DEF WireInv
  <2>6. CASE ~ (sent + n >= TextSize)
    <3>1. writing' = writing /\ sent' = sent + n
      BY <1>1, <1>5, <2>1, <2>6
    <3>2. Offset' = sent + n /\ sent' \in 0..TextSize
      BY <1>5, <1>8, <2>1, <2>2, <2>6, <3>1 DEF Offset
    <3> QED
      BY <1>2, <1>5, <1>8, <2>1, <2>4, <3>1, <3>2 DEF WireInv
  <2> QED
    BY <2>5, <2>6
<1>9. CASE writing = <<NewLine>> /\ sent = 0
  <2>1. span = NewLine /\ Tail(writing) = <<>> /\ Offset = TextSize /\ writing /= <<>>
    BY <1>9 DEF Offset
  <2>2. n \in 0..1
    <3>1. Head(writing) = NewLine /\ Len(NewLine) = 1 /\ sent + 1 = 1
      BY <1>5, <1>9, <2>1
    <3>2. Rest = SubSeq(NewLine, 1, 1)
      BY <3>1 DEF Rest
    <3>3. NewLine \in Seq(Nat)
      BY <1>5
    <3>4. Len(Rest) = 1
      BY <3>1, <3>2, <3>3
    <3> QED
      BY <1>1, <3>4
  <2>3. ASSUME NEW j \in 1..n PROVE span[sent + j] = (Len(wire) + j) % Period
    <3>1. j = 1 /\ Len(wire) + j = Period * (q + 1) + 0
      BY <1>3, <1>4, <2>1, <2>2, <2>3 DEF Period
    <3>2. Len(wire) + j \in Nat /\ q + 1 \in Nat
      BY <1>6, <3>1
    <3>3. (Len(wire) + j) % Period = 0
      BY <1>4, <3>1, <3>2, Remainder
    <3> QED
      BY <1>5, <1>9, <2>1, <3>1, <3>3
  <2>4. wire' \in Seq(Nat) /\ MessagesWhole' /\ Len(wire') = Len(wire) + n
    BY <1>5, <1>7, <1>9, <2>1, <2>3
  <2>5. CASE n = 1
    <3>1. writing' = <<>> /\ sent' = 0
      <4>1. sent + n >= Len(Head(writing))
        <5>1. Head(writing) = NewLine /\ Len(NewLine) = 1 /\ sent = 0
          BY <1>5, <1>9, <2>1
        <5>2. Len(Head(writing)) = 1
          BY <5>1, Zenon
        <5>3. sent + n = 1
          BY <2>5, <5>1
        <5>4. 1 >= 1
          OBVIOUS
        <5> QED
          BY <5>2, <5>3, <5>4, Zenon
      <4> QED
        BY <1>1, <2>1, <4>1
    <3>2. pc' /= "send" /\ Offset' = 0
      BY <1>2, <3>1 DEF Offset
    <3>3. Len(wire') = Period * (q + 1) + Offset'
      BY <1>3, <1>4, <2>1, <2>4, <2>5, <3>2 DEF Period
    <3>4. q + 1 \in Nat
      OBVIOUS
    <3> QED
      BY <2>4, <3>1, <3>2, <3>3, <3>4 DEF WireInv
  <2>6. CASE n = 0
    <3>1. writing' = writing /\ sent' = sent
      BY <1>1, <1>5, <1>9, <2>1, <2>6
    <3>2. Offset' = Offset
      BY <1>5, <3>1 DEF Offset
    <3>3. Len(wire') = Period * q + Offset'
      BY <1>3, <1>6, <2>4, <2>6, <3>2
    <3> QED
      BY <1>2, <1>5, <1>9, <2>1, <2>4, <3>1, <3>3 DEF WireInv
  <2> QED
    BY <2>2, <2>5, <2>6
<1> QED
  BY <1>2, <1>8, <1>9 DEF WireInv

LEMMA WireSteps ==
    ASSUME TextSize \in Nat, WireInv, [Next]_clientVars
    PROVE  WireInv'
<1>1. pc /= "send" => writing = <<>>
  BY DEF WireInv
<1>2. ASSUME Close, pc /= "send", pc' /= "send", UNCHANGED sending PROVE WireInv'
  BY <1>1, <1>2, NothingWritten DEF Close, Unconnected, sending
<1>3. ASSUME UNCHANGED <<wire, writing, sent>>, pc' = "send" <=> pc = "send" PROVE WireInv'
  BY <1>3, WireKept
<1>4. CASE Command
  <2>1. CASE NoCommand
    BY <1>3, <2>1 DEF NoCommand, sending, kernel
  <2>2. CASE Connect
    <3>1. wire' = <<>>
      BY <2>2, Zenon DEF Connect, ConnectBegins, ConnectFails, Unconnected
    <3>2. writing' = <<>> /\ pc' /= "send"
      BY <1>1, <2>2 DEF Connect, sending
    <3> QED
      BY <3>1, <3>2, NothingWritten
  <2>3. CASE Disconnect \/ Quit
    BY <1>2, <2>3 DEF Disconnect, Quit
  <2>4. CASE Send
    <3>1. /\ writing = <<>> /\ wire' = wire
          /\ writing' = <<Text, NewLine>> /\ sent' = 0 /\ pc' = "send"
      BY <1>1, <2>4 DEF Send, kernel
    <3>2. Offset = 0 /\ Offset' = 0 /\ writing' /= <<>>
      BY <3>1 DEF Offset, Text, NewLine
    <3>3. MessagesWhole'
      BY <3>1 DEF WireInv, MessagesWhole
    <3>4. Text' = Text /\ NewLine' = NewLine /\ Period' = Period
      BY DEF Text, NewLine, Period
    <3> QED
      BY <3>1, <3>2, <3>3, <3>4 DEF WireInv
  <2> QED
    BY <1>4, <2>1, <2>2, <2>3, <2>4 DEF Command
<1>5. CASE WriteSome
  BY <1>5, WriteContinues
<1>6. CASE WriteFails
  BY <1>6, NothingWritten DEF WriteFails, Close, Unconnected
<1>7. CASE Update
  <2>1. CASE UpdateClosed \/ StillConnecting \/ Established \/ NothingNew \/ NewData
    BY <1>3, <2>1 DEF UpdateClosed, StillConnecting, Established, NothingNew, NewData, sending, kernel
  <2>2. CASE ConnectionFailed \/ SelectFails
    BY <1>2, <2>2 DEF ConnectionFailed, SelectFails
  <2>3. CASE ReportedTooEarly
    BY <1>2, <1>3, <2>3 DEF ReportedTooEarly, sending, kernel
  <2> QED
    BY <1>7, <2>1, <2>2, <2>3 DEF Update
<1>8. CASE Read \/ ReadNothing
  BY <1>2, <1>3, <1>8 DEF Read, ReadNothing, sending
<1>9. CASE Network \/ UNCHANGED clientVars
  BY <1>3, <1>9 DEF Network, Answer, DataArrives, ServerTakes, ServerLeaves, TimePasses,
                    clientVars, sending, kernel
<1> QED
  BY <1>4, <1>5, <1>6, <1>7, <1>8, <1>9 DEF Next, Loop

LEMMA InitWire == ASSUME TextSize \in Nat, Init PROVE WireInv
<1>1. wire = <<>> /\ writing = <<>> /\ pc = "tick"
  BY DEF Init
<1>2. Len(wire) = Period * 0 + Offset
  BY <1>1 DEF Offset, Period
<1>3. MessagesWhole
  BY <1>1 DEF MessagesWhole
<1> QED
  BY <1>1, <1>2, <1>3 DEF WireInv

\* For texts of any size, and however little each write() takes, writeAll() continues where
\* the last one stopped: what is on a connection is whole messages and the beginning of one.
THEOREM MessagesAreWhole == ASSUME TextSize \in Nat PROVE Spec => []MessagesWhole
<1>1. Init => WireInv
  BY InitWire
<1>2. WireInv /\ [Next]_clientVars => WireInv'
  BY WireSteps
<1>3. WireInv => MessagesWhole
  BY DEF WireInv
<1> QED
  BY <1>1, <1>2, <1>3, PTL DEF Spec
-----------------------------------------------------------------------------
(* The types. *)

\* What the types need of the constants: the sizes are numbers, and descriptor 0 is one.
Sizes ==
    /\ TextSize \in Nat /\ SendBuffer \in Nat /\ ReadBuffer \in Nat /\ MaxData \in Nat /\ MaxTime \in Nat
    /\ 0 \in Descriptors

\* The bytes that wait to be read arrived since the program began.
ClientTypes ==
    /\ status \in Statuses /\ fd \in Descriptors \cup {0}
    /\ timeOut \in TimeOuts \cup {0} /\ elapsed \in 0..MaxTime
    /\ pc \in {"tick", "send", "update", "read", "ended"}
    /\ sent \in 0..TextSize /\ unsent \in 0..SendBuffer
    /\ held \subseteq Descriptors /\ conn \in Conns /\ eof \in BOOLEAN
    /\ counts \in [{"attempts", "sends", "data", "faults"} -> Int]
    /\ counts.data <= MaxData /\ inbox \in 0..counts.data

LEMMA InitTypes == ASSUME Sizes, Init PROVE ClientTypes
<1>1. counts \in [{"attempts", "sends", "data", "faults"} -> Int] /\ counts.data = 0
  BY DEF Init
<1>2. /\ status = "Closed" /\ fd = 0 /\ timeOut = 0 /\ elapsed = 0 /\ pc = "tick" /\ held \subseteq {0}
      /\ sent = 0 /\ conn = "none" /\ inbox = 0 /\ eof = FALSE /\ unsent = 0
  BY DEF Init
<1>3. /\ 0 \in 0..MaxTime /\ 0 \in 0..TextSize /\ 0 \in 0..SendBuffer /\ 0 \in 0..counts.data
      /\ counts.data <= MaxData
  BY <1>1 DEF Sizes
<1>4. held \subseteq Descriptors
  BY <1>2 DEF Sizes
<1>5. "Closed" \in Statuses /\ "none" \in Conns
  BY DEF Statuses, Conns
<1> QED
  BY <1>1, <1>2, <1>3, <1>4, <1>5, Zenon DEF ClientTypes

\* The counts of the other steps do not matter.
LEMMA Counted ==
    ASSUME ClientTypes, NEW what \in {"attempts", "sends", "faults"}, Count(what)
    PROVE  counts' \in [{"attempts", "sends", "data", "faults"} -> Int] /\ counts'.data = counts.data
BY DEF ClientTypes, Count

\* What the client keeps when it closes, or keeps a connection.
LEMMA Closes ==
    ASSUME Sizes, ClientTypes, Close, sent' \in 0..TextSize, pc' \in {"tick", "update", "ended"},
           counts' = counts \/ (\E what \in {"attempts", "sends", "faults"} : Count(what))
    PROVE  ClientTypes'
<1>1. counts' \in [{"attempts", "sends", "data", "faults"} -> Int] /\ counts'.data = counts.data
  BY Counted DEF ClientTypes
<1>2. /\ status' = "Closed" /\ fd' = 0 /\ held' = CloseDescriptor /\ conn' = "none" /\ inbox' = 0
      /\ eof' = FALSE /\ unsent' = 0 /\ timeOut' = timeOut /\ elapsed' = elapsed
  BY DEF Close, Unconnected
<1>3. held' \subseteq Descriptors
  BY <1>2 DEF CloseDescriptor, ClientTypes
<1>4. 0 \in 0..counts.data /\ 0 \in 0..SendBuffer
  BY DEF ClientTypes, Sizes
<1>5. "Closed" \in Statuses /\ "none" \in Conns
  BY DEF Statuses, Conns
<1>6. /\ pc' \in {"tick", "send", "update", "read", "ended"}
      /\ timeOut' \in TimeOuts \cup {0} /\ elapsed' \in 0..MaxTime
  BY <1>2, Zenon DEF ClientTypes
<1> QED
  BY <1>1, <1>2, <1>3, <1>4, <1>5, <1>6, Zenon DEF ClientTypes

\* A step that changes the status, where the loop is or the counts, and no more.
LEMMA Goes ==
    ASSUME ClientTypes, sent' \in 0..TextSize, status' \in Statuses,
           pc' \in {"tick", "send", "update", "read", "ended"},
           UNCHANGED <<fd, timeOut, elapsed, held, conn, inbox, eof, unsent>>,
           counts' = counts \/ (\E what \in {"attempts", "sends", "faults"} : Count(what))
    PROVE  ClientTypes'
<1>1. counts' \in [{"attempts", "sends", "data", "faults"} -> Int] /\ counts'.data = counts.data
  BY Counted DEF ClientTypes
<1> QED
  BY <1>1 DEF ClientTypes

LEMMA TypeSteps == ASSUME Sizes, ClientTypes, WireInv, [Next]_clientVars PROVE ClientTypes'
<1> USE DEF client, sending, kernel
<1>0. /\ status \in Statuses /\ sent \in 0..TextSize /\ 0 \in 0..TextSize
      /\ pc \in {"tick", "send", "update", "read", "ended"}
  BY DEF ClientTypes, Sizes
<1>1. CASE NoCommand \/ UpdateClosed \/ StillConnecting \/ NothingNew \/ NewData
  <2>1. /\ UNCHANGED <<status, sent, counts, fd, timeOut, elapsed, held, conn, inbox, eof, unsent>>
        /\ pc' \in {"tick", "send", "update", "read", "ended"}
    BY <1>1 DEF NoCommand, UpdateClosed, StillConnecting, NothingNew, NewData
  <2> QED
    BY <1>0, <2>1, Goes
<1>2. CASE Connect
  <2>1. counts' \in [{"attempts", "sends", "data", "faults"} -> Int] /\ counts'.data = counts.data
    BY <1>2, Counted DEF Connect
  <2>2. pc' = "update" /\ inbox' = 0 /\ eof' = FALSE /\ unsent' = 0 /\ sent' = sent
    BY <1>2 DEF Connect, ConnectBegins, ConnectFails, Unconnected
  <2>3. CloseDescriptor \subseteq Descriptors
    BY DEF CloseDescriptor, ClientTypes
  <2>4. CASE ConnectBegins
    <3>1. PICK d \in Descriptors \ CloseDescriptor, t \in TimeOuts, c \in {"up", "pending"} :
            /\ fd' = d /\ held' = CloseDescriptor \cup {d} /\ conn' = c
            /\ status' = IF c = "up" THEN "Connected" ELSE "Connecting"
            /\ timeOut' = t /\ elapsed' = 0
      BY <2>4, Zenon DEF ConnectBegins
    <3>2. fd' \in Descriptors /\ held' \subseteq Descriptors /\ timeOut' \in TimeOuts
      BY <2>3, <3>1
    <3>3. status' \in Statuses /\ conn' \in Conns
      BY <3>1 DEF Statuses, Conns
    <3>4. elapsed' \in 0..MaxTime /\ 0 \in 0..SendBuffer /\ 0 \in 0..counts.data
      BY <3>1 DEF Sizes, ClientTypes
    <3>5. fd' \in Descriptors \cup {0} /\ timeOut' \in TimeOuts \cup {0}
      BY <3>2
    <3> QED
      BY <1>0, <2>1, <2>2, <3>2, <3>3, <3>4, <3>5, Zenon DEF ClientTypes
  <2>5. CASE ConnectFails
    <3>1. status' = "Closed" /\ fd' = 0 /\ conn' = "none" /\ timeOut' = timeOut /\ elapsed' = elapsed
      BY <2>5 DEF ConnectFails
    <3>2. held' \subseteq Descriptors
      BY <2>3, <2>5 DEF ConnectFails
    <3>3. 0 \in 0..SendBuffer /\ 0 \in 0..counts.data
      BY DEF Sizes, ClientTypes
    <3>4. "Closed" \in Statuses /\ "none" \in Conns
      BY DEF Statuses, Conns
    <3> QED
      BY <1>0, <2>1, <2>2, <3>1, <3>2, <3>3, <3>4, Zenon DEF ClientTypes
  <2> QED
    BY <1>2, <2>4, <2>5 DEF Connect
<1>3. CASE Disconnect \/ Quit
  <2>1. Close /\ counts' = counts /\ sent' = sent /\ pc' \in {"tick", "update", "ended"}
    BY <1>3 DEF Disconnect, Quit
  <2> QED
    BY <1>0, <2>1, Closes
<1>4. CASE Send
  <2>1. /\ UNCHANGED <<status, fd, timeOut, elapsed, held, conn, inbox, eof, unsent>>
        /\ pc' = "send" /\ sent' = 0 /\ Count("sends")
    BY <1>4 DEF Send
  <2> QED
    BY <1>0, <2>1, Goes
<1>5. CASE WriteSome
  <2> DEFINE span == Head(writing)
  <2>1. PICK n \in 0..Len(Rest) :
          /\ n <= SendBuffer - unsent /\ unsent' = unsent + n
          /\ IF sent + n >= Len(span) THEN sent' = 0 ELSE sent' = sent + n
    BY <1>5 DEF WriteSome
  <2>2. (span = Text \/ (span = NewLine /\ sent = 0)) /\ writing /= <<>>
    BY <1>5 DEF WriteSome, WireInv
  <2>3. span \in Seq(Nat) /\ (Len(span) = TextSize \/ (Len(span) = 1 /\ sent = 0))
    <3>1. Text \in Seq(Nat) /\ Len(Text) = TextSize
      BY DEF Text, Sizes
    <3>2. NewLine \in Seq(Nat) /\ Len(NewLine) = 1
      BY DEF NewLine
    <3> QED
      BY <2>2, <3>1, <3>2, Zenon
  <2>4. sent \in Nat /\ Len(span) \in Nat /\ Rest = SubSeq(span, sent + 1, Len(span))
    BY <2>3 DEF ClientTypes, Rest
  <2> HIDE DEF span
  <2>5. Len(Rest) \in Nat
    BY <2>3, <2>4
  <2>6. unsent' \in 0..SendBuffer
    BY <2>1, <2>5 DEF ClientTypes, Sizes
  <2>7. sent' \in 0..TextSize
    BY <2>1, <2>3, <2>4, <2>5, SMTT(30) DEF Sizes
  <2>8. /\ UNCHANGED <<status, fd, timeOut, elapsed, held, conn, inbox, eof, counts>>
        /\ pc' \in {"update", "send"}
    BY <1>5 DEF WriteSome
  <2> QED
    BY <2>6, <2>7, <2>8 DEF ClientTypes
<1>6. CASE WriteFails \/ ConnectionFailed \/ SelectFails \/ ReadNothing
  <2>1. /\ Close /\ pc' \in {"tick", "update"} /\ (counts' = counts \/ Count("faults"))
        /\ sent' = sent \/ sent' = 0
    BY <1>6 DEF WriteFails, ConnectionFailed, SelectFails, ReadNothing, Fault
  <2> QED
    BY <1>0, <2>1, Closes
<1>7. CASE Established
  <2>1. /\ UNCHANGED <<counts, fd, timeOut, elapsed, held, conn, inbox, eof, unsent>>
        /\ sent' = sent /\ pc' = "tick" /\ status' \in Statuses
    BY <1>7 DEF Established, Statuses
  <2> QED
    BY <1>0, <2>1, Goes
<1>8. CASE ReportedTooEarly
  <2>1. Count("faults") /\ pc' = "tick" /\ sent' = sent
    BY <1>8 DEF ReportedTooEarly, Fault
  <2>2. Close \/ UNCHANGED <<client, kernel>>
    BY <1>8, Zenon DEF ReportedTooEarly
  <2>3. CASE Close
    BY <1>0, <2>1, <2>3, Closes
  <2>4. CASE UNCHANGED <<client, kernel>>
    BY <1>0, <2>1, <2>4, Goes
  <2> QED
    BY <2>2, <2>3, <2>4
<1>9. CASE Read
  <2>1. /\ UNCHANGED <<status, fd, timeOut, elapsed, sent, held, conn, eof, unsent, counts>>
        /\ pc' = "tick" /\ inbox' = IF inbox > ReadBuffer THEN inbox - ReadBuffer ELSE 0
    BY <1>9 DEF Read
  <2>2. inbox' \in 0..counts.data
    BY <2>1 DEF ClientTypes, Sizes
  <2> QED
    BY <2>1, <2>2 DEF ClientTypes
<1>10. CASE Answer \/ ServerLeaves
  <2>1. /\ UNCHANGED <<status, fd, timeOut, elapsed, pc, sent, held, inbox, unsent, counts>>
        /\ conn' \in Conns /\ eof' \in BOOLEAN
    BY <1>10 DEF Answer, ServerLeaves, Conns, ClientTypes
  <2> QED
    BY <2>1 DEF ClientTypes
<1>11. CASE DataArrives
  <2>1. /\ UNCHANGED <<status, fd, timeOut, elapsed, pc, sent, held, conn, eof, unsent>>
        /\ inbox' = inbox + 1 /\ counts.data < MaxData
        /\ counts' = [counts EXCEPT !["data"] = @ + 1]
    BY <1>11 DEF DataArrives, Count
  <2>2. counts' \in [{"attempts", "sends", "data", "faults"} -> Int] /\ counts'.data = counts.data + 1
    BY <2>1 DEF ClientTypes
  <2> QED
    BY <2>1, <2>2 DEF ClientTypes, Sizes
<1>12. CASE ServerTakes
  <2>1. /\ UNCHANGED <<status, fd, timeOut, elapsed, pc, sent, held, conn, inbox, eof, counts>>
        /\ unsent > 0 /\ unsent' = unsent - 1
    BY <1>12 DEF ServerTakes
  <2> QED
    BY <2>1 DEF ClientTypes, Sizes
<1>13. CASE TimePasses
  <2>1. /\ UNCHANGED <<status, fd, timeOut, pc, sent, held, conn, inbox, eof, unsent, counts>>
        /\ elapsed < MaxTime /\ elapsed' = elapsed + 1
    BY <1>13 DEF TimePasses
  <2> QED
    BY <2>1 DEF ClientTypes, Sizes
<1>14. CASE UNCHANGED clientVars
  BY <1>14 DEF clientVars, ClientTypes
<1> QED
  BY <1>1, <1>2, <1>3, <1>4, <1>5, <1>6, <1>7, <1>8, <1>9, <1>10, <1>11, <1>12, <1>13, <1>14, Zenon
     DEF Next, Loop, Command, Update, Network

LEMMA TypesAreRight == ASSUME Sizes, ClientTypes, WireInv PROVE TypeOK
<1>1. inbox \in 0..MaxData
  BY DEF ClientTypes, Sizes
<1> QED
  BY <1>1, Zenon DEF ClientTypes, WireInv, TypeOK

\* The variables of the client have their types: the spans that writeAll() has are there
\* exactly while it runs, and no more is in the buffers than they hold.
THEOREM TypesHold == ASSUME Sizes PROVE Spec => []TypeOK
<1>1. Init => WireInv /\ ClientTypes
  BY InitWire, InitTypes DEF Sizes
<1>2. WireInv /\ ClientTypes /\ [Next]_clientVars => WireInv' /\ ClientTypes'
  BY WireSteps, TypeSteps DEF Sizes
<1>3. WireInv /\ ClientTypes => TypeOK
  BY TypesAreRight
<1> QED
  BY <1>1, <1>2, <1>3, PTL DEF Spec
=============================================================================
