------------------------------ MODULE TcpClient ------------------------------
(***************************************************************************)
(* appfw::TcpClient4 (src/network/tcp_client4.cpp) with the socket's       *)
(* wrapper (SockFd, socket.cpp) and its timer, driven by the main loop and *)
(* the commands of examples/tcp_client/main.cpp.  The network and the      *)
(* operating system answer as they like.  The build is a release build:    *)
(* the assertions that a descriptor is not 0 are not there.                *)
(*                                                                         *)
(* A message that is sent is the bytes 1 .. TextSize and a newline, 0.     *)
(***************************************************************************)
EXTENDS Integers, Sequences, FiniteSets

CONSTANTS
    Descriptors,    \* what socket() may return
    TimeOuts,       \* values of the cvar timeout
    TextSize,       \* bytes of a message
    SendBuffer,     \* bytes that the system holds until the server takes them
    ReadBuffer,     \* size of the buffer of onReadyRead()
    MaxAttempts, MaxSends, MaxData, MaxTime, MaxFaults    \* bounds

VARIABLES
    status, fd,     \* m_Status, and m_fd with 0 for none
    timeOut,        \* m_iTimeOut
    elapsed,        \* m_Timer
    pc,             \* where the main loop is
    writing, sent,  \* the spans that writeAll() is still called with, and how much of the first
    \* the system and the network
    held,           \* the descriptors that are open
    conn,           \* the connection of m_fd
    inbox, eof,     \* bytes to be read, and whether the server has closed its end
    wire, unsent,   \* bytes that were taken, and how many of them the server has not
    counts          \* how often the bounded steps were taken

client == <<status, fd, timeOut, elapsed>>
sending == <<writing, sent>>
kernel == <<held, conn, inbox, eof, wire, unsent>>
clientVars == <<client, pc, sending, kernel, counts>>

Conns == {"none", "pending", "up", "refused", "expired", "reset"}
Statuses == {"Closed", "Connecting", "Connected"}
Text == [k \in 1..TextSize |-> k]
NewLine == <<0>>
Count(what) == counts' = [counts EXCEPT ![what] = @ + 1]

\* Descriptor 0 is free in a program whose standard input is closed.
Init ==
    /\ status = "Closed" /\ fd = 0 /\ timeOut = 0 /\ elapsed = 0
    /\ pc = "tick" /\ writing = <<>> /\ sent = 0
    /\ held \in SUBSET {0}
    /\ conn = "none" /\ inbox = 0 /\ eof = FALSE /\ wire = <<>> /\ unsent = 0
    /\ counts = [attempts |-> 0, sends |-> 0, data |-> 0, faults |-> 0]
-----------------------------------------------------------------------------
\* Mutant: the number is forgotten and the descriptor stays open.
ForgetDescriptor == held

\* SockFd::close(), which takes descriptor 0 for none.
CloseDescriptor == held \ ({fd} \ {0})

\* The system forgets what it has of a connection.
Unconnected ==
    /\ inbox' = 0 /\ eof' = FALSE /\ wire' = <<>> /\ unsent' = 0

Close ==
    /\ status' = "Closed" /\ fd' = 0
    /\ held' = CloseDescriptor
    /\ conn' = "none" /\ Unconnected
    /\ UNCHANGED <<timeOut, elapsed>>

Fault == counts.faults < MaxFaults /\ Count("faults")
-----------------------------------------------------------------------------
(* One command, or none, is executed by mainLoopTick(). *)

\* None, or one with a wrong number of arguments or in the wrong status.
NoCommand ==
    /\ pc = "tick" /\ pc' = "update"
    /\ UNCHANGED <<client, sending, kernel, counts>>

\* socket() succeeds, and connect() does or reports EINPROGRESS.
ConnectBegins ==
    \E d \in Descriptors \ CloseDescriptor, t \in TimeOuts, c \in {"up", "pending"} :
        /\ fd' = d /\ held' = CloseDescriptor \cup {d}
        /\ conn' = c
        /\ status' = IF c = "up" THEN "Connected" ELSE "Connecting"
        /\ timeOut' = t /\ elapsed' = 0
        /\ Unconnected

\* The name is unknown or socket() fails, or a later call fails and the handler closes.
ConnectFails ==
    /\ status' = "Closed" /\ fd' = 0 /\ conn' = "none"
    /\ \/ held' = CloseDescriptor
       \/ \E d \in Descriptors \ CloseDescriptor :
            held' = IF d = 0 THEN CloseDescriptor \cup {0} ELSE CloseDescriptor
    /\ Unconnected
    /\ UNCHANGED <<timeOut, elapsed>>

\* "connect", of a closed client, and "retry", which closes it first.
Connect ==
    /\ pc = "tick" /\ counts.attempts < MaxAttempts
    /\ Count("attempts")
    /\ ConnectBegins \/ ConnectFails
    /\ pc' = "update"
    /\ UNCHANGED sending

Disconnect ==
    /\ pc = "tick" /\ pc' = "update"
    /\ Close
    /\ UNCHANGED <<sending, counts>>

Send ==
    /\ pc = "tick" /\ status = "Connected" /\ counts.sends < MaxSends
    /\ Count("sends")
    /\ pc' = "send" /\ writing' = <<Text, NewLine>> /\ sent' = 0
    /\ UNCHANGED <<client, kernel>>

\* Mutant: write() is given the whole span again.
RestFromStart == Head(writing)

Rest == SubSeq(Head(writing), sent + 1, Len(Head(writing)))

\* One round of writeAll(): write() takes what there is room for, which may be nothing.
WriteSome ==
    /\ pc = "send" /\ conn = "up"
    /\ \E n \in 0..Len(Rest) :
         /\ n <= SendBuffer - unsent /\ (n = 0 => unsent = SendBuffer)
         /\ wire' = wire \o SubSeq(Rest, 1, n) /\ unsent' = unsent + n
         /\ IF sent + n >= Len(Head(writing))
            THEN writing' = Tail(writing) /\ sent' = 0
            ELSE sent' = sent + n /\ UNCHANGED writing
    /\ pc' = IF writing' = <<>> THEN "update" ELSE "send"
    /\ UNCHANGED <<client, held, conn, inbox, eof, counts>>

WriteFails ==
    /\ pc = "send"
    /\ \/ conn = "reset" /\ UNCHANGED counts
       \/ Fault
    /\ Close
    /\ pc' = "update" /\ writing' = <<>> /\ sent' = 0

\* "quit": the loop makes its round, after which it ends; another round makes no difference.
Quit ==
    /\ pc = "tick" /\ pc' = "ended"
    /\ Close
    /\ UNCHANGED <<sending, counts>>
-----------------------------------------------------------------------------
(* updateStatus(10) *)

\* Mutant: only the set of exceptions is given to select().
AnsweredByError == conn \in {"refused", "expired"}

\* select() says that the socket can be written to, or has an exception.
Answered == conn /= "pending"

TimedOut == elapsed >= timeOut

UpdateClosed ==
    /\ pc = "update" /\ status = "Closed" /\ pc' = "tick"
    /\ UNCHANGED <<client, sending, kernel, counts>>

\* select() returns 0: the time-out is not looked at.
StillConnecting ==
    /\ pc = "update" /\ status = "Connecting" /\ ~Answered
    /\ pc' = "tick"
    /\ UNCHANGED <<client, sending, kernel, counts>>

Established ==
    /\ pc = "update" /\ status = "Connecting" /\ Answered /\ conn = "up"
    /\ status' = "Connected"
    /\ pc' = "tick"
    /\ UNCHANGED <<fd, timeOut, elapsed, sending, kernel, counts>>

\* Refused, unreachable or ETIMEDOUT; or select() or getsockopt() fails.
ConnectionFailed ==
    /\ pc = "update" /\ status = "Connecting"
    /\ \/ Answered /\ conn /= "up" /\ UNCHANGED counts
       \/ Fault
    /\ Close
    /\ pc' = "tick" /\ UNCHANGED sending

\* select() reports the socket, whose error is still EINPROGRESS.
ReportedTooEarly ==
    /\ pc = "update" /\ status = "Connecting" /\ conn = "pending"
    /\ Fault
    /\ IF TimedOut THEN Close ELSE UNCHANGED <<client, kernel>>
    /\ pc' = "tick" /\ UNCHANGED sending

Readable == inbox > 0 \/ eof \/ conn = "reset"

NothingNew ==
    /\ pc = "update" /\ status = "Connected" /\ ~Readable
    /\ pc' = "tick"
    /\ UNCHANGED <<client, sending, kernel, counts>>

NewData ==
    /\ pc = "update" /\ status = "Connected" /\ Readable
    /\ pc' = "read"
    /\ UNCHANGED <<client, sending, kernel, counts>>

SelectFails ==
    /\ pc = "update" /\ status = "Connected"
    /\ Fault
    /\ Close
    /\ pc' = "tick" /\ UNCHANGED sending

(* onReadyRead() *)

Read ==
    /\ pc = "read" /\ conn = "up" /\ inbox > 0
    /\ inbox' = IF inbox > ReadBuffer THEN inbox - ReadBuffer ELSE 0
    /\ pc' = "tick"
    /\ UNCHANGED <<client, sending, held, conn, eof, wire, unsent, counts>>

\* read() returns 0 at the end of the stream and when it would block; the program takes
\* both for the end.  Or it fails, and closes.
ReadNothing ==
    /\ pc = "read"
    /\ \/ (conn = "reset" \/ (inbox = 0 /\ eof)) /\ UNCHANGED counts
       \/ Fault
    /\ Close
    /\ pc' = "tick" /\ UNCHANGED sending
-----------------------------------------------------------------------------
(* The network, and time. *)

Answer ==
    /\ conn = "pending"
    /\ conn' \in {"up", "refused", "expired"}
    /\ UNCHANGED <<client, pc, sending, held, inbox, eof, wire, unsent, counts>>

DataArrives ==
    /\ conn = "up" /\ ~eof /\ counts.data < MaxData
    /\ inbox' = inbox + 1
    /\ Count("data")
    /\ UNCHANGED <<client, pc, sending, held, conn, eof, wire, unsent>>

ServerTakes ==
    /\ conn = "up" /\ unsent > 0
    /\ unsent' = unsent - 1
    /\ UNCHANGED <<client, pc, sending, held, conn, inbox, eof, wire, counts>>

ServerLeaves ==
    /\ conn = "up" /\ ~eof
    /\ \/ eof' = TRUE /\ UNCHANGED conn
       \/ conn' = "reset" /\ UNCHANGED eof
    /\ UNCHANGED <<client, pc, sending, held, inbox, wire, unsent, counts>>

TimePasses ==
    /\ status = "Connecting" /\ elapsed < MaxTime
    /\ elapsed' = elapsed + 1
    /\ UNCHANGED <<status, fd, timeOut, pc, sending, kernel, counts>>
-----------------------------------------------------------------------------
Command == NoCommand \/ Connect \/ Disconnect \/ Send \/ Quit
Update ==
    \/ UpdateClosed \/ StillConnecting \/ Established \/ ConnectionFailed \/ ReportedTooEarly
    \/ NothingNew \/ NewData \/ SelectFails
Loop == Command \/ WriteSome \/ WriteFails \/ Update \/ Read \/ ReadNothing
Network == Answer \/ DataArrives \/ ServerTakes \/ ServerLeaves \/ TimePasses

Next == Loop \/ Network

Spec == Init /\ [][Next]_clientVars

\* The main loop goes on, and where a writeAll() waits for room the server makes some.
FairSpec == Spec /\ WF_clientVars(Loop \/ ServerTakes)
-----------------------------------------------------------------------------
TypeOK ==
    /\ status \in Statuses /\ fd \in Descriptors \cup {0}
    /\ timeOut \in TimeOuts \cup {0} /\ elapsed \in 0..MaxTime
    /\ pc \in {"tick", "send", "update", "read", "ended"}
    /\ sent \in 0..TextSize /\ unsent \in 0..SendBuffer
    /\ pc = "send" <=> writing /= <<>>
    /\ held \subseteq Descriptors /\ conn \in Conns /\ inbox \in 0..MaxData /\ eof \in BOOLEAN

\* However an attempt, a transfer or the program ends, the client is closed exactly when it
\* has no descriptor, and no descriptor but 0 (which SockFd takes for none) stays open.
NoDescriptorLost ==
    /\ held \subseteq {fd, 0}
    /\ status = "Closed" <=> conn = "none"
    /\ IF status = "Closed" THEN fd = 0 ELSE fd \in held

\* writeAll() and the commands that call it put whole messages on a connection, each text
\* followed by its newline, however little each write() takes.
MessagesWhole == \A k \in DOMAIN wire : wire[k] = k % (TextSize + 1)

\* updateStatus() notices every answer to an attempt that is not given up, and the loop
\* reads what arrives, whatever commands are given and calls fail.
Unserved ==
    \/ status = "Connecting" /\ conn /= "pending"
    \/ status = "Connected" /\ Readable
ClientServed == Unserved ~> ~Unserved

\* connect() (tcp_client4.h): the time-out in ms.  Once it has passed an update does not
\* leave the client connecting.
AttemptTimesOut ==
    [][pc = "update" /\ pc' = "tick" /\ status = "Connecting" /\ TimedOut
        => status' /= "Connecting"]_clientVars
=============================================================================
