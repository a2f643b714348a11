------------------------------ MODULE TcpServer ------------------------------
(***************************************************************************)
(* appfw::TcpServer4 (src/network/tcp_server4.cpp): a listening socket,    *)
(* the sockets accepted from it and, in a parallel list, the entries that  *)
(* poll() is given.  One thread runs it; what makes it hard is that the    *)
(* callbacks close sockets while poll() walks the lists, and that every    *)
(* call of the system may fail half-way.                                   *)
(*                                                                         *)
(* A connection is its number in the order of arrival, and stands for its  *)
(* descriptor and for its TcpClientSocket4.  A callback closes any of the  *)
(* sockets, but does not call poll() or stopListening() itself.            *)
(***************************************************************************)
EXTENDS Integers, Sequences, FiniteSets, SequencesExt

CONSTANTS
    MaxConns,   \* bound: connections made to the server
    MaxStarts,  \* bound: startListening() calls
    MaxFaults   \* bound: calls of the system that fail

ASSUME BoundsAssumption == MaxConns \in Nat /\ MaxStarts \in Nat /\ MaxFaults \in Nat

Conns == 1 .. MaxConns
Server == 0     \* the listening socket's entry in the poll list
Events == {"none", "in", "hup"}    \* POLLERR and POLLNVAL are as POLLHUP

VARIABLES
    listening,  \* m_fd is set
    hasData,    \* m_Data exists
    pollList,   \* m_PollList: records of a descriptor and its revents
    sockets,    \* m_Sockets
    fdOpen,     \* TcpClientSocket4::m_fd is set
    isClosing,  \* TcpClientSocket4::m_bIsClosing
    pc, i, num, \* where the server is, its loop index and the events left to serve
    backlog,    \* connections not yet accepted
    \* history and bounds
    arrived, starts, faults,
    reported,   \* the event that poll() last reported of each connection ...
    served,     \* ... and the connections that the loop over the events has served
    accepted,   \* connections told to the accepted callback
    told        \* how often the closed callback was called with a connection

listVars == <<listening, hasData, pollList, sockets>>
socketVars == <<fdOpen, isClosing>>
loopVars == <<pc, i, num>>
countVars == <<arrived, starts, faults>>
toldVars == <<accepted, told>>
historyVars == <<reported, served>>
vars == <<listVars, socketVars, loopVars, backlog, countVars, toldVars, historyVars>>

Labels == {"idle", "events", "accept", "read", "remove", "stop", "crashed"}

TypeOK ==
    /\ listening \in BOOLEAN /\ hasData \in BOOLEAN
    /\ pollList \in Seq([fd : Conns \cup {Server}, revents : Events])
    /\ sockets \in Seq(Conns)
    /\ fdOpen \in [Conns -> BOOLEAN] /\ isClosing \in [Conns -> BOOLEAN]
    /\ pc \in Labels /\ i \in 0 .. MaxConns + 1 /\ num \in 0 .. MaxConns + 1
    /\ backlog \in Seq(Conns)
    /\ arrived \in 0 .. MaxConns /\ starts \in 0 .. MaxStarts /\ faults \in 0 .. MaxFaults
    /\ reported \in [Conns -> Events] /\ served \subseteq Conns
    /\ accepted \subseteq Conns /\ told \in [Conns -> 0 .. 1]

Init ==
    /\ listening = FALSE /\ hasData = FALSE /\ pollList = <<>> /\ sockets = <<>>
    /\ fdOpen = [c \in Conns |-> FALSE] /\ isClosing = [c \in Conns |-> FALSE]
    /\ pc = "idle" /\ i = 0 /\ num = 0
    /\ backlog = <<>>
    /\ arrived = 0 /\ starts = 0 /\ faults = 0
    /\ reported = [c \in Conns |-> "none"] /\ served = {}
    /\ accepted = {} /\ told = [c \in Conns |-> 0]

-----------------------------------------------------------------------------
Listed == Range(sockets)
IsOpen(c) == fdOpen[c] /\ ~isClosing[c]

\* close(): the socket is marked.  The reason, which the closed callback is given, is
\* left out.
CloseAll(closing) == isClosing' = [c \in Conns |-> c \in closing \/ isClosing[c]]

\* A callback may close any of the sockets in `within', by close() or by a read() or
\* write() that fails.
CallbackCloses(within) == \E closing \in SUBSET within : CloseAll(closing)

Fault == faults < MaxFaults /\ faults' = faults + 1

\* stopListening() from inside the server: its loop starts at the first socket.
Stop == pc' = "stop" /\ i' = 1 /\ num' = 0

Idle == pc' = "idle" /\ i' = 0 /\ num' = 0

-----------------------------------------------------------------------------
\* startListening()

StartListening ==
    /\ pc = "idle" /\ ~listening
    /\ starts < MaxStarts
    /\ starts' = starts + 1
    /\ listening' = TRUE /\ hasData' = TRUE
    /\ pollList' = <<[fd |-> Server, revents |-> "none"]>>
    /\ sockets' = <<>>
    /\ UNCHANGED <<socketVars, loopVars, backlog, arrived, faults, toldVars, historyVars>>

\* socket() fails: nothing has happened yet.  A later call fails: stopListening() is
\* called with m_fd set and without m_Data, which it dereferences.
StartFails ==
    /\ pc = "idle" /\ ~listening
    /\ starts < MaxStarts
    /\ starts' = starts + 1
    /\ Fault
    /\ \/ UNCHANGED <<listening, pc>>
       \/ listening' = TRUE /\ pc' = "crashed"
    /\ UNCHANGED <<hasData, pollList, sockets, socketVars, i, num, backlog, arrived, toldVars,
                   historyVars>>

\* stopListening(), called by the program or by poll(): each socket is closed and told
\* of, and the lists go at once.
StopListening ==
    /\ pc = "idle" /\ listening
    /\ Stop
    /\ UNCHANGED <<listVars, socketVars, backlog, countVars, toldVars, historyVars>>

StopNext ==
    /\ pc = "stop" /\ i <= Len(sockets)
    /\ LET c == sockets[i] IN
         /\ fdOpen' = [fdOpen EXCEPT ![c] = FALSE]
         /\ told' = [told EXCEPT ![c] = @ + 1]
         /\ \E closing \in SUBSET Listed : CloseAll(closing \cup {c})
    /\ i' = i + 1
    /\ UNCHANGED <<listVars, pc, num, backlog, countVars, accepted, historyVars>>

StopEnd ==
    /\ pc = "stop" /\ i > Len(sockets)
    /\ listening' = FALSE /\ hasData' = FALSE /\ pollList' = <<>> /\ sockets' = <<>>
    /\ backlog' = <<>>
    /\ Idle
    /\ UNCHANGED <<socketVars, countVars, toldVars, historyVars>>

-----------------------------------------------------------------------------
\* poll()

\* Mutant of StartRemoval: the loop starts below the last socket.
StartRemovalBelow == pc' = "remove" /\ i' = IF sockets = <<>> THEN 0 ELSE Len(sockets) - 1

\* The loop that removes closed sockets runs after every poll, a timed-out one included.
StartRemoval == pc' = "remove" /\ i' = Len(sockets)

\* The system's poll(): the listening socket has an event when connections wait, a
\* client's socket may have any.  It may also time out or fail.
Poll ==
    /\ pc = "idle" /\ listening
    /\ \E ev \in [Listed -> Events] :
         /\ pollList' = [k \in DOMAIN pollList |->
              IF pollList[k].fd = Server
              THEN [fd |-> Server, revents |-> IF backlog = <<>> THEN "none" ELSE "in"]
              ELSE [fd |-> pollList[k].fd, revents |-> ev[pollList[k].fd]]]
         /\ reported' = [c \in Conns |-> IF c \in Listed THEN ev[c] ELSE "none"]
    /\ num' = Cardinality({k \in DOMAIN pollList : pollList'[k].revents /= "none"})
    /\ served' = {}
    /\ IF num' > 0 THEN pc' = "events" /\ i' = 0 ELSE StartRemoval
    /\ UNCHANGED <<listening, hasData, sockets, socketVars, backlog, countVars, toldVars>>

\* poll() itself fails, or reports an error of the listening socket.
PollFails ==
    /\ pc = "idle" /\ listening
    /\ Fault
    /\ Stop
    /\ UNCHANGED <<listVars, socketVars, backlog, arrived, starts, toldVars, historyVars>>

ServeListener ==
    IF pollList[1].revents = "in" THEN pc' = "accept" /\ num' = num - 1
                                  ELSE pc' = "read" /\ num' = num

CheckListener ==
    /\ pc = "events"
    /\ ServeListener
    /\ i' = 1
    /\ UNCHANGED <<listVars, socketVars, backlog, countVars, toldVars, historyVars>>

\* acceptConnections(): until accept() would block.
AcceptNext ==
    /\ pc = "accept" /\ backlog /= <<>>
    /\ LET c == Head(backlog) IN
         /\ sockets' = Append(sockets, c)
         /\ pollList' = Append(pollList, [fd |-> c, revents |-> "none"])
         /\ fdOpen' = [fdOpen EXCEPT ![c] = TRUE]
         /\ accepted' = accepted \cup {c}
         /\ CallbackCloses(Listed \cup {c})
    /\ backlog' = Tail(backlog)
    /\ UNCHANGED <<listening, hasData, loopVars, countVars, told, historyVars>>

AcceptEnd ==
    /\ pc = "accept" /\ backlog = <<>>
    /\ pc' = "read"
    /\ UNCHANGED <<listVars, socketVars, i, num, backlog, countVars, toldVars, historyVars>>

\* A connection that went away ends the loop, however many others wait; any other
\* error leaves poll() by an exception.
AcceptFails ==
    /\ pc = "accept" /\ backlog /= <<>>
    /\ Fault
    /\ \/ backlog' = Tail(backlog) /\ pc' = "read" /\ UNCHANGED <<i, num>>
       \/ Idle /\ UNCHANGED backlog
    /\ UNCHANGED <<listVars, socketVars, arrived, starts, toldVars, historyVars>>

\* onReadyRead(), for a socket that is still open.
Announce(c) ==
    IF IsOpen(c) THEN CallbackCloses(Listed) ELSE UNCHANGED isClosing

\* Mutant of CountServed: every entry that the loop visits counts.
CountVisited(revents) == num' = num - 1

CountServed(revents) == num' = IF revents = "none" THEN num ELSE num - 1

ServeNext ==
    /\ pc = "read" /\ num > 0 /\ i < Len(pollList)
    /\ LET c == sockets[i]
           revents == pollList[i + 1].revents IN
         /\ \/ revents = "hup" /\ CloseAll({c})
            \/ revents = "in" /\ Announce(c)
            \/ revents = "none" /\ UNCHANGED isClosing
         /\ CountServed(revents)
         /\ served' = IF revents = "none" THEN served ELSE served \cup {c}
    /\ i' = i + 1
    /\ UNCHANGED <<listVars, fdOpen, pc, backlog, countVars, accepted, told, reported>>

ServeEnd ==
    /\ pc = "read" /\ (num = 0 \/ i = Len(pollList))
    /\ StartRemoval /\ num' = 0
    /\ UNCHANGED <<listVars, socketVars, backlog, countVars, toldVars, historyVars>>

\* Mutant of Erase: the entry before the socket's own leaves the poll list.
EraseEarlier(k) == sockets' = RemoveAt(sockets, k) /\ pollList' = RemoveAt(pollList, k)

Erase(k) == sockets' = RemoveAt(sockets, k) /\ pollList' = RemoveAt(pollList, k + 1)

\* Mutants of RemoveClosed: the socket stays in the lists; nobody is told.
RemoveNothing(c) ==
    /\ fdOpen' = [fdOpen EXCEPT ![c] = FALSE]
    /\ told' = [told EXCEPT ![c] = @ + 1]
    /\ CallbackCloses(Listed)
    /\ UNCHANGED <<sockets, pollList>>
RemoveSilently(c) ==
    /\ fdOpen' = [fdOpen EXCEPT ![c] = FALSE]
    /\ Erase(i)
    /\ UNCHANGED <<isClosing, told>>

RemoveClosed(c) ==
    /\ fdOpen' = [fdOpen EXCEPT ![c] = FALSE]
    /\ told' = [told EXCEPT ![c] = @ + 1]
    /\ CallbackCloses(Listed)
    /\ Erase(i)

\* The loop that removes closed sockets, from the last one down.
RemoveNext ==
    /\ pc = "remove" /\ i > 0
    /\ \/ ~IsOpen(sockets[i]) /\ RemoveClosed(sockets[i])
       \/ IsOpen(sockets[i]) /\ UNCHANGED <<sockets, pollList, socketVars, told>>
    /\ i' = i - 1
    /\ UNCHANGED <<listening, hasData, pc, num, backlog, countVars, accepted, historyVars>>

RemoveEnd ==
    /\ pc = "remove" /\ i = 0
    /\ Idle
    /\ UNCHANGED <<listVars, socketVars, backlog, countVars, toldVars, historyVars>>

-----------------------------------------------------------------------------
\* The program between two polls, and the network.

\* TcpClientSocket4::close(), of a socket that the program still holds.
UserCloses ==
    /\ pc = "idle"
    /\ \E c \in Listed : ~isClosing[c] /\ CloseAll({c})
    /\ UNCHANGED <<listVars, fdOpen, loopVars, backlog, countVars, toldVars, historyVars>>

\* sendToAll(): the first socket that fails is closed, and those after it get nothing.
SendToAllFails ==
    /\ pc = "idle"
    /\ Fault
    /\ \E c \in Listed : CloseAll({c})
    /\ UNCHANGED <<listVars, fdOpen, loopVars, backlog, arrived, starts, toldVars, historyVars>>

Arrive ==
    /\ listening /\ arrived < MaxConns
    /\ arrived' = arrived + 1
    /\ backlog' = Append(backlog, arrived + 1)
    /\ UNCHANGED <<listVars, socketVars, loopVars, starts, faults, toldVars, historyVars>>

-----------------------------------------------------------------------------
PollStep ==
    \/ CheckListener \/ AcceptNext \/ AcceptEnd \/ ServeNext \/ ServeEnd \/ RemoveNext \/ RemoveEnd
    \/ StopNext \/ StopEnd
Faults == StartFails \/ PollFails \/ AcceptFails \/ SendToAllFails
Program == StartListening \/ StopListening \/ UserCloses

Next == Poll \/ PollStep \/ Faults \/ Program \/ Arrive

Spec == Init /\ [][Next]_vars

\* The program keeps calling poll(), with a timeout, and poll() runs to its end.
FairSpec == Spec /\ WF_vars(Poll) /\ WF_vars(PollStep)
-----------------------------------------------------------------------------
\* Properties

\* The two lists describe the same sockets in the same order, whenever the server, or a
\* callback that it calls, uses an index of one for the other, and no socket is listed
\* twice.
ListsAgree ==
    hasData =>
        /\ Len(pollList) = Len(sockets) + 1
        /\ pollList[1].fd = Server
        /\ \A k \in DOMAIN sockets : pollList[k + 1].fd = sockets[k]
        /\ \A j, k \in DOMAIN sockets : sockets[j] = sockets[k] => j = k

\* Each accepted connection is in the list or the program was told that it was closed,
\* which it is told when the descriptor is closed (and, TypeOK says, only once).
ClosedOnce ==
    \A c \in accepted :
        /\ c \notin Listed => told[c] = 1
        /\ told[c] = 1 <=> ~fdOpen[c]

\* When poll() starts to remove sockets it has served every event that was reported,
\* although connections were accepted and sockets closed in between: the count of the
\* events does not run out early.
EventsServed ==
    pc = "remove" => {c \in Conns : reported[c] /= "none"} \subseteq served

\* setConnClosedCallback() (tcp_server4.h): the callback is called from poll() for any
\* socket that is closed, manually too: a time comes when no closed one is untold.
\* MaxFaults bounds the failures: while accept() fails for ever, poll() never reaches the
\* loop that removes sockets.
Untold == {c \in Conns : isClosing[c] /\ told[c] = 0}
ClosingEnds == Untold /= {} ~> Untold = {}

\* startListening() (tcp_server4.h): "Throws if already open or fails to open."
StartThrows == pc /= "crashed"
=============================================================================
