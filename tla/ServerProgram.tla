---------------------------- MODULE ServerProgram ----------------------------
(***************************************************************************)
(* A program that keeps an object of its own with every socket of a        *)
(* TcpServer4 (examples/tcp_server/main.cpp): made by the accepted         *)
(* callback, freed by the closed one and used by the others and by the     *)
(* commands, always through TcpClientSocket4::getUserData(), which nobody  *)
(* checks.  The other callbacks may close any sockets, as in TcpServer,    *)
(* and the program may listen again.                                       *)
(***************************************************************************)
EXTENDS TcpServer

VARIABLES
    userData,   \* the sockets whose m_pUserData is not null; what it points to is left out
    nullUsed    \* history: the sockets whose null pointer was followed

programVars == <<userData, nullUsed>>

ProgramInit == userData = {} /\ nullUsed = {}

Use(used) == nullUsed' = nullUsed \cup (used \ userData)

OnConnAccepted(c) == userData' = userData \cup {c} /\ UNCHANGED nullUsed

\* Mutant: the object is freed and the pointer to it stays.
KeepUserData(c) == Use({c}) /\ UNCHANGED userData

OnConnClosed(c) == Use({c}) /\ userData' = userData \ {c}

OnReadyRead(c) == Use({c}) /\ UNCHANGED userData

\* "clients", "send" and "kick" look at the data of the listed sockets; the last two may
\* close one, as UserCloses does.
Commands ==
    /\ pc = "idle" /\ Use(Listed)
    /\ UserCloses \/ UNCHANGED vars
    /\ UNCHANGED userData

ProgramNext ==
    \/ AcceptNext /\ OnConnAccepted(Head(backlog))
    \/ RemoveNext /\ (IF told' = told THEN UNCHANGED programVars ELSE OnConnClosed(sockets[i]))
    \/ StopNext /\ OnConnClosed(sockets[i])
    \/ ServeNext /\ (IF pollList[i + 1].revents = "in" /\ IsOpen(sockets[i])
                     THEN OnReadyRead(sockets[i]) ELSE UNCHANGED programVars)
    \/ Commands
    \/ /\ \/ Poll \/ CheckListener \/ AcceptEnd \/ ServeEnd \/ RemoveEnd \/ StopEnd
          \/ Faults \/ StartListening \/ StopListening \/ Arrive
       /\ UNCHANGED programVars

\* No callback and no command finds a null pointer, however sockets are closed by others
\* in between; and an object is freed by the time that its socket has left the server.
UserDataLive == nullUsed = {} /\ userData \subseteq Listed
=============================================================================
