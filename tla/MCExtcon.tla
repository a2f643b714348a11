------------------------------ MODULE MCExtcon ------------------------------
(***************************************************************************)
(* Four programs with an ExtconHost: a behaviour is of one of them.        *)
(***************************************************************************)
EXTENDS MCExtconHost

VARIABLE program

\* Two clients come and go while a thread prints.
Sessions == INSTANCE ExtconHost WITH
    MaxQueueSize <- 2, ClientsStall <- FALSE, ServerFaults <- FALSE,
    MaxPayloads <- 0, MaxEnables <- 1, MaxDisables <- 0

\* Each of two clients may be the one that sends a command.
Reconnects == INSTANCE ExtconHost WITH
    MaxQueueSize <- 2, Kinds <- {"command"}, ClientsStall <- FALSE, ServerFaults <- FALSE,
    MaxPrints <- 0, MaxPayloads <- 1, MaxEnables <- 1, MaxDisables <- 0

\* One client sends several commands and rubbish between them.
Payloaded == INSTANCE ExtconHost WITH
    MaxQueueSize <- 1, ClientsStall <- FALSE, MaxPrints <- 0, MaxClients <- 1, MaxDisables <- 0

\* The host is enabled and disabled, and anything may fail.
Lifecycle == INSTANCE ExtconHost WITH
    MaxQueueSize <- 1, MaxPrints <- 0, MaxClients <- 1, MaxPayloads <- 1

ExtconInit == Init /\ program \in {"sessions", "reconnects", "commands", "lifecycle"}

ExtconNext ==
    /\ UNCHANGED program
    /\ \/ program = "sessions" /\ Sessions!Next
       \/ program = "reconnects" /\ Reconnects!Next
       \/ program = "commands" /\ Payloaded!Next
       \/ program = "lifecycle" /\ Lifecycle!Next
=============================================================================
