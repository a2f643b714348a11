------------------------------ MODULE MCNetwork ------------------------------
(***************************************************************************)
(* Instances of ServerProgram, TcpClient and DatagramParser for TLC.  They *)
(* share a run: in a behaviour one of them moves and the others stay as    *)
(* they begin.                                                             *)
(***************************************************************************)
EXTENDS ServerProgram

CONSTANTS Base, Magic, SizeBytes, Limits, MaxStream, MaxPiece

VARIABLES maxPayload, stage, parsedSize, magicBytes, sizeBytes, payloadSize, payload, phase, data,
          bytesRead, stream, delivered

parserVars == <<maxPayload, stage, parsedSize, magicBytes, sizeBytes, payloadSize, payload, phase,
                data, bytesRead, stream, delivered>>

Parser == INSTANCE DatagramParser

ParsedMagic == <<1, 0>>

CONSTANTS Descriptors, TimeOuts, TextSize, SendBuffer, ReadBuffer, MaxAttempts, MaxSends, MaxData, MaxTime

VARIABLES status, fd, timeOut, elapsed, loop, writing, sent, held, conn, inbox, eof, wire, unsent, counts

clientVars == <<status, fd, timeOut, elapsed, loop, writing, sent, held, conn, inbox, eof, wire, unsent, counts>>

Client == INSTANCE TcpClient WITH pc <- loop

serverVars == <<vars, programVars>>

\* It does not matter which of the initial states the others are in.
One == held = {} /\ \A limit \in Limits : maxPayload <= limit

ClientAlone == Init /\ Parser!Init

ServerMoves == One /\ Parser!Init /\ Client!Init /\ ProgramNext /\ UNCHANGED <<parserVars, clientVars>>
ParserMoves == held = {} /\ Init /\ Client!Init /\ Parser!Next /\ UNCHANGED <<serverVars, clientVars>>
ClientMoves == ClientAlone /\ Client!Next /\ UNCHANGED <<serverVars, parserVars>>

NetworkInit == Init /\ ProgramInit /\ Parser!Init /\ Client!Init
NetworkNext == ServerMoves \/ ParserMoves \/ ClientMoves

\* The fairness of each; a server or parser that does not move has nothing to be fair to.
NetworkSpec ==
    /\ NetworkInit /\ [][NetworkNext]_<<serverVars, parserVars, clientVars>>
    /\ WF_vars(Poll) /\ WF_vars(PollStep)
    /\ WF_parserVars(Parser!ParseStep)
    /\ WF_clientVars(ClientAlone /\ (Client!Loop \/ Client!ServerTakes))
-----------------------------------------------------------------------------
\* The properties of the instances, under names of their own; their modules state them.

\* The variables of all three have their types.
NetworkTypes == TypeOK /\ Parser!TypeOK /\ Client!TypeOK

\* Every byte of the stream is in a delivered payload's datagram or in the beginning of
\* the next one.
ParsesStream == Parser!ParsesStream

\* parseData() comes to an end.
CallsEnd == Parser!CallsEnd

\* parseData() reads the bytes that it was given and no others.
ReadsItsPiece == Parser!ReadsItsPiece

\* The client is closed exactly when it has no descriptor, and it leaves none open.
NoDescriptorLost == Client!NoDescriptorLost

\* The messages of the client arrive whole and in order.
MessagesWhole == Client!MessagesWhole

\* The client notices the answer to its attempt and reads what arrives.
ClientServed == Client!ClientServed

\* An attempt to connect ends when its time-out has passed.
AttemptTimesOut == Client!AttemptTimesOut
=============================================================================
