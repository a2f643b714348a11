--------------------------- MODULE DatagramParser ---------------------------
(***************************************************************************)
(* appfw::DatagramParser (src/network/datagram_parser.cpp): a stream of    *)
(* bytes comes in pieces, and datagrams (a magic, the size of the payload  *)
(* in little-endian order, the payload) are cut out of it.  What makes it  *)
(* hard is that a piece may end anywhere: in the middle of each part of a  *)
(* datagram, or after several datagrams.                                   *)
(*                                                                         *)
(* The lengths of the three parts are parameters, as the alphabet of bytes *)
(* is.  A read or a write outside a buffer is undefined: the model goes to *)
(* a phase of its own and says nothing of what follows.                    *)
(***************************************************************************)
EXTENDS Integers, Sequences, SequencesExt

CONSTANTS
    Base,       \* a byte is a number below Base (256)
    Magic,      \* m_Magic
    SizeBytes,  \* sizeof(uint32_t)
    Limits,     \* the limits that a program may give to setMaxPayloadSize()
    MaxStream,  \* bound: bytes of a session
    MaxPiece    \* bound: bytes given to one call

Byte == 0 .. Base - 1

VARIABLES
    maxPayload,     \* m_uMaxPayloadSize, and the length of m_ParsedPayload
    stage,          \* m_Stage
    parsedSize,     \* m_uParsedPacketSize
    magicBytes,     \* m_ParsedMagic
    sizeBytes,      \* m_ParsedPayloadSizeBytes
    payloadSize,    \* m_uParsedPayloadSize
    payload,        \* m_ParsedPayload
    phase, data, bytesRead,     \* the call of parseData(), its data and its counter
    \* history of the session
    stream,     \* the bytes given to parseData()
    delivered   \* the payloads given to the callback

partVars == <<stage, parsedSize, payloadSize>>
bufferVars == <<magicBytes, sizeBytes, payload>>
callVars == <<phase, data, bytesRead>>
historyVars == <<stream, delivered>>
vars == <<maxPayload, partVars, bufferVars, callVars, historyVars>>

MagicSize == Len(Magic)
HeaderSize == MagicSize + SizeBytes     \* getHeaderSize()

Phases == {"idle", "parsing", "failed", "outside"}

TypeOK ==
    /\ maxPayload \in Limits
    /\ stage \in {"magic", "size", "payload"}
    /\ parsedSize \in Nat /\ payloadSize \in Nat
    /\ magicBytes \in [1 .. MagicSize -> Byte] /\ sizeBytes \in [1 .. SizeBytes -> Byte]
    /\ payload \in [1 .. maxPayload -> Byte]
    /\ phase \in Phases /\ data \in Seq(Byte) /\ bytesRead \in 0 .. Len(data)
    /\ stream \in Seq(Byte) /\ delivered \in Seq(Seq(Byte))

\* A parser that was set up and reset, as ExtconHost's is before a client is read from.
Init ==
    /\ maxPayload \in Limits
    /\ stage = "magic" /\ parsedSize = 0 /\ payloadSize = 0
    /\ magicBytes = [k \in 1 .. MagicSize |-> 0] /\ sizeBytes = [k \in 1 .. SizeBytes |-> 0]
    /\ payload = [k \in 1 .. maxPayload |-> 0]
    /\ phase = "idle" /\ data = <<>> /\ bytesRead = 0
    /\ stream = <<>> /\ delivered = <<>>

-----------------------------------------------------------------------------
\* The value of all bytes, from that of the last n.
LittleEndian(bytes) ==
    LET value[n \in 0 .. SizeBytes] ==
            IF n = 0 THEN 0 ELSE bytes[SizeBytes - n + 1] + Base * value[n - 1]
    IN  value[SizeBytes]

\* Where the current part of the datagram begins and ends.
Begin == CASE stage = "magic" -> 0 [] stage = "size" -> MagicSize [] stage = "payload" -> HeaderSize
End ==
    CASE stage = "magic" -> MagicSize
      [] stage = "size" -> HeaderSize
      [] stage = "payload" -> HeaderSize + payloadSize

Pos == parsedSize - Begin
LeftToRead == End - parsedSize

\* Mutant of ReadSize: the last byte of a piece is left for another round.
ReadShort == IF LeftToRead < Len(data) THEN LeftToRead ELSE Len(data) - 1

\* The piece is as long as it was when the call began, whatever was read of it since.
ReadSize == IF LeftToRead < Len(data) THEN LeftToRead ELSE Len(data)

ReadsInside == bytesRead + ReadSize <= Len(data)
WritesInside == stage = "payload" => Pos + ReadSize <= maxPayload

\* The buffer after the bytes are copied to it.
Copied(buffer) ==
    [k \in DOMAIN buffer |->
        IF k \in Pos + 1 .. Pos + ReadSize THEN data[bytesRead + k - Pos] ELSE buffer[k]]

\* Mutant of ResetParts: the size of the datagram is kept.
ResetStage == stage' = "magic" /\ payloadSize' = 0 /\ UNCHANGED parsedSize

ResetParts == stage' = "magic" /\ parsedSize' = 0 /\ payloadSize' = 0

-----------------------------------------------------------------------------
\* parseData()

ParseData ==
    /\ phase = "idle"
    /\ \E piece \in BoundedSeq(Byte, MaxPiece) :
         /\ Len(stream) + Len(piece) <= MaxStream
         /\ data' = piece /\ bytesRead' = 0 /\ phase' = "parsing"
         /\ stream' = stream \o piece
    /\ UNCHANGED <<maxPayload, partVars, bufferVars, delivered>>

\* A round of the loop that stays inside the buffers.
Round(s) ==
    /\ phase = "parsing" /\ bytesRead < Len(data)
    /\ stage = s
    /\ ReadsInside /\ WritesInside

Part == bytesRead' = bytesRead + ReadSize /\ parsedSize' = parsedSize + ReadSize

Complete == ReadSize = LeftToRead

ReadMagic ==
    /\ Round("magic") /\ Part
    /\ magicBytes' = Copied(magicBytes)
    /\ \/ ~Complete /\ UNCHANGED <<stage, phase>>
       \/ Complete /\ magicBytes' = Magic /\ stage' = "size" /\ UNCHANGED phase
       \/ Complete /\ magicBytes' /= Magic /\ phase' = "failed" /\ UNCHANGED stage
    /\ UNCHANGED <<maxPayload, sizeBytes, payloadSize, payload, data, historyVars>>

\* The limit of the payload is compared with the size of what was read of the datagram.
PayloadTooLarge == parsedSize' > maxPayload

ReadSizeField ==
    /\ Round("size") /\ Part
    /\ sizeBytes' = Copied(sizeBytes)
    /\ payloadSize' = IF Complete THEN LittleEndian(sizeBytes') ELSE payloadSize
    /\ \/ ~Complete /\ UNCHANGED <<stage, phase>>
       \/ Complete /\ ~PayloadTooLarge /\ stage' = "payload" /\ UNCHANGED phase
       \/ Complete /\ PayloadTooLarge /\ phase' = "failed" /\ UNCHANGED stage
    /\ UNCHANGED <<maxPayload, magicBytes, payload, data, historyVars>>

ReadPayload ==
    /\ Round("payload")
    /\ ~Complete
    /\ Part
    /\ payload' = Copied(payload)
    /\ UNCHANGED <<maxPayload, stage, payloadSize, magicBytes, sizeBytes, phase, data, historyVars>>

Payload == SubSeq(payload', 1, payloadSize)

\* The callback is given the payload; when it throws, nothing is reset and parseData()
\* is left.
Deliver ==
    /\ Round("payload")
    /\ Complete
    /\ bytesRead' = bytesRead + ReadSize
    /\ payload' = Copied(payload)
    /\ delivered' = Append(delivered, Payload)
    /\ \/ ResetParts /\ UNCHANGED phase
       \/ phase' = "failed" /\ parsedSize' = parsedSize + ReadSize /\ UNCHANGED <<stage, payloadSize>>
    /\ UNCHANGED <<maxPayload, magicBytes, sizeBytes, data, stream>>

ReadOutside ==
    /\ phase = "parsing" /\ bytesRead < Len(data)
    /\ ~ReadsInside
    /\ phase' = "outside"
    /\ UNCHANGED <<maxPayload, partVars, bufferVars, data, bytesRead, historyVars>>

WriteOutside ==
    /\ phase = "parsing" /\ bytesRead < Len(data)
    /\ ReadsInside /\ ~WritesInside
    /\ phase' = "outside"
    /\ UNCHANGED <<maxPayload, partVars, bufferVars, data, bytesRead, historyVars>>

ParseEnd ==
    /\ phase = "parsing" /\ bytesRead = Len(data)
    /\ phase' = "idle" /\ data' = <<>> /\ bytesRead' = 0
    /\ UNCHANGED <<maxPayload, partVars, bufferVars, historyVars>>

\* reset(): a new session.  The buffers keep what was read.
Reset ==
    /\ phase \in {"idle", "failed"}
    /\ ResetParts
    /\ phase' = "idle" /\ data' = <<>> /\ bytesRead' = 0
    /\ stream' = <<>> /\ delivered' = <<>>
    /\ UNCHANGED <<maxPayload, bufferVars>>

-----------------------------------------------------------------------------
ParseStep ==
    ReadMagic \/ ReadSizeField \/ ReadPayload \/ Deliver \/ ReadOutside \/ WriteOutside \/ ParseEnd

Next == ParseData \/ ParseStep \/ Reset

Spec == Init /\ [][Next]_vars

\* A call goes on.
FairSpec == Spec /\ WF_vars(ParseStep)
-----------------------------------------------------------------------------
\* Properties

\* The bytes of the size of a payload, the lowest first.
SizeField(size) ==
    LET rest[k \in 0 .. SizeBytes] == IF k = 0 THEN size ELSE rest[k - 1] \div Base
    IN  [k \in 1 .. SizeBytes |-> rest[k - 1] % Base]

Datagram(p) == Magic \o SizeField(Len(p)) \o p

\* The parts that were read of the current datagram.
Partial ==
    CASE stage = "magic" -> SubSeq(magicBytes, 1, parsedSize)
      [] stage = "size" -> Magic \o SubSeq(sizeBytes, 1, Pos)
      [] stage = "payload" -> Magic \o sizeBytes \o SubSeq(payload, 1, Pos)

\* Between two calls every byte of the session is accounted for, wherever the pieces
\* began and ended: the stream is the datagrams of the payloads that the callback was
\* given, in order, and the beginning of one more datagram, which is not complete
\* unless its payload is empty.
ParsesStream ==
    phase = "idle" =>
        /\ stream = FlattenSeq([k \in DOMAIN delivered |-> Datagram(delivered[k])]) \o Partial
        /\ Len(Partial) < End \/ payloadSize = 0

\* Every call of parseData() comes to an end, although the loop does not count rounds
\* and an empty payload reads nothing.
CallsEnd == phase = "parsing" ~> phase /= "parsing"

\* parseData() (datagram_parser.h): "Parses incoming stream of data", of which "size" is
\* the "Size of the data": a call reads the bytes that it was given and no others.
ReadsItsPiece == ~(phase = "outside" /\ ~ReadsInside)
=============================================================================
