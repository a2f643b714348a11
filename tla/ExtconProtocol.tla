--------------------------- MODULE ExtconProtocol ---------------------------
(***************************************************************************)
(* The messages of ExtconHost (src/extcon/extcon_host.cpp): how the names  *)
(* of the commands and a line of output are put into m_Buffer, by means of *)
(* module ByteStream, and how the other end reads them.                    *)
(***************************************************************************)
EXTENDS ByteStream

CONSTANTS
    Magic,              \* EXTCON_MSG_MAGIC
    MaxPayloadSize,     \* EXTCON_MAX_PAYLOAD_SIZE (16384)
    BufferSize,         \* MAX_TCP_READ_SIZE (65535)
    BigHost             \* the byte order of the host's platform

\* The buffer has a place for the largest list, and its size is a number of four bytes.
ASSUME ProtocolAssumption ==
    /\ Magic \in Seq(0..Base - 1) /\ BigHost \in BOOLEAN
    /\ MaxPayloadSize \in Nat /\ BufferSize \in Nat
    /\ Len(Magic) + 4 + 1 + 4 + MaxPayloadSize <= BufferSize /\ BufferSize + 1 < Base ^ 4

Opcode == [PRINT |-> 1, CMD_LIST |-> 2]

PrepareSendBuffer(opcode) ==
    WriteUInt(WriteUInt(WriteBytes(Stream([i \in 1..BufferSize |-> 0], BigHost), Magic), 0, 4), opcode, 1)

\* Mutant: the magic is counted as well.
PayloadOfAll(s) == s.offset - 4

PayloadSize(s) == s.offset - Len(Magic) - 4

\* What is sent of the buffer: sendBuffer() puts the size into its place.
SendBuffer(s) ==
    LET sized == WriteUInt(SeekAbsolute(s, Len(Magic)), PayloadSize(s), 4) IN
    SubSeq(sized.buf, 1, s.offset)

\* A message of the list: the first of the names, as many as fit into it.  The opcode and
\* the number of the names are not counted.
Fill(names) ==
    FoldLeft(LAMBDA m, name :
                LET size == 4 + Len(name) IN
                IF m.full \/ m.size + size > MaxPayloadSize THEN [m EXCEPT !.full = TRUE]
                ELSE [m EXCEPT !.s = WriteString(@, name), !.size = @ + size, !.count = @ + 1],
             [s |-> WriteUInt(PrepareSendBuffer(Opcode.CMD_LIST), 0, 4),
              size |-> 0, count |-> 0, full |-> FALSE],
             names)

WithCount(m) ==
    SeekAbsolute(WriteUInt(SeekAbsolute(m.s, Len(Magic) + 5), m.count, 4), m.s.offset)

\* sendAvailableCommands(), which has so many of the names left: a message that takes no
\* name is followed by the same for ever.
AvailableCommands(names) ==
    LET from[left \in 0..Len(names)] ==
            IF left = 0 THEN [sent |-> <<>>, ends |-> TRUE]
            ELSE LET m == Fill(SubSeq(names, Len(names) - left + 1, Len(names)))
                     rest == IF m.count = 0 THEN [sent |-> <<>>, ends |-> FALSE]
                             ELSE from[left - m.count] IN
                 [sent |-> <<SendBuffer(WithCount(m))>> \o rest.sent, ends |-> rest.ends]
    IN from[Len(names)]

PrintMessage(msg) ==
    LET type == WriteUInt(PrepareSendBuffer(Opcode.PRINT), msg.type, 1)
        time == WriteUInt(WriteUInt(type, msg.color, 1), msg.time, 8)
        text == WriteString(WriteString(time, msg.tag), msg.text) IN
    [thrown |-> text.thrown, bytes |-> SendBuffer(text)]
-----------------------------------------------------------------------------
\* What the other end finds in a message, on a platform of either order.
Header(bytes, big) == ReadUInt(ReadBytes(Stream(bytes, big), Len(Magic)), 4)
Body(bytes, big) == ReadUInt(Header(bytes, big), 1)

\* A datagram: the magic, and the size of what is behind the header.
Framed(bytes, big) ==
    /\ IsPrefix(Magic, bytes)
    /\ Header(bytes, big).val = Len(bytes) - Header(bytes, big).offset

NamesIn(bytes, big) ==
    LET count == ReadUInt(Body(bytes, big), 4)
        reads == FoldLeft(LAMBDA done, k : Append(done, ReadString(Last(done))), <<count>>,
                          [k \in 1..count.val |-> k]) IN
    [k \in 1..count.val |-> reads[k + 1].val]

Fit(name) == 4 + Len(name) <= MaxPayloadSize

\* The payload of a message with all of the names, and that of a line of output.
ListPayload(names) == 5 + 4 * Len(names) + Len(FlattenSeq(names))
PrintPayload(msg) == 19 + Len(msg.tag) + Len(msg.text)

\* The messages of the list are datagrams; of names that have a place in one they come to an
\* end with all names in their order, none of them divided.  A list whose payload is within
\* the limit is one message within the limit; of longer ones no size is claimed.
ListReceived(names, big) ==
    LET messages == AvailableCommands(names)
        sent == messages.sent IN
    /\ \A bytes \in Range(sent) : Framed(bytes, big) /\ Body(bytes, big).val = Opcode.CMD_LIST
    /\ (\A name \in Range(names) : Fit(name)) =>
         messages.ends /\ FlattenSeq([k \in DOMAIN sent |-> NamesIn(sent[k], big)]) = names
    /\ ListPayload(names) <= MaxPayloadSize =>
         Len(sent) <= 1 /\ \A bytes \in Range(sent) : Header(bytes, big).val <= MaxPayloadSize

\* A line of output whose payload is within the limit is sent as a datagram within it, from
\* which the line is read back.
PrintReceived(msg, big) ==
    LET print == PrintMessage(msg)
        type == ReadUInt(Body(print.bytes, big), 1)
        color == ReadUInt(type, 1)
        time == ReadUInt(color, 8)
        tag == ReadString(time)
        text == ReadString(tag) IN
    PrintPayload(msg) <= MaxPayloadSize =>
      /\ ~print.thrown /\ Framed(print.bytes, big) /\ Body(print.bytes, big).val = Opcode.PRINT
      /\ Header(print.bytes, big).val <= MaxPayloadSize
      /\ [type |-> type.val, color |-> color.val, time |-> time.val, tag |-> tag.val,
          text |-> text.val] = msg
=============================================================================
