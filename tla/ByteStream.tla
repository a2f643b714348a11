----------------------------- MODULE ByteStream -----------------------------
(***************************************************************************)
(* BinaryBuffer (src/binary_buffer.cpp) behind BinaryInputStream and       *)
(* BinaryOutputStream (src/binary_stream.cpp, binary_stream.h), with the   *)
(* byte order of the platform (platform.h).  A byte has Base values.  A    *)
(* signed number or a float is stored as the unsigned one with its bits.   *)
(*                                                                         *)
(* A stream is a record: the bytes m_Buf, m_iOffset, the order of the      *)
(* platform, what was read last, and whether the call has thrown, which    *)
(* ends it: what it did before that remains.                               *)
(***************************************************************************)
EXTENDS Integers, Sequences, SequencesExt

CONSTANT Base

ASSUME BaseAssumption == Base \in Nat /\ Base > 1

Stream(buf, big) == [buf |-> buf, offset |-> 0, big |-> big, val |-> 0, thrown |-> FALSE]
Throw(s) == [s EXCEPT !.thrown = TRUE]

\* The digits of a number, the lowest one first, and back.
Digits(n, size) == [i \in 1..size |-> (n \div Base ^ (i - 1)) % Base]
NumberOf(digits) == FoldLeft(LAMBDA n, d : n * Base + d, 0, Reverse(digits))

\* A number as it lies in memory.
InMemory(digits, big) == IF big THEN Reverse(digits) ELSE digits
SwapByteOrder(bytes) == Reverse(bytes)

\* Mutant: every platform is taken for a little-endian one.
NeverSwap(bytes, big) == bytes

LittleEndianSwap(bytes, big) == IF big THEN SwapByteOrder(bytes) ELSE bytes
-----------------------------------------------------------------------------
(* BinaryBuffer. *)

Fits(s, size) == s.offset + size <= Len(s.buf)

ReadBytes(s, size) ==
    IF s.thrown \/ ~Fits(s, size) THEN Throw(s)
    ELSE [s EXCEPT !.val = SubSeq(s.buf, s.offset + 1, s.offset + size), !.offset = @ + size]

WriteBytes(s, bytes) ==
    IF s.thrown \/ ~Fits(s, Len(bytes)) THEN Throw(s)
    ELSE [s EXCEPT !.buf = SubSeq(@, 1, s.offset) \o bytes
                            \o SubSeq(@, s.offset + Len(bytes) + 1, Len(@)),
                   !.offset = @ + Len(bytes)]

Clamp(n, low, high) == IF n < low THEN low ELSE IF n > high THEN high ELSE n

SeekAbsolute(s, offset) == IF s.thrown THEN s ELSE [s EXCEPT !.offset = Clamp(offset, 0, Len(s.buf))]
SeekRelative(s, offset) == SeekAbsolute(s, s.offset + offset)
-----------------------------------------------------------------------------
(* The numbers, texts and objects of the streams. *)

ReadUInt(s, size) ==
    LET r == ReadBytes(s, size) IN
    IF r.thrown THEN r
    ELSE [r EXCEPT !.val = NumberOf(InMemory(LittleEndianSwap(@, s.big), s.big))]

WriteUInt(s, n, size) == WriteBytes(s, LittleEndianSwap(InMemory(Digits(n, size), s.big), s.big))

ReadString(s) == LET r == ReadUInt(s, 4) IN IF r.thrown THEN r ELSE ReadBytes(r, r.val)

WriteString(s, str) ==
    IF Len(str) >= Base ^ 4 - 1 THEN Throw(s) ELSE WriteBytes(WriteUInt(s, Len(str), 4), str)

ReadObject(s, size) ==
    LET r == ReadUInt(s, 4) IN
    IF r.thrown \/ r.val /= size THEN Throw(r) ELSE ReadBytes(r, size)

WriteObject(s, obj) == WriteBytes(WriteUInt(s, Len(obj), 4), obj)

\* The headers are read, and then taken back, before they are looked at.
PeekObjectArraySize(s, size) ==
    LET r == ReadUInt(s, 4)
        n == ReadUInt(r, 8)
        back == SeekRelative(n, -12) IN
    IF n.thrown \/ r.val /= size THEN Throw(back) ELSE back

ReadObjectArray(s, size, capacity) ==
    LET r == ReadUInt(s, 4)
        n == ReadUInt(r, 8) IN
    IF n.thrown \/ r.val /= size \/ n.val > capacity THEN Throw(n)
    ELSE ReadBytes(n, size * n.val)

\* Of the bytes of objects of that size.
WriteObjectArray(s, size, objs) ==
    WriteBytes(WriteUInt(WriteUInt(s, size, 4), Len(objs) \div size, 8), objs)
-----------------------------------------------------------------------------
\* What a program writes, and reads back as what it was; the value is a sequence, for a
\* number of one.
StreamItem(kind, size, val) == [kind |-> kind, size |-> size, val |-> val]

WriteItem(s, item) ==
    CASE item.kind = "uint" -> WriteUInt(s, item.val[1], item.size)
      [] item.kind = "string" -> WriteString(s, item.val)
      [] item.kind = "object" -> WriteObject(s, item.val)
      [] item.kind = "array" -> WriteObjectArray(s, item.size, item.val)

\* An array is read into a place of the size that was asked for before.
ReadItem(s, item) ==
    CASE item.kind = "uint" -> ReadUInt(s, item.size)
      [] item.kind = "string" -> ReadString(s)
      [] item.kind = "object" -> ReadObject(s, item.size)
      [] item.kind = "array" ->
           LET n == PeekObjectArraySize(s, item.size) IN
           IF n.thrown THEN n ELSE ReadObjectArray(n, item.size, n.val)

\* The streams before the first and after each item, where a call that throws is not the last.
After(s, items, Do(_, _)) ==
    FoldLeft(LAMBDA done, item : Append(done, Do([Last(done) EXCEPT !.thrown = FALSE], item)),
             <<s>>, items)

ValueOf(item) == IF item.kind = "uint" THEN item.val[1] ELSE item.val

\* "All data is stored packed in little-endian format and converted automatically."
\* (binary_stream.h): what was written on one platform is read on another one, item by item,
\* and where the buffer had no place for one the read fails as well: it leaves the stream
\* where the write left it, so that what follows is found.
ReadsMirrorWritesOf(size, items, bigWriter, bigReader) ==
    LET writes == After(Stream([i \in 1..size |-> 0], bigWriter), items, WriteItem)
        reads == After(Stream(Last(writes).buf, bigReader), items, ReadItem) IN
    \A k \in DOMAIN items :
        LET written == writes[k + 1]  read == reads[k + 1] IN
        /\ read.thrown <=> written.thrown
        /\ read.offset = written.offset
        /\ ~read.thrown => read.val = ValueOf(items[k])
=============================================================================
