------------------------------ MODULE MsgRing ------------------------------
(***************************************************************************)
(* ConsoleSystem::RingBuffer (src/console/console_system.cpp): the last    *)
(* MAX_BUFFER_SIZE console messages, kept for receivers that connect late. *)
(* A ring is a record of the member variables: the slots m_Buf, the next   *)
(* slot to write m_uPtr and the number of filled slots m_uSize.            *)
(***************************************************************************)
EXTENDS Integers, Sequences

CONSTANTS
    RingSize,   \* MAX_BUFFER_SIZE (64)
    NoMsg       \* a slot that was never written

ASSUME RingSizeAssumption == RingSize \in Nat \ {0}

Slots == 0 .. RingSize - 1

Rings(Msgs) == [buf : [Slots -> Msgs \cup {NoMsg}], ptr : Slots, size : 0 .. RingSize]

\* m_Buf is resized to MAX_BUFFER_SIZE default messages.
EmptyRing == [buf |-> [i \in Slots |-> NoMsg], ptr |-> 0, size |-> 0]

-----------------------------------------------------------------------------
\* Mutants of RingAdvance: the cursor wraps one slot early; it runs past the last slot.
RingAdvanceEarly(ptr) == IF ptr + 2 >= RingSize THEN 0 ELSE ptr + 1
RingAdvanceLate(ptr) == IF ptr + 1 > RingSize THEN 0 ELSE ptr + 1

\* m_uPtr++, back to the first slot at the end of the buffer.
RingAdvance(ptr) == IF ptr + 1 = RingSize THEN 0 ELSE ptr + 1

\* push(): overwrite the slot under the cursor, advance, and saturate the size.
RingPush(ring, m) ==
    [buf  |-> [ring.buf EXCEPT ![ring.ptr] = m],
     ptr  |-> RingAdvance(ring.ptr),
     size |-> IF ring.size < RingSize THEN ring.size + 1 ELSE ring.size]

\* The two loops of printPreviousMessages(): a ring that is not full starts at
\* slot 0; a full one starts at the cursor, its oldest message, and wraps.
RingContents(ring) ==
    IF ring.size < RingSize
    THEN [i \in 1 .. ring.size |-> ring.buf[i - 1]]
    ELSE [i \in 1 .. ring.size - ring.ptr |-> ring.buf[ring.ptr + i - 1]]
         \o [i \in 1 .. ring.ptr |-> ring.buf[i - 1]]
=============================================================================
