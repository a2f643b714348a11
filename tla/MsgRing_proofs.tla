--------------------------- MODULE MsgRing_proofs ---------------------------
(***************************************************************************)
(* Lemmas about the ring of messages: what a push does to the sequence     *)
(* that a replay shows.                                                    *)
(***************************************************************************)
EXTENDS MsgRing, SequenceTheorems, TLAPS

\* A ring that is not full has been filled from slot 0 up to its cursor.
RingFilled(ring) == ring.size < RingSize => ring.ptr = ring.size

\* The slot of the i-th oldest message.
SlotOf(ring, i) ==
    IF ring.size < RingSize THEN i - 1
    ELSE IF ring.ptr + i - 1 < RingSize THEN ring.ptr + i - 1
    ELSE ring.ptr + i - 1 - RingSize

\* A push keeps the record a ring, filled as before.
LEMMA RingPushType ==
    ASSUME NEW S, NEW ring \in Rings(S), NEW m \in S, RingFilled(ring)
    PROVE  RingPush(ring, m) \in Rings(S) /\ RingFilled(RingPush(ring, m))
BY RingSizeAssumption DEF Rings, RingFilled, RingPush, RingAdvance, Slots

\* The i-th message of a replay comes from the slot of the i-th oldest message.
LEMMA RingContentsAt ==
    ASSUME NEW S, NEW ring \in Rings(S)
    PROVE  /\ RingContents(ring) \in Seq(S \cup {NoMsg})
           /\ Len(RingContents(ring)) = ring.size
           /\ \A i \in 1 .. ring.size : RingContents(ring)[i] = ring.buf[SlotOf(ring, i)]
<1>1. CASE ring.size < RingSize
  <2> DEFINE plain == [i \in 1 .. ring.size |-> ring.buf[i - 1]]
  <2>1. RingContents(ring) = plain
    BY <1>1, Zenon DEF RingContents
  <2>2. /\ plain \in Seq(S \cup {NoMsg})
        /\ Len(plain) = ring.size
        /\ \A i \in 1 .. ring.size : plain[i] = ring.buf[i - 1]
    BY <1>1, RingSizeAssumption DEF Rings, Slots
  <2> QED
    BY <1>1, <2>1, <2>2 DEF SlotOf
<1>2. CASE ring.size = RingSize
  <2> DEFINE old == [i \in 1 .. ring.size - ring.ptr |-> ring.buf[ring.ptr + i - 1]]
             new == [i \in 1 .. ring.ptr |-> ring.buf[i - 1]]
  <2>1. ~(ring.size < RingSize)
    BY <1>2, RingSizeAssumption
  <2>2. RingContents(ring) = old \o new
    BY <2>1, Zenon DEF RingContents
  <2>3. /\ old \in Seq(S \cup {NoMsg})
        /\ Len(old) = RingSize - ring.ptr
        /\ \A i \in 1 .. RingSize - ring.ptr : old[i] = ring.buf[ring.ptr + i - 1]
    BY <1>2, RingSizeAssumption DEF Rings, Slots
  <2>4. /\ new \in Seq(S \cup {NoMsg})
        /\ Len(new) = ring.ptr
        /\ \A i \in 1 .. ring.ptr : new[i] = ring.buf[i - 1]
    BY RingSizeAssumption DEF Rings, Slots
  <2> HIDE DEF old, new
  <2>5. /\ old \o new \in Seq(S \cup {NoMsg})
        /\ Len(old \o new) = Len(old) + Len(new)
        /\ \A i \in 1 .. Len(old) + Len(new) :
             (old \o new)[i] = IF i <= Len(old) THEN old[i] ELSE new[i - Len(old)]
    BY <2>3, <2>4, ConcatProperties, Zenon
  <2>6. Len(old) + Len(new) = RingSize
    BY <2>3, <2>4, RingSizeAssumption DEF Rings, Slots
  <2>7. \A i \in 1 .. RingSize : (old \o new)[i] = ring.buf[SlotOf(ring, i)]
    BY <1>2, <2>3, <2>4, <2>5, <2>6, RingSizeAssumption DEF SlotOf, Rings, Slots
  <2> QED
    BY <1>2, <2>2, <2>5, <2>6, <2>7
<1> QED
  BY <1>1, <1>2, RingSizeAssumption DEF Rings

\* A push adds the message at the end and, once the ring is full, drops the oldest.
LEMMA RingPushContents ==
    ASSUME NEW S, NEW ring \in Rings(S), NEW m \in S, RingFilled(ring)
    PROVE  RingContents(RingPush(ring, m))
             = IF Len(RingContents(ring)) < RingSize
               THEN Append(RingContents(ring), m)
               ELSE Append(Tail(RingContents(ring)), m)
<1> DEFINE T == S \cup {NoMsg}
           c == RingContents(ring)
           p == RingPush(ring, m)
           d == RingContents(p)
<1>1. p \in Rings(S) /\ RingFilled(p)
  BY RingPushType
<1>2. c \in Seq(T) /\ Len(c) = ring.size
      /\ \A i \in 1 .. ring.size : c[i] = ring.buf[SlotOf(ring, i)]
  BY RingContentsAt
<1>3. d \in Seq(T) /\ Len(d) = p.size
      /\ \A i \in 1 .. p.size : d[i] = p.buf[SlotOf(p, i)]
  BY <1>1, RingContentsAt
<1>4. m \in T
  OBVIOUS
<1>5. CASE ring.size < RingSize
  <2>1. p.size = ring.size + 1 /\ ring.size \in Nat
    BY <1>5, RingSizeAssumption DEF RingPush, Rings
  <2>2. \A i \in 1 .. ring.size : p.buf[SlotOf(p, i)] = ring.buf[SlotOf(ring, i)]
    BY <1>5, RingSizeAssumption DEF RingPush, RingAdvance, Rings, Slots, RingFilled, SlotOf
  <2>3. p.buf[SlotOf(p, ring.size + 1)] = m
    BY <1>5, RingSizeAssumption DEF RingPush, RingAdvance, Rings, Slots, RingFilled, SlotOf
  <2> HIDE DEF T, c, p, d
  <2>4. /\ Append(c, m) \in Seq(T)
        /\ Len(Append(c, m)) = Len(c) + 1
        /\ \A i \in 1 .. Len(c) : Append(c, m)[i] = c[i]
        /\ Append(c, m)[Len(c) + 1] = m
    <3>1. c \in Seq(T)
      BY <1>2
    <3> QED
      BY <3>1, <1>4, AppendProperties
  <2>5. \A i \in 1 .. Len(d) : d[i] = Append(c, m)[i]
    BY <1>2, <1>3, <2>1, <2>2, <2>3, <2>4
  <2>6. Len(d) = Len(Append(c, m))
    BY <1>2, <1>3, <2>1, <2>4
  <2>7. d = Append(c, m)
    BY <1>3, <2>4, <2>5, <2>6, SeqEqual
  <2> QED
    BY <1>2, <1>5, <2>7 DEF c, d, p
<1>6. CASE ring.size = RingSize
  <2>1. p.size = RingSize
    BY <1>6, RingSizeAssumption DEF RingPush
  <2>2. \A i \in 1 .. RingSize - 1 : p.buf[SlotOf(p, i)] = ring.buf[SlotOf(ring, i + 1)]
    BY <1>6, RingSizeAssumption DEF RingPush, RingAdvance, Rings, Slots, SlotOf
  <2>3. p.buf[SlotOf(p, RingSize)] = m
    BY <1>6, RingSizeAssumption DEF RingPush, RingAdvance, Rings, Slots, SlotOf
  <2> HIDE DEF T, c, p, d
  <2>4. c /= <<>>
    BY <1>2, <1>6, RingSizeAssumption
  <2>5. /\ Tail(c) \in Seq(T)
        /\ Len(Tail(c)) = Len(c) - 1
        /\ \A i \in 1 .. Len(Tail(c)) : Tail(c)[i] = c[i + 1]
    BY <1>2, <2>4, HeadTailProperties
  <2> DEFINE s == Append(Tail(c), m)
  <2>6. /\ s \in Seq(T)
        /\ Len(s) = Len(Tail(c)) + 1
        /\ \A i \in 1 .. Len(Tail(c)) : s[i] = Tail(c)[i]
        /\ s[Len(Tail(c)) + 1] = m
    <3>1. Tail(c) \in Seq(T)
      BY <2>5
    <3> QED
      BY <3>1, <1>4, AppendProperties DEF s
  <2> HIDE DEF s
  <2>7. Len(s) = RingSize
    BY <1>2, <1>6, <2>5, <2>6, RingSizeAssumption
  <2>8. \A i \in 1 .. Len(d) : d[i] = s[i]
    BY <1>2, <1>3, <1>6, <2>1, <2>2, <2>3, <2>5, <2>6, RingSizeAssumption
  <2>9. Len(d) = Len(s)
    BY <1>3, <2>1, <2>7
  <2>10. d = s
    BY <1>3, <2>6, <2>8, <2>9, SeqEqual
  <2> QED
    BY <1>2, <1>6, <2>10, RingSizeAssumption DEF c, d, p, s
<1> QED
  BY <1>5, <1>6, RingSizeAssumption DEF Rings

\* The slots that push() has written hold messages of S, and so a replay shows only those.
RingWritten(ring, S) == \A i \in Slots : (ring.size < RingSize => i < ring.size) => ring.buf[i] \in S

LEMMA RingPushWritten ==
    ASSUME NEW S, NEW ring \in Rings(S), NEW m \in S, RingFilled(ring), RingWritten(ring, S)
    PROVE  RingWritten(RingPush(ring, m), S)
BY RingSizeAssumption DEF Rings, RingFilled, RingWritten, RingPush, Slots

LEMMA RingShowsWritten ==
    ASSUME NEW S, NEW ring \in Rings(S), RingWritten(ring, S), NEW i \in 1 .. ring.size
    PROVE  RingContents(ring)[i] \in S
<1>1. RingContents(ring)[i] = ring.buf[SlotOf(ring, i)]
  BY RingContentsAt
<1>2. SlotOf(ring, i) \in Slots /\ (ring.size < RingSize => SlotOf(ring, i) < ring.size)
  BY RingSizeAssumption DEF Rings, SlotOf, Slots
<1> QED
  BY <1>1, <1>2 DEF RingWritten
=============================================================================
