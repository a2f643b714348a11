----------------------------- MODULE MsgHistory -----------------------------
(***************************************************************************)
(* What the console's message history promises, with no ring in sight: it  *)
(* holds the most recent Capacity messages, oldest first, and a new one    *)
(* displaces the oldest.                                                   *)
(***************************************************************************)
EXTENDS Integers, Sequences

CONSTANTS Capacity, Msgs

VARIABLE recent

Init == recent = <<>>

Remember(m) == recent' = IF Len(recent) < Capacity
                         THEN Append(recent, m)
                         ELSE Append(Tail(recent), m)

Next == \E m \in Msgs : Remember(m)

Spec == Init /\ [][Next]_recent
=============================================================================
