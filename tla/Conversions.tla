----------------------------- MODULE Conversions -----------------------------
(***************************************************************************)
(* appfw::convertStringToVal (src/utils.cpp) for the integer types and     *)
(* bool.  A text is its sign, the number that its digits make, or none,    *)
(* and whether something follows them.  Width gives the bits of each type. *)
(***************************************************************************)
EXTENDS Integers

CONSTANTS
    Width,      \* of "short", "int" and "long" and their unsigned forms
    MaxDigits   \* bound: the largest number that is written

Types == {"short", "ushort", "int", "uint", "long", "ulong", "bool"}
NoDigits == -1
Written == [sign : {"", "-"}, digits : {NoDigits} \cup 0..MaxDigits, tail : BOOLEAN]

Signed(bits) == -(2 ^ (bits - 1)) .. 2 ^ (bits - 1) - 1
Unsigned(bits) == 0 .. 2 ^ bits - 1
RangeOf(type) ==
    CASE type \in {"short", "int", "long"} -> Signed(Width[type])
      [] type \in {"ushort", "uint", "ulong"} -> Unsigned(Width[type])
      [] type = "bool" -> 0..1

Number(w) == IF w.sign = "-" THEN -w.digits ELSE w.digits

\* A number of one integer type assigned to another one.
Narrow(n, type) ==
    IF n % (2 ^ Width[type]) \in RangeOf(type) THEN n % (2 ^ Width[type])
    ELSE (n % (2 ^ Width[type])) - 2 ^ Width[type]

Failed == [ok |-> FALSE, val |-> 0]
Converted(n) == [ok |-> TRUE, val |-> n]

\* std::stoi, stol and stoul: what follows the number is ignored, and stoul takes a sign.
Sto(type, w) ==
    CASE w.digits = NoDigits -> Failed
      [] w.digits /= NoDigits /\ type \in {"int", "long"} ->
           IF Number(w) \in RangeOf(type) THEN Converted(Number(w)) ELSE Failed
      [] OTHER ->
           IF w.digits \in RangeOf(type) THEN Converted(Narrow(Number(w), type)) ELSE Failed

\* Mutant: the limits are those of the signed type of the same width.
OutOfSigned(n, type) == n \notin Signed(Width[type])

\* Neither comparison is ever true together with the other one.
OutOfRange(n, type) ==
    /\ \A m \in RangeOf(type) : n < m
    /\ \A m \in RangeOf(type) : n > m

Through(c, type) == IF ~c.ok \/ OutOfRange(c.val, type) THEN Failed ELSE Converted(Narrow(c.val, type))

ConvertStringToVal(type, w) ==
    CASE type \in {"int", "long", "ulong"} -> Sto(type, w)
      [] type = "uint" -> Through(Sto("ulong", w), "uint")
      [] type = "short" -> Through(Sto("int", w), "short")
      [] type = "ushort" -> Through(Through(Sto("ulong", w), "uint"), "ushort")
      [] type = "bool" ->
           LET c == Sto("int", w) IN IF c.ok THEN Converted(IF c.val = 0 THEN 0 ELSE 1) ELSE Failed

ConvertValToString(n) == [sign |-> IF n < 0 THEN "-" ELSE "", digits |-> IF n < 0 THEN -n ELSE n, tail |-> FALSE]
-----------------------------------------------------------------------------
\* The types of which the standard library finds out whether they have the number.
Checked(w) == {"int", "long"} \cup (IF w.sign = "" THEN {"ulong"} ELSE {})

\* A number that the type has is converted to itself, and convertStringToVal() undoes
\* convertValToString().  A text without a number is not converted to any type, nor one that
\* an int, a long or, without a sign, an unsigned long does not have to that type; a bool is
\* whether an int is not 0.  Nothing is said of the other numbers that a type does not have,
\* which convertStringToVal() accepts.
ConversionsRight(w) ==
    \A type \in Types :
        LET c == ConvertStringToVal(type, w) IN
        /\ w.digits /= NoDigits /\ Number(w) \in RangeOf(type) =>
             c = Converted(Number(w)) /\ ConvertStringToVal(type, ConvertValToString(Number(w))) = c
        /\ c.ok => w.digits /= NoDigits
        /\ c.ok /\ type \in Checked(w) => Number(w) \in RangeOf(type)
        /\ c.ok /\ type = "bool" =>
             Number(w) \in RangeOf("int") /\ c = Converted(IF Number(w) = 0 THEN 0 ELSE 1)
=============================================================================
