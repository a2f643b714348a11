---------------------- MODULE PureFunctions_proofs ----------------------
(***************************************************************************)
(* Theorems of the functions without state: CmdString, CommandLine,        *)
(* ByteStream and the messages that ExtconProtocol makes with it.  They    *)
(* are folds over sequences, and what a fold promises goes by induction: a *)
(* fold is a run of a machine, and a set of sequences with the empty one   *)
(* and every extension of its members is all of them.  A text is followed  *)
(* by what the parser holds after each argument and command that was       *)
(* written; a stream by the one that reads its bytes; a message by what    *)
(* lies at each place of its buffer.                                       *)
(***************************************************************************)
EXTENDS CommandLine, ExtconProtocol, SequenceTheorems, WellFoundedInduction, TLAPS
-----------------------------------------------------------------------------
(* Induction, and runs of a machine over a sequence. *)

\* A set of numbers with zero and the successors of its members is all of them.
LEMMA Induction ==
    ASSUME NEW T \in SUBSET Nat, 0 \in T, \A n \in T : n + 1 \in T
    PROVE  T = Nat
<1> SUFFICES ASSUME Nat \ T # {} PROVE FALSE
  OBVIOUS
<1> DEFINE R == OpToRel(<, Nat)
           U == Nat \ T
<1>1. IsWellFoundedOn(R, Nat) /\ U \subseteq Nat /\ U # {}
  BY NatLessThanWellFounded, Zenon
<1>2. \A y, x \in Nat : <<y, x>> \in R <=> y < x
  BY DEF OpToRel
<1> HIDE DEF U, R
<1>3. PICK x \in U : \A y \in U : ~ (<<y, x>> \in R)
  BY <1>1, WFMin
<1>4. x \in Nat /\ x \notin T
  BY <1>3 DEF U
<1>5. x # 0 /\ x - 1 \in Nat /\ x - 1 < x /\ (x - 1) + 1 = x
  BY <1>4
<1>6. x - 1 \in T
  BY <1>2, <1>3, <1>4, <1>5 DEF U
<1> QED BY <1>4, <1>5, <1>6

\* A set of sequences with the empty one and what its members are extended to is all of
\* them.
LEMMA SeqInduction ==
    ASSUME NEW C, NEW T \in SUBSET Seq(C), <<>> \in T,
           \A s \in T : \A c \in C : Append(s, c) \in T
    PROVE  T = Seq(C)
<1> DEFINE U == {n \in Nat : \A s \in Seq(C) : Len(s) = n => s \in T}
<1>1. 0 \in U
  BY EmptySeq
<1>2. ASSUME NEW n \in U PROVE n + 1 \in U
  <2> SUFFICES ASSUME NEW s \in Seq(C), Len(s) = n + 1 PROVE s \in T
    OBVIOUS
  <2>1. s # <<>>
    BY EmptySeq
  <2>2. PICK t \in Seq(C), c \in C : s = Append(t, c)
    BY <2>1, SequenceEmptyOrAppend
  <2>3. Len(t) \in Nat /\ Len(t) + 1 = n + 1
    BY <2>2, AppendProperties
  <2>4. t \in T
    BY <2>3
  <2> QED BY <2>2, <2>4
<1>3. U = Nat
  <2> HIDE DEF U
  <2>1. U \in SUBSET Nat
    BY DEF U
  <2> QED BY <2>1, <1>1, <1>2, Induction
<1>4. ASSUME NEW s \in Seq(C) PROVE s \in T
  <2>1. Len(s) \in U
    BY <1>3, LenProperties
  <2> QED BY <2>1
<1> QED BY <1>4

\* The states of a machine that reads a sequence: G is what it does with a member.
Traces(f, G, base, seq, V) ==
    /\ f \in [0..Len(seq) -> V] /\ f[0] = base
    /\ \A k \in 1..Len(seq) : f[k] = G[f[k - 1]][seq[k]]

IsMachine(G, V, C) == G \in [V -> [C -> V]]

Run(G, base, seq, V) == (CHOOSE f : Traces(f, G, base, seq, V))[Len(seq)]

LEMMA TraceExists ==
    ASSUME NEW V, NEW C, NEW G, IsMachine(G, V, C), NEW base \in V, NEW seq \in Seq(C)
    PROVE  \E f : Traces(f, G, base, seq, V)
<1> DEFINE T == {s \in Seq(C) : \E f : Traces(f, G, base, s, V)}
<1>1. <<>> \in T
  <2>1. Traces([k \in 0..0 |-> base], G, base, <<>>, V)
    BY DEF Traces
  <2> QED BY <2>1
<1>2. ASSUME NEW s \in T, NEW c \in C PROVE Append(s, c) \in T
  <2>1. PICK f : Traces(f, G, base, s, V)
    OBVIOUS
  <2> DEFINE n == Len(s)  t == Append(s, c)
             g == [k \in 0..n + 1 |-> IF k = n + 1 THEN G[f[n]][c] ELSE f[k]]
  <2>2. n \in Nat /\ f \in [0..n -> V] /\ f[0] = base /\ \A k \in 1..n : f[k] = G[f[k - 1]][s[k]]
    BY <2>1 DEF Traces
  <2>3. t \in Seq(C) /\ Len(t) = n + 1 /\ t[n + 1] = c /\ \A k \in 1..n : t[k] = s[k]
    OBVIOUS
  <2> HIDE DEF n, t
  <2>4. G[f[n]][c] \in V
    BY <2>2 DEF IsMachine
  <2>5. g \in [0..n + 1 -> V] /\ g[0] = base
    BY <2>2, <2>4
  <2>6. ASSUME NEW k \in 1..n + 1 PROVE g[k] = G[g[k - 1]][t[k]]
    <3>1. k - 1 \in 0..n /\ g[k - 1] = f[k - 1]
      BY <2>2
    <3>2. CASE k = n + 1
      BY <3>1, <3>2, <2>2, <2>3
    <3>3. CASE k \in 1..n
      <4>1. g[k] = f[k] /\ t[k] = s[k] /\ f[k] = G[f[k - 1]][s[k]]
        BY <3>3, <2>2, <2>3
      <4> QED BY <3>1, <4>1
    <3> QED BY <3>2, <3>3, <2>2
  <2>7. Traces(g, G, base, t, V)
    BY <2>3, <2>5, <2>6 DEF Traces
  <2> QED BY <2>3, <2>7 DEF t
<1>3. T = Seq(C)
  <2> HIDE DEF T
  <2>1. T \in SUBSET Seq(C)
    BY DEF T
  <2> QED BY <2>1, <1>1, <1>2, SeqInduction
<1> QED BY <1>3

\* Where a run ends.
LEMMA RunTrace ==
    ASSUME NEW V, NEW C, NEW G, IsMachine(G, V, C), NEW base \in V, NEW seq \in Seq(C)
    PROVE  \E f : Traces(f, G, base, seq, V) /\ Run(G, base, seq, V) = f[Len(seq)]
<1>1. \E f : Traces(f, G, base, seq, V)
  BY TraceExists
<1> QED BY <1>1, Zenon DEF Run

LEMMA RunEmpty ==
    ASSUME NEW V, NEW C, NEW G, IsMachine(G, V, C), NEW base \in V
    PROVE  Run(G, base, <<>>, V) = base
<1>1. ASSUME NEW e \in Seq(C) PROVE \E f : f[0] = base /\ Run(G, base, e, V) = f[Len(e)]
  <2>1. PICK f : Traces(f, G, base, e, V) /\ Run(G, base, e, V) = f[Len(e)]
    BY RunTrace
  <2> QED BY <2>1 DEF Traces
<1>2. <<>> \in Seq(C) /\ Len(<<>>) = 0
  BY EmptySeq
<1> QED BY <1>1, <1>2, Zenon

LEMMA RunType ==
    ASSUME NEW V, NEW C, NEW G, IsMachine(G, V, C), NEW base \in V, NEW seq \in Seq(C)
    PROVE  Run(G, base, seq, V) \in V
<1>1. PICK f : Traces(f, G, base, seq, V) /\ Run(G, base, seq, V) = f[Len(seq)]
  BY RunTrace
<1> QED BY <1>1 DEF Traces

LEMMA RunAppend ==
    ASSUME NEW V, NEW C, NEW G, IsMachine(G, V, C), NEW base \in V, NEW seq \in Seq(C), NEW c \in C
    PROVE  Run(G, base, Append(seq, c), V) = G[Run(G, base, seq, V)][c]
<1> DEFINE n == Len(seq)  t == Append(seq, c)
<1>1. n \in Nat /\ t \in Seq(C) /\ Len(t) = n + 1 /\ t[n + 1] = c /\ \A k \in 1..n : t[k] = seq[k]
  OBVIOUS
<1>2. PICK f : Traces(f, G, base, seq, V) /\ Run(G, base, seq, V) = f[Len(seq)]
  BY RunTrace
<1> HIDE DEF t
<1>3. PICK g : Traces(g, G, base, t, V) /\ Run(G, base, t, V) = g[Len(t)]
  BY <1>1, RunTrace
<1>4. /\ f[0] = base /\ \A k \in 1..n : f[k] = G[f[k - 1]][seq[k]]
      /\ g[0] = base /\ \A k \in 1..n + 1 : g[k] = G[g[k - 1]][t[k]]
  BY <1>1, <1>2, <1>3 DEF Traces
<1> HIDE DEF n
<1>5. ASSUME NEW k \in 1..n PROVE g[k] = G[g[k - 1]][seq[k]]
  <2>1. k \in 1..n + 1 /\ t[k] = seq[k]
    BY <1>1
  <2> QED BY <2>1, <1>4
<1>6. f[n] = g[n]
  <2> DEFINE T == {k \in Nat : k <= n => f[k] = g[k]}
  <2>1. 0 \in T
    BY <1>4
  <2>2. ASSUME NEW k \in T PROVE k + 1 \in T
    <3> SUFFICES ASSUME k + 1 <= n PROVE f[k + 1] = g[k + 1]
      OBVIOUS
    <3>1. k + 1 \in 1..n /\ (k + 1) - 1 = k /\ f[k] = g[k]
      BY <1>1
    <3> QED BY <3>1, <1>4, <1>5
  <2>3. T = Nat
    <3> HIDE DEF T
    <3>1. T \in SUBSET Nat
      BY DEF T
    <3> QED BY <3>1, <2>1, <2>2, Induction
  <2> QED BY <2>3, <1>1
<1>7. n + 1 \in 1..n + 1 /\ (n + 1) - 1 = n
  BY <1>1
<1>8. g[n + 1] = G[g[n]][t[n + 1]]
  <2>1. g[n + 1] = G[g[(n + 1) - 1]][t[n + 1]]
    BY <1>4, <1>7
  <2> QED BY <2>1, <1>7
<1> QED BY <1>1, <1>2, <1>3, <1>6, <1>8 DEF t, n

-----------------------------------------------------------------------------
(* Functions that are defined by their earlier values. *)

\* A function whose values are made of earlier ones, G[k] of the value at prev[k].
IsStep(G, prev, V, N) ==
    G \in [1..N -> [V -> V]] /\ prev \in [1..N -> Nat] /\ \A k \in 1..N : prev[k] < k
Follows(f, G, prev, V, a, N) ==
    f \in [0..N -> V] /\ f[0] = a /\ \A k \in 1..N : f[k] = G[k][f[prev[k]]]

LEMMA Recursion ==
    ASSUME NEW V, NEW a \in V, NEW N \in Nat, NEW G, NEW prev, IsStep(G, prev, V, N)
    PROVE  \E f : Follows(f, G, prev, V, a, N)
<1>0. G \in [1..N -> [V -> V]] /\ prev \in [1..N -> Nat] /\ \A k \in 1..N : prev[k] < k
  BY DEF IsStep
<1> DEFINE Defines(f, n) == f \in [0..n -> V] /\ f[0] = a /\ \A k \in 1..n : f[k] = G[k][f[prev[k]]]
           T == {n \in Nat : n <= N => \E f : Defines(f, n)}
<1>1. 0 \in T
  <2> DEFINE g == [k \in 0..0 |-> a]
  <2>1. g \in [0..0 -> V] /\ g[0] = a /\ \A k \in 1..0 : FALSE
    OBVIOUS
  <2> HIDE DEF g
  <2>2. Defines(g, 0)
    BY <2>1
  <2> QED BY <2>2
<1>2. ASSUME NEW n \in T PROVE n + 1 \in T
  <2>a. n \in Nat /\ n + 1 \in Nat /\ (n + 1 <= N => n <= N) /\ (n <= N => \E f : Defines(f, n))
    OBVIOUS
  <2> HIDE DEF Defines
  <2> SUFFICES ASSUME n + 1 <= N PROVE \E f : Defines(f, n + 1)
    BY <2>a
  <2>1. PICK f : Defines(f, n)
    BY <2>a
  <2> USE DEF Defines
  <2> DEFINE x == G[n + 1][f[prev[n + 1]]]
             g == [k \in 0..(n + 1) |-> IF k = n + 1 THEN x ELSE f[k]]
  <2>2. n \in Nat /\ n + 1 \in 1..N /\ prev[n + 1] \in 0..n
    BY <1>0
  <2>3. x \in V
    <3>1. f[prev[n + 1]] \in V /\ G[n + 1] \in [V -> V]
      BY <1>0, <2>1, <2>2
    <3> QED BY <3>1
  <2> HIDE DEF x
  <2>4. g \in [0..(n + 1) -> V] /\ g[0] = a
    BY <2>1, <2>2, <2>3
  <2>5. ASSUME NEW k \in 1..(n + 1) PROVE g[k] = G[k][g[prev[k]]]
    <3>1. prev[k] \in 0..n /\ prev[k] /= n + 1
      BY <1>0, <2>2
    <3>2. g[prev[k]] = f[prev[k]]
      BY <3>1
    <3>3. CASE k = n + 1
      <4>1. g[n + 1] = x
        BY <2>2
      <4> HIDE DEF g
      <4> QED BY <3>2, <3>3, <4>1, Zenon DEF x
    <3>4. CASE k /= n + 1
      <4>1. k \in 1..n
        BY <2>2, <3>4
      <4> QED BY <2>1, <3>2, <3>4, <4>1
    <3> QED BY <3>3, <3>4
  <2>6. Defines(g, n + 1)
    BY <2>4, <2>5
  <2> QED BY <2>6
<1> HIDE DEF T
<1>3. T = Nat
  <2>1. T \in SUBSET Nat
    BY DEF T
  <2> QED BY <2>1, <1>1, <1>2, Induction
<1>4. \E f : Defines(f, N)
  BY <1>3 DEF T
<1> QED BY <1>4 DEF Follows

\* Functions agree whose values do when the earlier ones do.
Agree(f, g, M) == \A k \in 0..M : f[k] = g[k]
KeepAgreeing(f, g, M) == \A k \in 0..M : (\A j \in 0..(k - 1) : f[j] = g[j]) => f[k] = g[k]

LEMMA Agreement ==
    ASSUME NEW M \in Nat, NEW f, NEW g, KeepAgreeing(f, g, M)
    PROVE  Agree(f, g, M)
<1> USE DEF KeepAgreeing, Agree
<1> DEFINE T == {n \in Nat : \A k \in 0..n : k <= M => f[k] = g[k]}
<1>1. 0 \in T
  OBVIOUS
<1>2. ASSUME NEW n \in T PROVE n + 1 \in T
  <2>1. \A k \in 0..n : k <= M => f[k] = g[k]
    OBVIOUS
  <2>2. ASSUME NEW k \in 0..(n + 1), k <= M PROVE f[k] = g[k]
    <3>1. \A j \in 0..(k - 1) : j \in 0..n /\ j <= M
      BY <2>2
    <3>2. \A j \in 0..(k - 1) : f[j] = g[j]
      BY <2>1, <3>1
    <3> QED BY <2>2, <3>2
  <2> QED BY <2>2
<1> HIDE DEF T
<1>3. T = Nat
  <2>1. T \in SUBSET Nat
    BY DEF T
  <2> QED BY <2>1, <1>1, <1>2, Induction
<1>4. M \in T
  BY <1>3
<1> QED BY <1>4 DEF T
-----------------------------------------------------------------------------
(* FoldLeft is a run: it is a function on the sets of places of a sequence, which takes
   the greatest place off a set. *)

\* A set of places has a greatest one.
LEMMA MaxIn ==
    ASSUME NEW n \in Nat, NEW s \in SUBSET (1..n), s # {}
    PROVE  Max(s) \in s /\ \A j \in s : Max(s) >= j
<1> DEFINE T == {k \in Nat : \A u \in SUBSET (1..k) : u # {} => \E x \in u : \A y \in u : x >= y}
<1>1. 0 \in T
  <2>1. 1..0 = {}
    OBVIOUS
  <2>2. \A u \in SUBSET (1..0) : u = {}
    BY <2>1
  <2> QED BY <2>2
<1>2. ASSUME NEW k \in T PROVE k + 1 \in T
  <2> SUFFICES ASSUME NEW u \in SUBSET (1..k + 1), u # {} PROVE \E x \in u : \A y \in u : x >= y
    OBVIOUS
  <2>1. CASE k + 1 \in u
    BY <2>1
  <2>2. CASE k + 1 \notin u
    <3>1. u \in SUBSET (1..k)
      BY <2>2
    <3> QED BY <3>1
  <2> QED BY <2>1, <2>2
<1>3. T = Nat
  <2> HIDE DEF T
  <2>1. T \in SUBSET Nat
    BY DEF T
  <2> QED BY <2>1, <1>1, <1>2, Induction
<1>4. \E x \in s : \A y \in s : x >= y
  BY <1>3
<1> QED BY <1>4, Zenon DEF Max

LEMMA MaxIs ==
    ASSUME NEW n \in Nat, NEW s \in SUBSET (1..n), NEW m \in s, \A j \in s : m >= j
    PROVE  Max(s) = m
<1>1. Max(s) \in s /\ \A j \in s : Max(s) >= j
  BY MaxIn
<1>2. Max(s) \in 1..n /\ m \in 1..n /\ Max(s) >= m /\ m >= Max(s)
  BY <1>1
<1> QED BY <1>2

\* Values for the sets of the places up to n.
Iterates(h, G, base, seq, n) ==
    /\ h[{}] = base
    /\ \A s \in SUBSET (1..n) : s # {} => h[s] = G[h[s \ {Max(s)}]][seq[Max(s)]]

LEMMA LeftIterates ==
    ASSUME NEW V, NEW C, NEW G, IsMachine(G, V, C), NEW base \in V, NEW seq \in Seq(C)
    PROVE  \E h \in [SUBSET (1..Len(seq)) -> V] : Iterates(h, G, base, seq, Len(seq))
<1> DEFINE N == Len(seq)
           P(n) == \E h \in [SUBSET (1..n) -> V] : Iterates(h, G, base, seq, n)
           T == {n \in Nat : n <= N => P(n)}
<1>0. N \in Nat /\ G \in [V -> [C -> V]]
  BY LenProperties DEF IsMachine
<1>1. 0 \in T
  <2> DEFINE h == [s \in SUBSET (1..0) |-> base]
  <2>1. h \in [SUBSET (1..0) -> V]
    OBVIOUS
  <2>2. 1..0 = {}
    OBVIOUS
  <2>3. h[{}] = base /\ \A s \in SUBSET (1..0) : s = {}
    BY <2>2
  <2> HIDE DEF h
  <2>4. Iterates(h, G, base, seq, 0)
    BY <2>3 DEF Iterates
  <2>5. P(0)
    BY <2>1, <2>4
  <2> QED BY <2>5
<1>2. ASSUME NEW n \in T PROVE n + 1 \in T
  <2> HIDE DEF P
  <2> SUFFICES ASSUME n + 1 <= N PROVE P(n + 1)
    OBVIOUS
  <2>0. n \in Nat /\ n <= N /\ P(n)
    BY <1>0
  <2> USE DEF P
  <2>1. PICK h \in [SUBSET (1..n) -> V] : Iterates(h, G, base, seq, n)
    BY <2>0
  <2> DEFINE c == seq[n + 1]
             g == [s \in SUBSET (1..n + 1) |->
                     IF n + 1 \in s THEN G[h[s \ {n + 1}]][c] ELSE h[s]]
  <2>2. c \in C /\ n \in Nat
    BY <1>0, ElementOfSeq
  <2> HIDE DEF c
  <2>3. g \in [SUBSET (1..n + 1) -> V]
    <3>1. ASSUME NEW s \in SUBSET (1..n + 1)
          PROVE  (IF n + 1 \in s THEN G[h[s \ {n + 1}]][c] ELSE h[s]) \in V
      <4>1. CASE n + 1 \in s
        <5>1. s \ {n + 1} \in SUBSET (1..n)
          BY <2>2
        <5> DEFINE v == h[s \ {n + 1}]
        <5>2. v \in V
          BY <5>1
        <5> HIDE DEF v
        <5>3. G[v][c] \in V
          BY <5>2, <1>0, <2>2
        <5> QED BY <5>3, <4>1 DEF v
      <4>2. CASE n + 1 \notin s
        <5>1. s \in SUBSET (1..n)
          BY <4>2, <2>2
        <5> QED BY <5>1, <4>2
      <4> QED BY <4>1, <4>2
    <3> QED BY <3>1
  <2>4. ASSUME NEW s \in SUBSET (1..n) PROVE s \in SUBSET (1..n + 1) /\ n + 1 \notin s /\ g[s] = h[s]
    <3>1. s \in SUBSET (1..n + 1) /\ n + 1 \notin s
      BY <2>2
    <3> QED BY <3>1
  <2>5. ASSUME NEW s \in SUBSET (1..n + 1), s # {}
        PROVE  g[s] = G[g[s \ {Max(s)}]][seq[Max(s)]]
    <3>1. CASE n + 1 \in s
      <4>1. Max(s) = n + 1
        <5>1. n + 1 \in Nat /\ \A j \in s : n + 1 >= j
          BY <2>2
        <5> QED BY <5>1, <3>1, MaxIs
      <4>2. s \ {n + 1} \in SUBSET (1..n)
        BY <2>2
      <4>3. g[s] = G[h[s \ {n + 1}]][c]
        BY <3>1
      <4>4. g[s \ {n + 1}] = h[s \ {n + 1}]
        BY <4>2, <2>4
      <4> HIDE DEF g
      <4> QED BY <4>1, <4>3, <4>4 DEF c
    <3>2. CASE n + 1 \notin s
      <4>1. s \in SUBSET (1..n)
        BY <3>2, <2>2
      <4>2. s \ {Max(s)} \in SUBSET (1..n)
        BY <4>1
      <4>3. g[s] = h[s] /\ g[s \ {Max(s)}] = h[s \ {Max(s)}]
        BY <4>1, <4>2, <2>4
      <4> HIDE DEF g
      <4>4. h[s] = G[h[s \ {Max(s)}]][seq[Max(s)]]
        BY <4>1, <2>1, <2>5 DEF Iterates
      <4> QED BY <4>3, <4>4
    <3> QED BY <3>1, <3>2
  <2>6. g[{}] = base
    <3>1. {} \in SUBSET (1..n) /\ h[{}] = base
      BY <2>1 DEF Iterates
    <3> QED BY <3>1, <2>4
  <2> HIDE DEF g
  <2>7. Iterates(g, G, base, seq, n + 1)
    BY <2>5, <2>6 DEF Iterates
  <2> QED BY <2>3, <2>7
<1>3. T = Nat
  <2> HIDE DEF T
  <2>1. T \in SUBSET Nat
    BY DEF T
  <2> QED BY <2>1, <1>1, <1>2, Induction
<1> HIDE DEF P
<1>4. P(N)
  <2>1. N \in T /\ N <= N
    BY <1>3, <1>0
  <2> HIDE DEF N
  <2> QED BY <2>1
<1> QED BY <1>4 DEF P

\* The greatest place of a set of places, and the sets without it.
LEMMA LeftPlaces ==
    ASSUME NEW C, NEW seq \in Seq(C), NEW s \in SUBSET (DOMAIN seq), s # {}
    PROVE  /\ Max(s) \in s /\ Max(s) \in 1..Len(seq) /\ seq[Max(s)] \in C
           /\ s \ {Max(s)} \in SUBSET (DOMAIN seq)
<1>1. Len(seq) \in Nat /\ DOMAIN seq = 1..Len(seq)
  BY LenProperties
<1>2. Max(s) \in s
  BY <1>1, MaxIn
<1>3. Max(s) \in 1..Len(seq)
  BY <1>1, <1>2
<1> QED BY <1>1, <1>2, <1>3, ElementOfSeq

Iterator(h, G, base, seq, V, C) ==
    /\ h = [s \in SUBSET (DOMAIN seq) |-> h[s]]
    /\ h[{}] = base
    /\ \A s \in SUBSET (DOMAIN seq) : s # {} =>
          /\ h[s] = G[h[s \ {Max(s)}]][seq[Max(s)]]
          /\ h[s \ {Max(s)}] \in V /\ seq[Max(s)] \in C

\* There is such a function, and each has for all places what is where the run ends.
LEMMA LeftIterator ==
    ASSUME NEW V, NEW C, NEW G, IsMachine(G, V, C), NEW base \in V, NEW seq \in Seq(C)
    PROVE  \E h : Iterator(h, G, base, seq, V, C)
<1>1. PICK h \in [SUBSET (1..Len(seq)) -> V] : Iterates(h, G, base, seq, Len(seq))
  BY LeftIterates
<1>2. DOMAIN seq = 1..Len(seq)
  BY LenProperties
<1>3. h \in [SUBSET (DOMAIN seq) -> V]
  BY <1>1, <1>2
<1>4. /\ h[{}] = base
      /\ \A s \in SUBSET (DOMAIN seq) : s # {} => h[s] = G[h[s \ {Max(s)}]][seq[Max(s)]]
  BY <1>1, <1>2, Zenon DEF Iterates
<1>5. ASSUME NEW s \in SUBSET (DOMAIN seq), s # {}
      PROVE  h[s \ {Max(s)}] \in V /\ seq[Max(s)] \in C
  <2>1. s \ {Max(s)} \in SUBSET (DOMAIN seq) /\ seq[Max(s)] \in C
    BY <1>5, LeftPlaces
  <2> QED BY <2>1, <1>3
<1>6. h = [s \in SUBSET (DOMAIN seq) |-> h[s]]
  BY <1>3
<1> QED BY <1>4, <1>5, <1>6, Zenon DEF Iterator

Folding(it, G, base, seq, V) ==
    /\ it[{}] = base
    /\ \A s \in SUBSET (DOMAIN seq) : s # {} /\ it[s \ {Max(s)}] \in V =>
          it[s] = G[it[s \ {Max(s)}]][seq[Max(s)]]

LEMMA LeftFolds ==
    ASSUME NEW V, NEW C, NEW G, IsMachine(G, V, C), NEW base \in V, NEW seq \in Seq(C),
           NEW it, Folding(it, G, base, seq, V)
    PROVE  it[DOMAIN seq] = Run(G, base, seq, V)
<1>0. /\ it[{}] = base
      /\ \A s \in SUBSET (DOMAIN seq) : s # {} /\ it[s \ {Max(s)}] \in V =>
            it[s] = G[it[s \ {Max(s)}]][seq[Max(s)]]
  BY DEF Folding
<1>1. PICK f : Traces(f, G, base, seq, V) /\ Run(G, base, seq, V) = f[Len(seq)]
  BY RunTrace
<1> DEFINE N == Len(seq)
           T == {k \in Nat : k <= N => it[1..k] = f[k]}
<1>2. /\ N \in Nat /\ DOMAIN seq = 1..N
      /\ f \in [0..N -> V] /\ f[0] = base /\ \A k \in 1..N : f[k] = G[f[k - 1]][seq[k]]
  BY <1>1, LenProperties DEF Traces
<1> HIDE DEF N
<1>3. 0 \in T
  <2>1. 1..0 = {}
    OBVIOUS
  <2> QED BY <2>1, <1>0, <1>2
<1>4. ASSUME NEW k \in T PROVE k + 1 \in T
  <2> SUFFICES ASSUME k + 1 <= N PROVE it[1..k + 1] = f[k + 1]
    OBVIOUS
  <2> DEFINE s == 1..k + 1
  <2>0. k \in Nat /\ k + 1 \in 1..N /\ (k + 1) - 1 = k
    BY <1>2
  <2>1. s \in SUBSET (DOMAIN seq) /\ s # {}
    <3>1. s \subseteq 1..N /\ k + 1 \in s
      BY <2>0, <1>2
    <3> QED BY <3>1, <1>2
  <2>2. Max(s) = k + 1
    <3>1. s \in SUBSET (1..N) /\ k + 1 \in s /\ \A j \in s : k + 1 >= j
      BY <2>0, <2>1, <1>2
    <3> HIDE DEF s
    <3> QED BY <3>1, <1>2, MaxIs
  <2>3. s \ {k + 1} = 1..k
    BY <2>0
  <2>4. it[1..k] = f[k] /\ f[k] \in V
    BY <2>0, <1>2
  <2>5. f[k + 1] = G[f[k]][seq[k + 1]]
    BY <2>0, <1>2
  <2> HIDE DEF s
  <2>6. it[s] = G[it[1..k]][seq[k + 1]]
    BY <1>0, <2>1, <2>2, <2>3, <2>4
  <2> QED BY <2>4, <2>5, <2>6 DEF s
<1>5. T = Nat
  <2> HIDE DEF T
  <2>1. T \in SUBSET Nat
    BY DEF T
  <2> QED BY <2>1, <1>3, <1>4, Induction
<1>6. it[1..N] = f[N]
  BY <1>5, <1>2
<1> QED BY <1>1, <1>2, <1>6 DEF N

-----------------------------------------------------------------------------
(* FlattenSeq and KeepIn are runs. *)

Cat(S) == [s \in Seq(S) |-> [t \in Seq(S) |-> s \o t]]

LEMMA CatMachine == ASSUME NEW S PROVE IsMachine(Cat(S), Seq(S), Seq(S)) /\ <<>> \in Seq(S)
<1>1. \A s, t \in Seq(S) : s \o t \in Seq(S)
  BY ConcatProperties
<1> QED BY <1>1, EmptySeq DEF Cat, IsMachine

LEMMA FlatIsRun ==
    ASSUME NEW S, NEW ss \in Seq(Seq(S))
    PROVE  FlattenSeq(ss) = Run(Cat(S), <<>>, ss, Seq(S))
<1> DEFINE N == Len(ss)
           Step(g) == [k \in 1..N |-> IF k = 1 THEN ss[k] ELSE g[k - 1] \o ss[k]]
           f == CHOOSE g : g = Step(g)
<1>1. PICK h : Traces(h, Cat(S), <<>>, ss, Seq(S)) /\ Run(Cat(S), <<>>, ss, Seq(S)) = h[N]
  <2> DEFINE V == Seq(S)  G == Cat(S)  base == <<>>
  <2>1. IsMachine(G, V, V) /\ base \in V /\ ss \in Seq(V)
    BY CatMachine
  <2> HIDE DEF V, G, base
  <2>2. \E h : Traces(h, G, base, ss, V) /\ Run(G, base, ss, V) = h[Len(ss)]
    BY <2>1, RunTrace
  <2> QED BY <2>2 DEF V, G, base
<1>2. /\ N \in Nat /\ h \in [0..N -> Seq(S)] /\ h[0] = <<>>
      /\ \A k \in 1..N : h[k] = Cat(S)[h[k - 1]][ss[k]]
  BY <1>1, LenProperties DEF Traces
<1>3. \A k \in 1..N : ss[k] \in Seq(S)
  BY ElementOfSeq
<1> HIDE DEF N
<1>4. ASSUME NEW k \in 1..N
      PROVE  k - 1 \in 0..N /\ h[k - 1] \in Seq(S) /\ h[k] = h[k - 1] \o ss[k]
  <2>0. k - 1 \in 0..N /\ ss[k] \in Seq(S)
    BY <1>2, <1>3
  <2>1. k - 1 \in 0..N /\ h[k - 1] \in Seq(S) /\ ss[k] \in Seq(S)
    BY <2>0, <1>2
  <2>2. h[k] = Cat(S)[h[k - 1]][ss[k]]
    BY <1>2, Zenon
  <2>3. ASSUME NEW s \in Seq(S), NEW t \in Seq(S) PROVE Cat(S)[s][t] = s \o t
    BY DEF Cat
  <2> QED BY <2>1, <2>2, <2>3, Zenon
<1>5. CASE N = 0
  <2>1. ss = <<>>
    BY <1>5, EmptySeq DEF N
  <2>2. FlattenSeq(ss) = <<>>
    BY <2>1, <1>5, Zenon DEF FlattenSeq, N
  <2> QED BY <2>2, <1>1, <1>2, <1>5, Zenon
<1>6. CASE N # 0
  <2> DEFINE g == [k \in 1..N |-> h[k]]
  <2>1. ASSUME NEW k \in 1..N PROVE g[k] = IF k = 1 THEN ss[k] ELSE g[k - 1] \o ss[k]
    <3>1. CASE k = 1
      <4>0. h[k] = h[k - 1] \o ss[k] /\ k - 1 = 0
        <5>1. h[k] = h[k - 1] \o ss[k]
          BY <1>4, Zenon
        <5> QED BY <5>1, <3>1
      <4>1. h[1] = h[0] \o ss[1] /\ h[0] = <<>> /\ ss[1] \in Seq(S)
        <5>1. h[k] = h[0] \o ss[k] /\ ss[k] \in Seq(S)
          BY <4>0, <1>3
        <5> QED BY <5>1, <3>1, <1>2
      <4>2. ASSUME NEW s \in Seq(S) PROVE <<>> \o s = s
        BY ConcatEmptySeq
      <4>3. h[1] = ss[1]
        BY <4>1, <4>2, Zenon
      <4> QED BY <3>1, <4>3
    <3>2. CASE k # 1
      <4>1. k - 1 \in 1..N
        BY <1>2, <3>2
      <4> QED BY <4>1, <1>4, <3>2
    <3> QED BY <3>1, <3>2
  <2> HIDE DEF g
  <2>2. g = [k \in 1..N |-> g[k]]
    BY DEF g
  <2>3. g = Step(g)
    BY <2>1, <2>2
  <2> HIDE DEF Step
  <2>4. f = Step(f)
    BY <2>3
  <2> HIDE DEF f
  <2> USE DEF Step
  <2>5. \A k \in 1..N : f[k] = IF k = 1 THEN ss[k] ELSE f[k - 1] \o ss[k]
    BY <2>4
  <2> HIDE DEF Step
  <2> DEFINE T == {k \in Nat : k + 1 \in 1..N => f[k + 1] = h[k + 1]}
  <2>6. 0 \in T
    <3>1. 1 \in 1..N
      BY <1>2, <1>6
    <3>2. f[1] = ss[1] /\ g[1] = ss[1]
      BY <3>1, <2>1, <2>5
    <3>3. g[1] = h[1]
      BY <3>1 DEF g
    <3> QED BY <3>2, <3>3
  <2>7. ASSUME NEW k \in T PROVE k + 1 \in T
    <3> SUFFICES ASSUME k + 2 \in 1..N PROVE f[k + 2] = h[k + 2]
      OBVIOUS
    <3>1. k + 1 \in 1..N /\ k + 2 # 1 /\ (k + 2) - 1 = k + 1 /\ f[k + 1] = h[k + 1]
      BY <1>2
    <3>2. f[k + 2] = f[(k + 2) - 1] \o ss[k + 2]
      BY <2>5, <3>1
    <3>3. h[k + 2] = h[(k + 2) - 1] \o ss[k + 2]
      BY <1>4
    <3> QED BY <3>1, <3>2, <3>3
  <2>8. T = Nat
    <3> HIDE DEF T
    <3>1. T \in SUBSET Nat
      BY DEF T
    <3> QED BY <3>1, <2>6, <2>7, Induction
  <2>9. f[N] = h[N]
    <3>1. N - 1 \in Nat /\ (N - 1) + 1 = N /\ N \in 1..N
      BY <1>2, <1>6
    <3>2. \A k \in Nat : k + 1 \in 1..N => f[k + 1] = h[k + 1]
      BY <2>8
    <3> QED BY <3>1, <3>2
  <2>10. FlattenSeq(ss) = f[N]
    BY <1>6 DEF FlattenSeq, f, Step, N
  <2> QED BY <2>9, <2>10, <1>1
<1> QED BY <1>5, <1>6

\* What FlattenSeq puts together.
LEMMA FlatLaws ==
    ASSUME NEW S
    PROVE  /\ FlattenSeq(<<>>) = <<>>
           /\ \A ss \in Seq(Seq(S)) : FlattenSeq(ss) \in Seq(S)
           /\ \A ss \in Seq(Seq(S)), s \in Seq(S) :
                FlattenSeq(Append(ss, s)) = FlattenSeq(ss) \o s
<1>0. IsMachine(Cat(S), Seq(S), Seq(S)) /\ <<>> \in Seq(S)
  BY CatMachine
<1>1. FlattenSeq(<<>>) = <<>>
  <2>1. <<>> \in Seq(Seq(S))
    BY EmptySeq
  <2>2. Run(Cat(S), <<>>, <<>>, Seq(S)) = <<>>
    BY <1>0, RunEmpty, Zenon
  <2> QED BY <2>1, <2>2, FlatIsRun, Zenon
<1>2. ASSUME NEW ss \in Seq(Seq(S)) PROVE FlattenSeq(ss) \in Seq(S)
  <2>1. Run(Cat(S), <<>>, ss, Seq(S)) \in Seq(S)
    BY <1>0, RunType
  <2> QED BY <2>1, FlatIsRun
<1>3. ASSUME NEW ss \in Seq(Seq(S)), NEW s \in Seq(S)
      PROVE  FlattenSeq(Append(ss, s)) = FlattenSeq(ss) \o s
  <2>1. Append(ss, s) \in Seq(Seq(S))
    BY AppendProperties
  <2>2. Run(Cat(S), <<>>, Append(ss, s), Seq(S)) = Cat(S)[Run(Cat(S), <<>>, ss, Seq(S))][s]
    <3> DEFINE V == Seq(S)  G == Cat(S)  base == <<>>
    <3>1. IsMachine(G, V, V) /\ base \in V /\ ss \in Seq(V) /\ s \in V
      BY <1>0
    <3> HIDE DEF V, G, base
    <3>2. Run(G, base, Append(ss, s), V) = G[Run(G, base, ss, V)][s]
      BY <3>1, RunAppend
    <3> QED BY <3>2 DEF V, G, base
  <2>3. FlattenSeq(ss) \in Seq(S)
    BY <1>2
  <2>4. FlattenSeq(Append(ss, s)) = Cat(S)[FlattenSeq(ss)][s]
    BY <2>1, <2>2, FlatIsRun
  <2>5. ASSUME NEW x \in Seq(S) PROVE Cat(S)[x][s] = x \o s
    BY DEF Cat
  <2> QED BY <2>3, <2>4, <2>5
<1> QED BY <1>1, <1>2, <1>3, Zenon

Keeps(S, C) == [s \in Seq(C) |-> [x \in C |-> IF x \in S THEN Append(s, x) ELSE s]]

LEMMA KeepMachine == ASSUME NEW S, NEW C PROVE IsMachine(Keeps(S, C), Seq(C), C) /\ <<>> \in Seq(C)
<1>1. \A s \in Seq(C), x \in C : (IF x \in S THEN Append(s, x) ELSE s) \in Seq(C)
  BY AppendProperties
<1> QED BY <1>1, EmptySeq DEF Keeps, IsMachine

LEMMA KeepIsRun ==
    ASSUME NEW S, NEW C, NEW seq \in Seq(C)
    PROVE  KeepIn(S, seq) = Run(Keeps(S, C), <<>>, seq, Seq(C))
<1> DEFINE V == Seq(C)
           G == Keeps(S, C)
           Op(s, x) == IF x \in S THEN Append(s, x) ELSE s
           Step(g) == [u \in SUBSET DOMAIN seq |->
                         IF u = {} THEN <<>> ELSE Op(g[u \ {Max(u)}], seq[Max(u)])]
           it == CHOOSE g : g = Step(g)
<1>0. ASSUME NEW s \in V, NEW x \in C PROVE G[s][x] = Op(s, x)
  BY DEF Keeps
<1>1. KeepIn(S, seq) = it[DOMAIN seq]
  BY Zenon DEF KeepIn, FoldLeft, MapThenFoldSet
<1>2. IsMachine(G, V, C) /\ <<>> \in V
  BY KeepMachine
<1> HIDE DEF V, G, Op
<1>3. PICK h : Iterator(h, G, <<>>, seq, V, C)
  BY <1>2, LeftIterator
<1>4. h = Step(h)
  <2>1. ASSUME NEW u \in SUBSET DOMAIN seq, u # {} PROVE h[u] = Op(h[u \ {Max(u)}], seq[Max(u)])
    BY <1>0, <1>3, <2>1, Zenon DEF Iterator
  <2>2. \A u \in SUBSET (DOMAIN seq) :
          h[u] = IF u = {} THEN <<>> ELSE Op(h[u \ {Max(u)}], seq[Max(u)])
    BY <2>1, <1>3, Zenon DEF Iterator
  <2>3. h = [u \in SUBSET (DOMAIN seq) |-> h[u]]
    BY <1>3, Zenon DEF Iterator
  <2> QED BY <2>2, <2>3, Zenon
<1>5. it = Step(it)
  <2> HIDE DEF Step
  <2> QED BY <1>4
<1> HIDE DEF it
<1>6. Folding(it, G, <<>>, seq, V)
  <2>1. it[{}] = <<>>
    <3>1. {} \in SUBSET DOMAIN seq
      OBVIOUS
    <3> QED BY <3>1, <1>5, Zenon
  <2>2. ASSUME NEW u \in SUBSET DOMAIN seq, u # {}, it[u \ {Max(u)}] \in V
        PROVE  it[u] = G[it[u \ {Max(u)}]][seq[Max(u)]]
    <3>1. it[u] = Op(it[u \ {Max(u)}], seq[Max(u)])
      BY <1>5, <2>2
    <3> QED BY <3>1, <1>0, <1>3, <2>2, Zenon DEF Iterator
  <2> QED BY <2>1, <2>2 DEF Folding
<1> HIDE DEF Step
<1>7. it[DOMAIN seq] = Run(G, <<>>, seq, V)
  BY <1>2, <1>6, LeftFolds
<1> QED BY <1>1, <1>7 DEF G, V

-----------------------------------------------------------------------------
(* KeepIn, and the places that it takes. *)

\* What KeepIn does with one more member.
LEMMA KeepLaws ==
    ASSUME NEW S, NEW C
    PROVE  /\ KeepIn(S, <<>>) = <<>>
           /\ \A seq \in Seq(C) : KeepIn(S, seq) \in Seq(C)
           /\ \A seq \in Seq(C), c \in C :
                KeepIn(S, Append(seq, c)) =
                    IF c \in S THEN Append(KeepIn(S, seq), c) ELSE KeepIn(S, seq)
<1> DEFINE V == Seq(C)  G == Keeps(S, C)  base == <<>>
<1>1. IsMachine(G, V, C) /\ base \in V
  BY KeepMachine
<1>2. \A seq \in Seq(C) : KeepIn(S, seq) = Run(G, base, seq, V)
  BY KeepIsRun
<1>3. ASSUME NEW seq \in V, NEW c \in C PROVE G[seq][c] = IF c \in S THEN Append(seq, c) ELSE seq
  BY DEF Keeps
<1>4. \A seq \in Seq(C), c \in C : Append(seq, c) \in Seq(C)
  BY AppendProperties
<1>5. <<>> \in Seq(C)
  BY EmptySeq
<1> HIDE DEF V, G, base
<1>6. Run(G, base, <<>>, V) = base
  BY <1>1, RunEmpty
<1>7. ASSUME NEW seq \in Seq(C) PROVE KeepIn(S, seq) \in V
  BY <1>1, <1>2, RunType
<1>8. ASSUME NEW seq \in Seq(C), NEW c \in C
      PROVE  KeepIn(S, Append(seq, c)) = IF c \in S THEN Append(KeepIn(S, seq), c) ELSE KeepIn(S, seq)
  <2>1. Run(G, base, Append(seq, c), V) = G[Run(G, base, seq, V)][c]
    BY <1>1, RunAppend
  <2>2. KeepIn(S, Append(seq, c)) = G[KeepIn(S, seq)][c]
    BY <2>1, <1>2, <1>4
  <2> QED BY <2>2, <1>3, <1>7
<1>9. KeepIn(S, <<>>) = <<>>
  BY <1>2, <1>5, <1>6, Zenon DEF base
<1> QED BY <1>7, <1>8, <1>9, Zenon DEF V

-----------------------------------------------------------------------------
(* Commands: the alphabet of a text, its arguments, its commands, and the states of
   the parser. *)

IsAlphabet(X) == {Quote, " ", ";"} \subseteq X /\ End \notin X /\ "none" \notin X

ArgsOver(X) == Seq(X \ {Quote}) \ {<<>>}

CmdsOver(X) == Seq(ArgsOver(X)) \ {<<>>}

States(X) == [cmds : Seq(CmdsOver(X)), args : Seq(ArgsOver(X)),
              arg : Seq(X \ {Quote}) \cup {NotInArg}, isInQuotes : BOOLEAN]

Between(cmds, args) == [cmds |-> cmds, args |-> args, arg |-> NotInArg, isInQuotes |-> FALSE]

Quoted(cmds, args, arg) == [cmds |-> cmds, args |-> args, arg |-> arg, isInQuotes |-> TRUE]

Parsed(text) == FoldLeft(NextChar, Begun, text)

Parser(X) == [p \in States(X) |-> [c \in X \cup {End} |-> NextChar(p, c)]]

\* The characters that the parser looks for are different ones.
LEMMA Characters ==
    /\ Quote # " " /\ Quote # ";" /\ Quote # End /\ Quote # "none"
    /\ " " # ";" /\ " " # End /\ ";" # End
BY DEF Quote, End

\* No argument is taken for none.
LEMMA NoArgument == ASSUME NEW X, "none" \notin X, NEW a \in Seq(X) PROVE a # NotInArg
<1>1. Len(NotInArg) = 1 /\ NotInArg[1] = "none"
  BY DEF NotInArg
<1>2. ASSUME a = NotInArg PROVE FALSE
  <2>1. Len(a) = 1 /\ a[1] = "none" /\ a[1] \in X
    BY <1>1, <1>2
  <2> QED BY <2>1
<1> QED BY <1>2

\* The states of the parser by their parts.
LEMMA StateParts ==
    ASSUME NEW X, NEW p
    PROVE  p \in States(X) <=>
             /\ p = [cmds |-> p.cmds, args |-> p.args, arg |-> p.arg, isInQuotes |-> p.isInQuotes]
             /\ p.cmds \in Seq(CmdsOver(X)) /\ p.args \in Seq(ArgsOver(X))
             /\ p.arg \in Seq(X \ {Quote}) \cup {NotInArg} /\ p.isInQuotes \in BOOLEAN
BY Zenon DEF States

\* The end of a command and of an argument.
LEMMA EndCommandType ==
    ASSUME NEW X, NEW p \in States(X)
    PROVE  EndCommand(p) \in States(X)
<1>1. CASE p.args = <<>>
  BY <1>1 DEF EndCommand
<1>2. CASE p.args # <<>>
  <2>1. p.args \in CmdsOver(X) /\ p.cmds \in Seq(CmdsOver(X))
    BY <1>2, StateParts, Zenon DEF CmdsOver
  <2> DEFINE cmds == Append(p.cmds, p.args)
  <2>2. cmds \in Seq(CmdsOver(X)) /\ <<>> \in Seq(ArgsOver(X))
    BY <2>1, AppendProperties, EmptySeq
  <2> HIDE DEF cmds
  <2>3. EndCommand(p) = [p EXCEPT !.cmds = cmds, !.args = <<>>]
    BY <1>2 DEF EndCommand, cmds
  <2> QED BY <2>2, <2>3 DEF States
<1> QED BY <1>1, <1>2

LEMMA EndArgType ==
    ASSUME NEW X, NEW p \in States(X), p.arg \in Seq(X \ {Quote})
    PROVE  /\ EndArg(p) \in States(X)
           /\ EndArg(p) = Between(p.cmds, IF p.arg = <<>> THEN p.args ELSE Append(p.args, p.arg))
<1> DEFINE args == IF p.arg = <<>> THEN p.args ELSE Append(p.args, p.arg)
<1>1. args \in Seq(ArgsOver(X))
  <2>1. p.args \in Seq(ArgsOver(X))
    BY StateParts
  <2>2. CASE p.arg = <<>>
    BY <2>1, <2>2
  <2>3. CASE p.arg # <<>>
    <3>1. p.arg \in ArgsOver(X)
      BY <2>3 DEF ArgsOver
    <3>2. Append(p.args, p.arg) \in Seq(ArgsOver(X))
      BY <3>1, <2>1, AppendProperties
    <3> QED BY <3>2, <2>3
  <2> QED BY <2>2, <2>3
<1>2. EndArg(p) = [p EXCEPT !.args = args, !.arg = NotInArg, !.isInQuotes = FALSE]
  BY DEF EndArg
<1> HIDE DEF args
<1>3. EndArg(p) = Between(p.cmds, args)
  BY <1>2 DEF States, Between
<1>4. Between(p.cmds, args) \in States(X)
  BY <1>1 DEF States, Between
<1> QED BY <1>3, <1>4 DEF args

LEMMA InArgType ==
    ASSUME NEW X, IsAlphabet(X), NEW p \in States(X), p.arg \in Seq(X \ {Quote}), NEW c \in X \cup {End}
    PROVE  NextInArg(p, c) \in States(X)
<1>1. CASE p.isInQuotes /\ c \in {Quote, End}
  BY <1>1, EndArgType DEF NextInArg
<1>2. CASE ~p.isInQuotes /\ c \in Blank
  <2>1. NextInArg(p, c) = EndArg(p)
    BY <1>2, Characters, Zenon DEF NextInArg, Blank
  <2> QED BY <2>1, EndArgType
<1>3. CASE ~p.isInQuotes /\ c = ";"
  <2>1. NextInArg(p, c) = EndCommand(EndArg(p))
    BY <1>3, Characters, Zenon DEF NextInArg, Blank
  <2> QED BY <2>1, EndArgType, EndCommandType
<1>4. CASE ~p.isInQuotes /\ c = Quote
  <2>1. NextInArg(p, c) = [p EXCEPT !.isInQuotes = TRUE, !.arg = <<>>]
    BY <1>4, Characters, Zenon DEF NextInArg, Blank
  <2>2. <<>> \in Seq(X \ {Quote})
    BY EmptySeq
  <2> QED BY <2>1, <2>2 DEF States
<1>5. CASE ~(p.isInQuotes /\ c \in {Quote, End}) /\ ~(~p.isInQuotes /\ c \in Blank)
             /\ ~(~p.isInQuotes /\ c = ";") /\ ~(~p.isInQuotes /\ c = Quote)
  <2>1. NextInArg(p, c) = [p EXCEPT !.arg = Append(@, c)]
    BY <1>5, Zenon DEF NextInArg
  <2>2. p.isInQuotes \in BOOLEAN
    BY StateParts
  <2>3. c \in X \ {Quote}
    BY <1>5, <2>2, Zenon DEF Blank
  <2> DEFINE arg == Append(p.arg, c)
  <2>4. arg \in Seq(X \ {Quote})
    BY <2>3, AppendProperties
  <2>5. NextInArg(p, c) = [p EXCEPT !.arg = arg]
    BY <2>1
  <2> HIDE DEF arg
  <2> QED BY <2>4, <2>5 DEF States
<1> QED BY <1>1, <1>2, <1>3, <1>4, <1>5, Zenon

LEMMA NextCharType ==
    ASSUME NEW X, IsAlphabet(X), NEW p \in States(X), NEW c \in X \cup {End}
    PROVE  NextChar(p, c) \in States(X)
<1>1. CASE p.arg = NotInArg /\ c \in Blank
  <2>1. NextChar(p, c) = p
    BY <1>1, Characters, Zenon DEF NextChar, Blank
  <2> QED BY <2>1
<1>2. CASE p.arg = NotInArg /\ c = ";"
  <2>1. NextChar(p, c) = EndCommand(p)
    BY <1>2, Characters, Zenon DEF NextChar, Blank
  <2> QED BY <2>1, EndCommandType
<1>3. CASE p.arg = NotInArg /\ c \notin Blank \cup {";"}
  <2> DEFINE q == [p EXCEPT !.arg = <<>>]
  <2>1. NextChar(p, c) = NextInArg(q, c)
    BY <1>3, Zenon DEF NextChar
  <2>2. <<>> \in Seq(X \ {Quote})
    BY EmptySeq
  <2>3. q \in States(X) /\ q.arg \in Seq(X \ {Quote})
    BY <2>2 DEF States
  <2> HIDE DEF q
  <2> QED BY <2>1, <2>3, InArgType
<1>4. CASE p.arg # NotInArg
  <2>1. NextChar(p, c) = NextInArg(p, c)
    BY <1>4, Zenon DEF NextChar
  <2>2. p.arg \in Seq(X \ {Quote})
    BY <1>4, StateParts
  <2> QED BY <2>1, <2>2, InArgType
<1> QED BY <1>1, <1>2, <1>3, <1>4, Zenon

LEMMA ParserMachine ==
    ASSUME NEW X, IsAlphabet(X)
    PROVE  IsMachine(Parser(X), States(X), X \cup {End}) /\ Begun \in States(X)
<1>1. \A p \in States(X), c \in X \cup {End} : NextChar(p, c) \in States(X)
  BY NextCharType
<1>2. <<>> \in Seq(CmdsOver(X)) /\ <<>> \in Seq(ArgsOver(X))
  BY EmptySeq
<1>3. Begun \in States(X)
  BY <1>2 DEF Begun, States
<1> QED BY <1>1, <1>3 DEF Parser, IsMachine

LEMMA ParsedIsRun ==
    ASSUME NEW X, IsAlphabet(X), NEW seq \in Seq(X \cup {End})
    PROVE  Parsed(seq) = Run(Parser(X), Begun, seq, States(X))
<1> DEFINE V == States(X)
           C == X \cup {End}
           G == Parser(X)
           base == Begun
           Op(p, c) == NextChar(p, c)
           Step(g) == [u \in SUBSET DOMAIN seq |->
                         IF u = {} THEN base ELSE Op(g[u \ {Max(u)}], seq[Max(u)])]
           it == CHOOSE g : g = Step(g)
<1>1. Parsed(seq) = it[DOMAIN seq]
  BY Zenon DEF Parsed, FoldLeft, MapThenFoldSet
<1>2. IsMachine(G, V, C) /\ base \in V /\ seq \in Seq(C)
  BY ParserMachine
<1>0. ASSUME NEW p \in V, NEW c \in C PROVE G[p][c] = Op(p, c)
  BY DEF Parser
<1> HIDE DEF V, C, G, Op, base
<1>3. PICK h : Iterator(h, G, base, seq, V, C)
  BY <1>2, LeftIterator
<1>4. h = Step(h)
  <2>1. ASSUME NEW u \in SUBSET DOMAIN seq, u # {} PROVE h[u] = Op(h[u \ {Max(u)}], seq[Max(u)])
    BY <1>0, <1>3, <2>1, Zenon DEF Iterator
  <2>2. \A u \in SUBSET (DOMAIN seq) :
          h[u] = IF u = {} THEN base ELSE Op(h[u \ {Max(u)}], seq[Max(u)])
    BY <2>1, <1>3, Zenon DEF Iterator
  <2>3. h = [u \in SUBSET (DOMAIN seq) |-> h[u]]
    BY <1>3, Zenon DEF Iterator
  <2> QED BY <2>2, <2>3, Zenon
<1>5. it = Step(it)
  <2> HIDE DEF Step
  <2> QED BY <1>4
<1> HIDE DEF it
<1>6. Folding(it, G, base, seq, V)
  <2>1. it[{}] = base
    <3>1. {} \in SUBSET DOMAIN seq
      OBVIOUS
    <3> QED BY <3>1, <1>5, Zenon
  <2>2. ASSUME NEW u \in SUBSET DOMAIN seq, u # {}, it[u \ {Max(u)}] \in V
        PROVE  it[u] = G[it[u \ {Max(u)}]][seq[Max(u)]]
    <3>1. it[u] = Op(it[u \ {Max(u)}], seq[Max(u)])
      BY <1>5, <2>2
    <3> QED BY <3>1, <1>0, <1>3, <2>2, Zenon DEF Iterator
  <2> QED BY <2>1, <2>2 DEF Folding
<1> HIDE DEF Step
<1>7. it[DOMAIN seq] = Run(G, base, seq, V)
  BY <1>2, <1>6, LeftFolds
<1> QED BY <1>1, <1>7 DEF G, V, base

\* The parser, character by character.
LEMMA ParsedLaws ==
    ASSUME NEW X, IsAlphabet(X)
    PROVE  /\ Parsed(<<>>) = Begun
           /\ \A s \in Seq(X \cup {End}) : Parsed(s) \in States(X)
           /\ \A s \in Seq(X \cup {End}), c \in X \cup {End} :
                Parsed(Append(s, c)) = NextChar(Parsed(s), c)
<1> DEFINE V == States(X)  C == X \cup {End}  G == Parser(X)
<1>1. IsMachine(G, V, C) /\ Begun \in V
  BY ParserMachine
<1>2. \A s \in Seq(C) : Parsed(s) = Run(G, Begun, s, V)
  BY ParsedIsRun
<1>3. ASSUME NEW p \in V, NEW c \in C PROVE G[p][c] = NextChar(p, c)
  BY DEF Parser
<1>4. \A s \in Seq(C), c \in C : Append(s, c) \in Seq(C)
  BY AppendProperties
<1>5. <<>> \in Seq(C)
  BY EmptySeq
<1> HIDE DEF V, C, G
<1>6. Run(G, Begun, <<>>, V) = Begun
  BY <1>1, RunEmpty
<1>7. ASSUME NEW s \in Seq(C) PROVE Parsed(s) \in V
  BY <1>1, <1>2, RunType
<1>8. ASSUME NEW s \in Seq(C), NEW c \in C PROVE Parsed(Append(s, c)) = NextChar(Parsed(s), c)
  <2>1. Run(G, Begun, Append(s, c), V) = G[Run(G, Begun, s, V)][c]
    BY <1>1, RunAppend
  <2>2. Parsed(Append(s, c)) = G[Parsed(s)][c]
    BY <2>1, <1>2, <1>4
  <2> QED BY <2>2, <1>3, <1>7
<1>9. Parsed(<<>>) = Begun
  BY <1>2, <1>5, <1>6, Zenon
<1> QED BY <1>7, <1>8, <1>9, Zenon DEF V, C

-----------------------------------------------------------------------------
(* The texts of arguments and commands. *)

\* What is put behind a text for one more argument, and for one more command.
Spaced(s, arg) == s \o (IF s = <<>> THEN <<>> ELSE <<" ">>) \o ArgToString(arg)

Ended(s, cmd) == s \o CmdToString(cmd) \o <<";", " ">>

ArgPrinter(X) == [s \in Seq(X) |-> [arg \in ArgsOver(X) |-> Spaced(s, arg)]]

CmdPrinter(X) == [s \in Seq(X) |-> [cmd \in CmdsOver(X) |-> Ended(s, cmd)]]

\* A short text of the alphabet.
LEMMA ShortTexts ==
    ASSUME NEW X, IsAlphabet(X)
    PROVE  <<>> \in Seq(X) /\ <<Quote>> \in Seq(X) /\ <<" ">> \in Seq(X) /\ <<";", " ">> \in Seq(X)
<1>1. Quote \in X /\ " " \in X /\ ";" \in X
  BY Zenon DEF IsAlphabet
<1>2. \A x, y \in X : <<x>> \in Seq(X) /\ <<x, y>> \in Seq(X)
  OBVIOUS
<1> QED BY <1>1, <1>2, EmptySeq, Zenon

\* A quoted argument is a text of the alphabet.
LEMMA ArgTextType ==
    ASSUME NEW X, IsAlphabet(X), NEW arg \in ArgsOver(X)
    PROVE  arg \in Seq(X) /\ ArgToString(arg) \in Seq(X)
<1>1. arg \in Seq(X)
  <2>1. arg \in Seq(X \ {Quote}) /\ X \ {Quote} \subseteq X
    BY DEF ArgsOver
  <2> HIDE DEF IsAlphabet
  <2> QED BY <2>1, SeqMonotonic
<1> DEFINE q == <<Quote>>
<1>2. q \in Seq(X)
  BY ShortTexts, Zenon
<1> HIDE DEF q
<1>3. q \o arg \o q \in Seq(X)
  BY <1>1, <1>2, ConcatProperties
<1> QED BY <1>1, <1>3 DEF ArgToString, q

LEMMA SpacedType ==
    ASSUME NEW X, IsAlphabet(X), NEW s \in Seq(X), NEW arg \in ArgsOver(X)
    PROVE  Spaced(s, arg) \in Seq(X)
<1> DEFINE b == IF s = <<>> THEN <<>> ELSE <<" ">>  a == ArgToString(arg)
<1>1. b \in Seq(X) /\ a \in Seq(X)
  BY ShortTexts, ArgTextType, Zenon
<1> HIDE DEF a, b
<1>2. s \o b \o a \in Seq(X)
  BY <1>1, ConcatProperties
<1> QED BY <1>2, Zenon DEF Spaced, a, b

LEMMA ArgPrinterMachine ==
    ASSUME NEW X, IsAlphabet(X)
    PROVE  IsMachine(ArgPrinter(X), Seq(X), ArgsOver(X)) /\ <<>> \in Seq(X)
<1>1. \A s \in Seq(X), arg \in ArgsOver(X) : Spaced(s, arg) \in Seq(X)
  BY SpacedType
<1> QED BY <1>1, EmptySeq DEF ArgPrinter, IsMachine

LEMMA CmdTextIsRun ==
    ASSUME NEW X, IsAlphabet(X), NEW seq \in Seq(ArgsOver(X))
    PROVE  CmdToString(seq) = Run(ArgPrinter(X), <<>>, seq, Seq(X))
<1> DEFINE V == Seq(X)
           C == ArgsOver(X)
           G == ArgPrinter(X)
           base == <<>>
           Op(s, arg) == Spaced(s, arg)
           Step(g) == [u \in SUBSET DOMAIN seq |->
                         IF u = {} THEN base ELSE Op(g[u \ {Max(u)}], seq[Max(u)])]
           it == CHOOSE g : g = Step(g)
<1>1. CmdToString(seq) = it[DOMAIN seq]
  BY Zenon DEF CmdToString, Spaced, FoldLeft, MapThenFoldSet
<1>2. IsMachine(G, V, C) /\ base \in V /\ seq \in Seq(C)
  BY ArgPrinterMachine
<1>0. ASSUME NEW s \in V, NEW arg \in C PROVE G[s][arg] = Op(s, arg)
  BY DEF ArgPrinter
<1> HIDE DEF V, C, G, Op, base
<1>3. PICK h : Iterator(h, G, base, seq, V, C)
  BY <1>2, LeftIterator
<1>4. h = Step(h)
  <2>1. ASSUME NEW u \in SUBSET DOMAIN seq, u # {} PROVE h[u] = Op(h[u \ {Max(u)}], seq[Max(u)])
    BY <1>0, <1>3, <2>1, Zenon DEF Iterator
  <2>2. \A u \in SUBSET (DOMAIN seq) :
          h[u] = IF u = {} THEN base ELSE Op(h[u \ {Max(u)}], seq[Max(u)])
    BY <2>1, <1>3, Zenon DEF Iterator
  <2>3. h = [u \in SUBSET (DOMAIN seq) |-> h[u]]
    BY <1>3, Zenon DEF Iterator
  <2> QED BY <2>2, <2>3, Zenon
<1>5. it = Step(it)
  <2> HIDE DEF Step
  <2> QED BY <1>4
<1> HIDE DEF it
<1>6. Folding(it, G, base, seq, V)
  <2>1. it[{}] = base
    <3>1. {} \in SUBSET DOMAIN seq
      OBVIOUS
    <3> QED BY <3>1, <1>5, Zenon
  <2>2. ASSUME NEW u \in SUBSET DOMAIN seq, u # {}, it[u \ {Max(u)}] \in V
        PROVE  it[u] = G[it[u \ {Max(u)}]][seq[Max(u)]]
    <3>1. it[u] = Op(it[u \ {Max(u)}], seq[Max(u)])
      BY <1>5, <2>2
    <3> QED BY <3>1, <1>0, <1>3, <2>2, Zenon DEF Iterator
  <2> QED BY <2>1, <2>2 DEF Folding
<1> HIDE DEF Step
<1>7. it[DOMAIN seq] = Run(G, base, seq, V)
  BY <1>2, <1>6, LeftFolds
<1> QED BY <1>1, <1>7 DEF G, V, base

\* The text of a command, argument by argument.
LEMMA CmdTextLaws ==
    ASSUME NEW X, IsAlphabet(X)
    PROVE  /\ CmdToString(<<>>) = <<>>
           /\ \A s \in Seq(ArgsOver(X)) : CmdToString(s) \in Seq(X)
           /\ \A s \in Seq(ArgsOver(X)), arg \in ArgsOver(X) :
                CmdToString(Append(s, arg)) = Spaced(CmdToString(s), arg)
<1> DEFINE V == Seq(X)  C == ArgsOver(X)  G == ArgPrinter(X)  base == <<>>
<1>1. IsMachine(G, V, C) /\ base \in V
  BY ArgPrinterMachine
<1>2. \A s \in Seq(C) : CmdToString(s) = Run(G, base, s, V)
  BY CmdTextIsRun
<1>3. ASSUME NEW p \in V, NEW arg \in C PROVE G[p][arg] = Spaced(p, arg)
  BY DEF ArgPrinter
<1>4. \A s \in Seq(C), arg \in C : Append(s, arg) \in Seq(C)
  BY AppendProperties
<1>5. <<>> \in Seq(C)
  BY EmptySeq
<1> HIDE DEF V, C, G, base
<1>6. Run(G, base, <<>>, V) = base
  BY <1>1, RunEmpty
<1>7. ASSUME NEW s \in Seq(C) PROVE CmdToString(s) \in V
  BY <1>1, <1>2, RunType
<1>8. ASSUME NEW s \in Seq(C), NEW arg \in C
      PROVE  CmdToString(Append(s, arg)) = Spaced(CmdToString(s), arg)
  <2>1. Run(G, base, Append(s, arg), V) = G[Run(G, base, s, V)][arg]
    BY <1>1, RunAppend
  <2>2. CmdToString(Append(s, arg)) = G[CmdToString(s)][arg]
    BY <2>1, <1>2, <1>4
  <2> QED BY <2>2, <1>3, <1>7
<1>9. CmdToString(<<>>) = base
  BY <1>2, <1>5, <1>6, Zenon
<1> QED BY <1>7, <1>8, <1>9, Zenon DEF V, C, base

LEMMA EndedType ==
    ASSUME NEW X, IsAlphabet(X), NEW s \in Seq(X), NEW cmd \in CmdsOver(X)
    PROVE  CmdToString(cmd) \in Seq(X) /\ Ended(s, cmd) \in Seq(X)
<1> DEFINE b == <<";", " ">>  a == CmdToString(cmd)
<1>1. cmd \in Seq(ArgsOver(X))
  BY DEF CmdsOver
<1>2. b \in Seq(X) /\ a \in Seq(X)
  BY <1>1, ShortTexts, CmdTextLaws, Zenon
<1> HIDE DEF a, b
<1>3. s \o a \o b \in Seq(X)
  BY <1>2, ConcatProperties
<1> QED BY <1>2, <1>3, Zenon DEF Ended, a, b

LEMMA CmdPrinterMachine ==
    ASSUME NEW X, IsAlphabet(X)
    PROVE  IsMachine(CmdPrinter(X), Seq(X), CmdsOver(X)) /\ <<>> \in Seq(X)
<1>1. \A s \in Seq(X), cmd \in CmdsOver(X) : Ended(s, cmd) \in Seq(X)
  BY EndedType
<1> QED BY <1>1, EmptySeq DEF CmdPrinter, IsMachine

LEMMA CmdsTextIsRun ==
    ASSUME NEW X, IsAlphabet(X), NEW seq \in Seq(CmdsOver(X))
    PROVE  CmdsToString(seq) = Run(CmdPrinter(X), <<>>, seq, Seq(X))
<1> DEFINE V == Seq(X)
           C == CmdsOver(X)
           G == CmdPrinter(X)
           base == <<>>
           Op(s, cmd) == Ended(s, cmd)
           Step(g) == [u \in SUBSET DOMAIN seq |->
                         IF u = {} THEN base ELSE Op(g[u \ {Max(u)}], seq[Max(u)])]
           it == CHOOSE g : g = Step(g)
<1>1. CmdsToString(seq) = it[DOMAIN seq]
  BY Zenon DEF CmdsToString, Ended, FoldLeft, MapThenFoldSet
<1>2. IsMachine(G, V, C) /\ base \in V /\ seq \in Seq(C)
  BY CmdPrinterMachine
<1>0. ASSUME NEW s \in V, NEW cmd \in C PROVE G[s][cmd] = Op(s, cmd)
  BY DEF CmdPrinter
<1> HIDE DEF V, C, G, Op, base
<1>3. PICK h : Iterator(h, G, base, seq, V, C)
  BY <1>2, LeftIterator
<1>4. h = Step(h)
  <2>1. ASSUME NEW u \in SUBSET DOMAIN seq, u # {} PROVE h[u] = Op(h[u \ {Max(u)}], seq[Max(u)])
    BY <1>0, <1>3, <2>1, Zenon DEF Iterator
  <2>2. \A u \in SUBSET (DOMAIN seq) :
          h[u] = IF u = {} THEN base ELSE Op(h[u \ {Max(u)}], seq[Max(u)])
    BY <2>1, <1>3, Zenon DEF Iterator
  <2>3. h = [u \in SUBSET (DOMAIN seq) |-> h[u]]
    BY <1>3, Zenon DEF Iterator
  <2> QED BY <2>2, <2>3, Zenon
<1>5. it = Step(it)
  <2> HIDE DEF Step
  <2> QED BY <1>4
<1> HIDE DEF it
<1>6. Folding(it, G, base, seq, V)
  <2>1. it[{}] = base
    <3>1. {} \in SUBSET DOMAIN seq
      OBVIOUS
    <3> QED BY <3>1, <1>5, Zenon
  <2>2. ASSUME NEW u \in SUBSET DOMAIN seq, u # {}, it[u \ {Max(u)}] \in V
        PROVE  it[u] = G[it[u \ {Max(u)}]][seq[Max(u)]]
    <3>1. it[u] = Op(it[u \ {Max(u)}], seq[Max(u)])
      BY <1>5, <2>2
    <3> QED BY <3>1, <1>0, <1>3, <2>2, Zenon DEF Iterator
  <2> QED BY <2>1, <2>2 DEF Folding
<1> HIDE DEF Step
<1>7. it[DOMAIN seq] = Run(G, base, seq, V)
  BY <1>2, <1>6, LeftFolds
<1> QED BY <1>1, <1>7 DEF G, V, base

\* The text of commands, command by command.
LEMMA CmdsTextLaws ==
    ASSUME NEW X, IsAlphabet(X)
    PROVE  /\ CmdsToString(<<>>) = <<>>
           /\ \A s \in Seq(CmdsOver(X)) : CmdsToString(s) \in Seq(X)
           /\ \A s \in Seq(CmdsOver(X)), cmd \in CmdsOver(X) :
                CmdsToString(Append(s, cmd)) = Ended(CmdsToString(s), cmd)
<1> DEFINE V == Seq(X)  C == CmdsOver(X)  G == CmdPrinter(X)  base == <<>>
<1>1. IsMachine(G, V, C) /\ base \in V
  BY CmdPrinterMachine
<1>2. \A s \in Seq(C) : CmdsToString(s) = Run(G, base, s, V)
  BY CmdsTextIsRun
<1>3. ASSUME NEW p \in V, NEW cmd \in C PROVE G[p][cmd] = Ended(p, cmd)
  BY DEF CmdPrinter
<1>4. \A s \in Seq(C), cmd \in C : Append(s, cmd) \in Seq(C)
  BY AppendProperties
<1>5. <<>> \in Seq(C)
  BY EmptySeq
<1> HIDE DEF V, C, G, base
<1>6. Run(G, base, <<>>, V) = base
  BY <1>1, RunEmpty
<1>7. ASSUME NEW s \in Seq(C) PROVE CmdsToString(s) \in V
  BY <1>1, <1>2, RunType
<1>8. ASSUME NEW s \in Seq(C), NEW cmd \in C
      PROVE  CmdsToString(Append(s, cmd)) = Ended(CmdsToString(s), cmd)
  <2>1. Run(G, base, Append(s, cmd), V) = G[Run(G, base, s, V)][cmd]
    BY <1>1, RunAppend
  <2>2. CmdsToString(Append(s, cmd)) = G[CmdsToString(s)][cmd]
    BY <2>1, <1>2, <1>4
  <2> QED BY <2>2, <1>3, <1>7
<1>9. CmdsToString(<<>>) = base
  BY <1>2, <1>5, <1>6, Zenon
<1> QED BY <1>7, <1>8, <1>9, Zenon DEF V, C, base

-----------------------------------------------------------------------------
(* The texts are parsed. *)

\* Between arguments.
LEMMA IdleSteps ==
    ASSUME NEW cmds, NEW args
    PROVE  /\ \A c \in Blank : NextChar(Between(cmds, args), c) = Between(cmds, args)
           /\ NextChar(Between(cmds, args), ";") =
                IF args = <<>> THEN Between(cmds, args) ELSE Between(Append(cmds, args), <<>>)
           /\ NextChar(Between(cmds, args), Quote) = Quoted(cmds, args, <<>>)
           /\ EndCommand(Between(cmds, args)).cmds = IF args = <<>> THEN cmds ELSE Append(cmds, args)
<1> DEFINE p == Between(cmds, args)
<1>1. /\ p.cmds = cmds /\ p.args = args /\ p.arg = NotInArg /\ p.isInQuotes = FALSE
  BY DEF Between
<1>2. EndCommand(p) = IF args = <<>> THEN Between(cmds, args) ELSE Between(Append(cmds, args), <<>>)
  <2>1. CASE args = <<>>
    BY <2>1, <1>1 DEF EndCommand
  <2>2. CASE args # <<>>
    <3>1. EndCommand(p) = [p EXCEPT !.cmds = Append(@, p.args), !.args = <<>>]
      BY <2>2, <1>1 DEF EndCommand
    <3>2. EndCommand(p) = Between(Append(cmds, args), <<>>)
      BY <3>1 DEF Between
    <3> QED BY <3>2, <2>2
  <2> QED BY <2>1, <2>2
<1>3. ASSUME NEW c \in Blank PROVE NextChar(p, c) = p
  BY <1>1, Characters, Zenon DEF NextChar, Blank
<1>4. NextChar(p, ";") = EndCommand(p)
  BY <1>1, Characters, Zenon DEF NextChar, Blank
<1>5. NextChar(p, Quote) = Quoted(cmds, args, <<>>)
  <2>1. PICK q : q = [p EXCEPT !.arg = <<>>]
    OBVIOUS
  <2>2. NextChar(p, Quote) = NextInArg(q, Quote)
    BY <1>1, <2>1, Characters, Zenon DEF NextChar, Blank
  <2>3. q = [cmds |-> cmds, args |-> args, arg |-> <<>>, isInQuotes |-> FALSE]
    BY <2>1 DEF Between
  <2>4. NextInArg(q, Quote) = [q EXCEPT !.isInQuotes = TRUE, !.arg = <<>>]
    BY <2>3, Characters, Zenon DEF NextInArg, Blank
  <2>5. NextInArg(q, Quote) = Quoted(cmds, args, <<>>)
    BY <2>3, <2>4 DEF Quoted
  <2> QED BY <2>2, <2>5
<1>6. EndCommand(p).cmds = IF args = <<>> THEN cmds ELSE Append(cmds, args)
  <2>1. \A cs, as : Between(cs, as).cmds = cs
    BY DEF Between
  <2> HIDE DEF p
  <2> QED BY <1>2, <2>1
<1> HIDE DEF p
<1> QED BY <1>2, <1>3, <1>4, <1>5, <1>6, Zenon DEF p

\* Inside of quotes.
LEMMA QuotedSteps ==
    ASSUME NEW X, IsAlphabet(X), NEW cmds, NEW args, NEW arg \in Seq(X \ {Quote})
    PROVE  /\ \A c \in X \ {Quote} :
                NextChar(Quoted(cmds, args, arg), c) = Quoted(cmds, args, Append(arg, c))
           /\ arg # <<>> =>
                NextChar(Quoted(cmds, args, arg), Quote) = Between(cmds, Append(args, arg))
<1> DEFINE p == Quoted(cmds, args, arg)
<1>1. /\ p.cmds = cmds /\ p.args = args /\ p.arg = arg /\ p.isInQuotes = TRUE
  BY DEF Quoted
<1>2. arg # NotInArg
  <2>1. "none" \notin X \ {Quote}
    BY Zenon DEF IsAlphabet
  <2> QED BY <2>1, NoArgument
<1>3. \A c : NextChar(p, c) = NextInArg(p, c)
  BY <1>1, <1>2, Zenon DEF NextChar
<1>4. ASSUME NEW c \in X \ {Quote}
      PROVE  NextInArg(p, c) = Quoted(cmds, args, Append(arg, c))
  <2>1. c # Quote /\ c # End
    BY Zenon DEF IsAlphabet
  <2>2. NextInArg(p, c) = [p EXCEPT !.arg = Append(@, c)]
    BY <1>1, <2>1, Zenon DEF NextInArg
  <2> QED BY <2>2 DEF Quoted
<1>5. ASSUME arg # <<>> PROVE NextInArg(p, Quote) = Between(cmds, Append(args, arg))
  <2>1. NextInArg(p, Quote) = EndArg(p)
    BY <1>1, Zenon DEF NextInArg
  <2>2. EndArg(p) = [p EXCEPT !.args = Append(args, arg), !.arg = NotInArg, !.isInQuotes = FALSE]
    BY <1>1, <1>5 DEF EndArg
  <2> QED BY <2>1, <2>2 DEF Quoted, Between
<1> QED BY <1>3, <1>4, <1>5

\* Behind a text that ends between arguments a quoted argument is one more.
LEMMA ArgRead ==
    ASSUME NEW X, IsAlphabet(X), NEW s \in Seq(X), NEW cmds, NEW args,
           Parsed(s) = Between(cmds, args), NEW arg \in ArgsOver(X)
    PROVE  Parsed(s \o ArgToString(arg)) = Between(cmds, Append(args, arg))
<1> DEFINE C == X \cup {End}
           q == <<Quote>>
           P(u) == Parsed((s \o q) \o u) = Quoted(cmds, args, u)
           T == {u \in Seq(X \ {Quote}) : P(u)}
<1>0. /\ Quote \in X /\ q \in Seq(X) /\ X \subseteq C /\ X \ {Quote} \subseteq X
      /\ \A u \in Seq(X) : u \in Seq(C)
      /\ \A u \in Seq(X \ {Quote}) : u \in Seq(X)
  <2>1. Quote \in X /\ q \in Seq(X)
    BY ShortTexts, Zenon DEF IsAlphabet
  <2>2. X \subseteq C /\ X \ {Quote} \subseteq X
    OBVIOUS
  <2> HIDE DEF C
  <2>3. \A u \in Seq(X) : u \in Seq(C)
    BY <2>2, SeqMonotonic
  <2>4. \A u \in Seq(X \ {Quote}) : u \in Seq(X)
    BY <2>2, SeqMonotonic
  <2> QED BY <2>1, <2>2, <2>3, <2>4
<1>1. \A u \in Seq(C), c \in C : Parsed(Append(u, c)) = NextChar(Parsed(u), c)
  BY ParsedLaws
<1>2. Parsed(s \o q) = Quoted(cmds, args, <<>>) /\ s \o q \in Seq(X)
  <2>1. s \o q = Append(s, Quote)
    BY <1>0, AppendIsConcat
  <2>2. Parsed(Append(s, Quote)) = NextChar(Parsed(s), Quote)
    BY <1>0, <1>1
  <2>3. s \o q \in Seq(X)
    BY <1>0, ConcatProperties
  <2> QED BY <2>1, <2>2, <2>3, IdleSteps, Zenon
<1> HIDE DEF C, q
<1>3. <<>> \in T
  <2>1. (s \o q) \o <<>> = s \o q /\ <<>> \in Seq(X \ {Quote})
    BY <1>2, ConcatEmptySeq, EmptySeq
  <2> QED BY <2>1, <1>2
<1>4. ASSUME NEW u \in T, NEW c \in X \ {Quote} PROVE Append(u, c) \in T
  <2>1. u \in Seq(X \ {Quote}) /\ P(u)
    OBVIOUS
  <2>2. Append(u, c) \in Seq(X \ {Quote})
    BY AppendProperties
  <2>3. (s \o q) \o Append(u, c) = Append((s \o q) \o u, c)
    <3>1. u \in Seq(X) /\ c \in X
      BY <2>1, <1>0
    <3> HIDE DEF T
    <3> DEFINE v == s \o q
    <3>2. v \in Seq(X)
      BY <1>2
    <3> HIDE DEF v
    <3>3. Append(u, c) = u \o <<c>> /\ <<c>> \in Seq(X) /\ Append(v \o u, c) = (v \o u) \o <<c>>
      BY <3>1, <3>2, AppendIsConcat, ConcatProperties
    <3>4. v \o (u \o <<c>>) = (v \o u) \o <<c>>
      BY <3>1, <3>2, <3>3, ConcatAssociative
    <3> QED BY <3>3, <3>4 DEF v
  <2>4. Parsed(Append((s \o q) \o u, c)) = NextChar(Parsed((s \o q) \o u), c)
    <3>1. (s \o q) \o u \in Seq(X)
      BY <2>1, <1>0, <1>2, ConcatProperties
    <3> QED BY <3>1, <1>0, <1>1
  <2>5. NextChar(Quoted(cmds, args, u), c) = Quoted(cmds, args, Append(u, c))
    BY <2>1, QuotedSteps
  <2>6. P(Append(u, c))
    BY <2>1, <2>3, <2>4, <2>5, Zenon
  <2> QED BY <2>2, <2>6
<1>5. T = Seq(X \ {Quote})
  <2> HIDE DEF T
  <2>1. T \in SUBSET Seq(X \ {Quote})
    BY DEF T
  <2> QED BY <2>1, <1>3, <1>4, SeqInduction
<1>6. arg \in Seq(X \ {Quote}) /\ arg # <<>> /\ P(arg)
  <2>1. arg \in Seq(X \ {Quote}) /\ arg # <<>>
    BY DEF ArgsOver
  <2> QED BY <2>1, <1>5
<1> DEFINE w == (s \o q) \o arg
<1>7. w \in Seq(X) /\ Parsed(w) = Quoted(cmds, args, arg)
  BY <1>0, <1>2, <1>6, ConcatProperties
<1>8. s \o ArgToString(arg) = Append(w, Quote)
  <2>1. arg \in Seq(X)
    BY <1>0, <1>6
  <2>2. ArgToString(arg) = (q \o arg) \o q
    BY Zenon DEF ArgToString, q
  <2>3. Append(w, Quote) = w \o q
    BY <1>0, <1>7, AppendIsConcat DEF q
  <2>4. q \o arg \in Seq(X)
    BY <2>1, <1>0, ConcatProperties
  <2>5. s \o ((q \o arg) \o q) = (s \o (q \o arg)) \o q
    <3> DEFINE v == q \o arg
    <3> HIDE DEF v, w
    <3>1. v \in Seq(X) /\ q \in Seq(X)
      BY <2>4, <1>0 DEF v
    <3>2. s \o (v \o q) = (s \o v) \o q
      BY <3>1, ConcatAssociative
    <3> QED BY <3>2 DEF v
  <2>6. s \o (q \o arg) = w
    BY <2>1, <1>0, ConcatAssociative
  <2> QED BY <2>2, <2>3, <2>5, <2>6
<1> HIDE DEF w
<1>9. Parsed(Append(w, Quote)) = NextChar(Quoted(cmds, args, arg), Quote)
  BY <1>0, <1>1, <1>7
<1> QED BY <1>6, <1>8, <1>9, QuotedSteps

\* How sequences are put together, as facts with a name.
Assoc(s, t, u) == (s \o t) \o u = s \o (t \o u)

FourAssoc(s, t, b, a) == s \o ((t \o b) \o a) = ((s \o t) \o b) \o a

TwoMore(s, x, y) == s \o <<x, y>> = Append(Append(s, x), y)

LEMMA Associates ==
    ASSUME NEW X, NEW s \in Seq(X), NEW t \in Seq(X), NEW u \in Seq(X)
    PROVE  Assoc(s, t, u)
BY DEF Assoc

LEMMA FourAssociate ==
    ASSUME NEW X, NEW s \in Seq(X), NEW t \in Seq(X), NEW b \in Seq(X), NEW a \in Seq(X)
    PROVE  FourAssoc(s, t, b, a)
<1> DEFINE w == t \o b
<1>1. w \in Seq(X)
  BY ConcatProperties
<1>2. Assoc(s, t, b)
  BY Associates
<1> HIDE DEF w
<1>3. Assoc(s, w, a)
  BY <1>1, Associates
<1> QED BY <1>2, <1>3, Zenon DEF w, Assoc, FourAssoc

LEMMA TwoAppended ==
    ASSUME NEW X, NEW s \in Seq(X), NEW x \in X, NEW y \in X
    PROVE  TwoMore(s, x, y)
BY DEF TwoMore

\* The commands that are made of a text.
LEMMA ParseCmdsIs ==
    ASSUME NEW X, IsAlphabet(X), NEW text \in Seq(X)
    PROVE  ParseCmds(text) = EndCommand(NextChar(Parsed(text), End)).cmds
<1> DEFINE C == X \cup {End}
<1>1. text \in Seq(C) /\ End \in C
  <2>1. X \subseteq C /\ End \in C
    OBVIOUS
  <2> HIDE DEF C
  <2> QED BY <2>1, SeqMonotonic
<1>2. Parsed(Append(text, End)) = NextChar(Parsed(text), End)
  BY <1>1, ParsedLaws
<1>3. ParseCmds(text) = EndCommand(Parsed(Append(text, End))).cmds
  BY Zenon DEF ParseCmds, Parsed
<1> QED BY <1>2, <1>3

\* One more character of the alphabet.
LEMMA ReadChar ==
    ASSUME NEW X, IsAlphabet(X), NEW s \in Seq(X), NEW c \in X
    PROVE  /\ Parsed(s) \in States(X)
           /\ Parsed(Append(s, c)) = NextChar(Parsed(s), c)
           /\ Append(s, c) \in Seq(X)
<1> DEFINE C == X \cup {End}
<1>1. s \in Seq(C) /\ c \in C
  <2>1. X \subseteq C
    OBVIOUS
  <2> HIDE DEF C
  <2> QED BY <2>1, SeqMonotonic
<1>2. Append(s, c) \in Seq(X)
  BY AppendProperties
<1> QED BY <1>1, <1>2, ParsedLaws

\* Behind a text that ends between two commands the text of a command is its arguments.
LEMMA CmdRead ==
    ASSUME NEW X, IsAlphabet(X), NEW s \in Seq(X), NEW cmds, Parsed(s) = Between(cmds, <<>>),
           NEW cmd \in Seq(ArgsOver(X))
    PROVE  Parsed(s \o CmdToString(cmd)) = Between(cmds, cmd)
<1> DEFINE P(args) == Parsed(s \o CmdToString(args)) = Between(cmds, args)
           T == {args \in Seq(ArgsOver(X)) : P(args)}
<1>0. /\ CmdToString(<<>>) = <<>>
      /\ \A args \in Seq(ArgsOver(X)) : CmdToString(args) \in Seq(X)
      /\ \A args \in Seq(ArgsOver(X)), arg \in ArgsOver(X) :
            CmdToString(Append(args, arg)) = Spaced(CmdToString(args), arg)
  BY CmdTextLaws
<1>1. <<>> \in T
  <2>1. s \o <<>> = s /\ <<>> \in Seq(ArgsOver(X))
    BY ConcatEmptySeq, EmptySeq
  <2> QED BY <2>1, <1>0, Zenon
<1>2. ASSUME NEW args \in T, NEW arg \in ArgsOver(X) PROVE Append(args, arg) \in T
  <2> DEFINE t == CmdToString(args)
             b == IF t = <<>> THEN <<>> ELSE <<" ">>
             a == ArgToString(arg)
             u == s \o t
             v == u \o b
  <2>1. args \in Seq(ArgsOver(X)) /\ P(args)
    OBVIOUS
  <2>2. Append(args, arg) \in Seq(ArgsOver(X))
    BY <2>1, AppendProperties
  <2>3. t \in Seq(X) /\ b \in Seq(X) /\ a \in Seq(X)
    BY <2>1, <1>0, ShortTexts, ArgTextType, Zenon
  <2>4. u \in Seq(X) /\ Parsed(u) = Between(cmds, args)
    <3> HIDE DEF t
    <3>1. u \in Seq(X)
      BY <2>3, ConcatProperties, Zenon
    <3> QED BY <3>1, <2>1 DEF t
  <2>5. v \in Seq(X) /\ Parsed(v) = Between(cmds, args)
    <3>1. CASE t = <<>>
      <4>1. u \o <<>> = u /\ b = <<>>
        BY <3>1, <2>4, ConcatEmptySeq
      <4> QED BY <4>1, <2>4, Zenon
    <3>2. CASE t # <<>>
      <4>1. " " \in X /\ " " \in Blank
        BY Zenon DEF IsAlphabet, Blank
      <4>2. Parsed(Append(u, " ")) = NextChar(Between(cmds, args), " ") /\ Append(u, " ") \in Seq(X)
        BY <2>4, <4>1, ReadChar, Zenon
      <4>3. Parsed(Append(u, " ")) = Between(cmds, args)
        BY <4>1, <4>2, IdleSteps, Zenon
      <4>4. Append(u, " ") = u \o <<" ">>
        BY <4>1, <2>4, AppendIsConcat, Zenon
      <4> QED BY <4>2, <4>3, <4>4, <3>2, Zenon
    <3> QED BY <3>1, <3>2, Zenon
  <2>6. CmdToString(Append(args, arg)) = (t \o b) \o a
    BY <2>1, <1>0, Zenon DEF Spaced
  <2>7. s \o ((t \o b) \o a) = v \o a
    <3> HIDE DEF t, a, b
    <3>1. FourAssoc(s, t, b, a)
      BY <2>3, FourAssociate
    <3> QED BY <3>1, Zenon DEF FourAssoc
  <2> HIDE DEF v
  <2>8. Parsed(v \o a) = Between(cmds, Append(args, arg))
    BY <2>5, ArgRead
  <2>9. P(Append(args, arg))
    BY <2>6, <2>7, <2>8, Zenon
  <2> QED BY <2>2, <2>9
<1>3. T = Seq(ArgsOver(X))
  <2> HIDE DEF T
  <2>1. T \in SUBSET Seq(ArgsOver(X))
    BY DEF T
  <2> QED BY <2>1, <1>1, <1>2, SeqInduction
<1> QED BY <1>3

\* The text of commands is these commands.
LEMMA CmdsRead ==
    ASSUME NEW X, IsAlphabet(X), NEW cmds \in Seq(CmdsOver(X))
    PROVE  /\ CmdsToString(cmds) \in Seq(X)
           /\ Parsed(CmdsToString(cmds)) = Between(cmds, <<>>)
<1> DEFINE P(cs) == Parsed(CmdsToString(cs)) = Between(cs, <<>>)
           T == {cs \in Seq(CmdsOver(X)) : P(cs)}
<1>0. /\ CmdsToString(<<>>) = <<>>
      /\ \A cs \in Seq(CmdsOver(X)) : CmdsToString(cs) \in Seq(X)
      /\ \A cs \in Seq(CmdsOver(X)), cmd \in CmdsOver(X) :
            CmdsToString(Append(cs, cmd)) = Ended(CmdsToString(cs), cmd)
  BY CmdsTextLaws
<1>1. <<>> \in T
  <2>1. <<>> \in Seq(CmdsOver(X))
    BY EmptySeq
  <2>2. Parsed(<<>>) = Begun
    BY ParsedLaws
  <2> QED BY <2>1, <2>2, <1>0, Zenon DEF Begun, Between
<1>2. ASSUME NEW cs \in T, NEW cmd \in CmdsOver(X) PROVE Append(cs, cmd) \in T
  <2> DEFINE t == CmdsToString(cs)
             w == t \o CmdToString(cmd)
  <2>1. cs \in Seq(CmdsOver(X)) /\ P(cs)
    OBVIOUS
  <2>2. Append(cs, cmd) \in Seq(CmdsOver(X))
    BY <2>1, AppendProperties
  <2>3. t \in Seq(X) /\ CmdToString(cmd) \in Seq(X) /\ cmd \in Seq(ArgsOver(X)) /\ cmd # <<>>
    BY <2>1, <1>0, EndedType DEF CmdsOver
  <2>4. w \in Seq(X) /\ Parsed(w) = Between(cs, cmd)
    <3> HIDE DEF t
    <3>1. w \in Seq(X)
      BY <2>3, ConcatProperties
    <3>2. Parsed(t) = Between(cs, <<>>)
      BY <2>1 DEF t
    <3>3. Parsed(w) = Between(cs, cmd)
      BY <3>2, <2>3, CmdRead
    <3> QED BY <3>1, <3>3
  <2>5. " " \in X /\ ";" \in X /\ " " \in Blank
    BY Zenon DEF IsAlphabet, Blank
  <2>6. CmdsToString(Append(cs, cmd)) = w \o <<";", " ">>
    BY <2>1, <1>0, Zenon DEF Ended
  <2> HIDE DEF w
  <2> DEFINE v == Append(w, ";")
  <2>7. v \in Seq(X) /\ Parsed(v) = Between(Append(cs, cmd), <<>>)
    <3>1. Parsed(v) = NextChar(Between(cs, cmd), ";") /\ v \in Seq(X)
      BY <2>4, <2>5, ReadChar, Zenon
    <3> QED BY <3>1, <2>3, IdleSteps, Zenon
  <2>8. w \o <<";", " ">> = Append(v, " ")
    <3>1. TwoMore(w, ";", " ")
      BY <2>4, <2>5, TwoAppended, Zenon
    <3> QED BY <3>1, Zenon DEF TwoMore
  <2> HIDE DEF v
  <2>9. Parsed(Append(v, " ")) = Between(Append(cs, cmd), <<>>)
    <3>1. Parsed(Append(v, " ")) = NextChar(Between(Append(cs, cmd), <<>>), " ")
      BY <2>5, <2>7, ReadChar, Zenon
    <3> QED BY <3>1, <2>5, IdleSteps, Zenon
  <2>10. P(Append(cs, cmd))
    BY <2>6, <2>8, <2>9, Zenon
  <2> QED BY <2>2, <2>10
<1>3. T = Seq(CmdsOver(X))
  <2> HIDE DEF T
  <2>1. T \in SUBSET Seq(CmdsOver(X))
    BY DEF T
  <2> QED BY <2>1, <1>1, <1>2, SeqInduction
<1> QED BY <1>0, <1>3

\* A text that is read up to the end of a command or of an argument.
LEMMA ParseIdle ==
    ASSUME NEW X, IsAlphabet(X), NEW text \in Seq(X), NEW cmds, NEW args,
           Parsed(text) = Between(cmds, args)
    PROVE  ParseCmds(text) = IF args = <<>> THEN cmds ELSE Append(cmds, args)
<1>1. NextChar(Between(cmds, args), End) = Between(cmds, args)
  BY IdleSteps, Zenon DEF Blank
<1>2. ParseCmds(text) = EndCommand(Between(cmds, args)).cmds
  BY <1>1, ParseCmdsIs
<1> QED BY <1>2, IdleSteps, Zenon

\* toString() and parse() are inverse to each other on commands.
LEMMA CmdsRoundTrip ==
    ASSUME NEW X, IsAlphabet(X), NEW cmds \in Seq(CmdsOver(X))
    PROVE  ParseCmds(CmdsToString(cmds)) = cmds
BY CmdsRead, ParseIdle

\* A text without quotation marks comes back as the one argument that it was.
LEMMA ArgRoundTrip ==
    ASSUME NEW X, IsAlphabet(X), NEW arg \in ArgsOver(X)
    PROVE  ParseCmds(CmdToString(<<arg>>)) = << <<arg>> >>
<1> DEFINE cmd == <<arg>>
<1>1. cmd \in Seq(ArgsOver(X)) /\ cmd # <<>>
  OBVIOUS
<1>2. Parsed(<<>>) = Between(<<>>, <<>>) /\ <<>> \in Seq(X)
  <2>1. Parsed(<<>>) = Begun
    BY ParsedLaws
  <2> QED BY <2>1, EmptySeq, Zenon DEF Begun, Between
<1>3. CmdToString(cmd) \in Seq(X)
  BY <1>1, CmdTextLaws
<1> DEFINE t == CmdToString(cmd)
<1> HIDE DEF cmd
<1>4. Parsed(t) = Between(<<>>, cmd)
  <2>1. \A e : e = <<>> => Parsed(e \o t) = Between(e, cmd)
    BY <1>1, <1>2, CmdRead
  <2>2. <<>> \o t = t
    BY <1>3, ConcatEmptySeq
  <2> QED BY <2>1, <2>2, Zenon
<1>5. ParseCmds(t) = Append(<<>>, cmd)
  BY <1>1, <1>3, <1>4, ParseIdle
<1> QED BY <1>5 DEF cmd

-----------------------------------------------------------------------------
(* Texts without quotation marks. *)

\* Concatenation as an operator of its own, with its laws.
Joined(s, t) == s \o t

LEMMA JoinedLaws ==
    ASSUME NEW X
    PROVE  /\ \A s, t \in Seq(X) : Joined(s, t) \in Seq(X)
           /\ \A s \in Seq(X) : Joined(s, <<>>) = s /\ Joined(<<>>, s) = s
           /\ \A s, t, u \in Seq(X) : Joined(Joined(s, t), u) = Joined(s, Joined(t, u))
           /\ \A s, t \in Seq(X), c \in X : Joined(s, Append(t, c)) = Append(Joined(s, t), c)
<1>1. \A s, t \in Seq(X) : Joined(s, t) \in Seq(X)
  BY ConcatProperties DEF Joined
<1>2. \A s \in Seq(X) : Joined(s, <<>>) = s /\ Joined(<<>>, s) = s
  BY ConcatEmptySeq DEF Joined
<1>3. ASSUME NEW s \in Seq(X), NEW t \in Seq(X), NEW u \in Seq(X)
      PROVE  Joined(Joined(s, t), u) = Joined(s, Joined(t, u))
  <2>1. Assoc(s, t, u)
    BY Associates
  <2> QED BY <2>1, Zenon DEF Assoc, Joined
<1>4. ASSUME NEW s \in Seq(X), NEW t \in Seq(X), NEW c \in X
      PROVE  Joined(s, Append(t, c)) = Append(Joined(s, t), c)
  <2> DEFINE e == <<c>>
  <2>1. e \in Seq(X) /\ Append(t, c) = Joined(t, e)
    BY AppendIsConcat DEF Joined
  <2>2. Joined(s, t) \in Seq(X)
    BY <1>1
  <2>3. \A v \in Seq(X) : Append(v, c) = Joined(v, e)
    BY AppendIsConcat DEF Joined
  <2> HIDE DEF e
  <2>4. Joined(Joined(s, t), e) = Joined(s, Joined(t, e))
    BY <2>1, <1>3
  <2> QED BY <2>1, <2>2, <2>3, <2>4, Zenon
<1> QED BY <1>1, <1>2, <1>3, <1>4, Zenon

LEMMA FlatJoined ==
    ASSUME NEW S, NEW ss \in Seq(Seq(S)), NEW tt \in Seq(Seq(S))
    PROVE  FlattenSeq(Joined(ss, tt)) = Joined(FlattenSeq(ss), FlattenSeq(tt))
<1> DEFINE V == Seq(S)
           P(uu) == FlattenSeq(Joined(ss, uu)) = Joined(FlattenSeq(ss), FlattenSeq(uu))
           T == {uu \in Seq(V) : P(uu)}
<1>0. /\ FlattenSeq(<<>>) = <<>>
      /\ \A uu \in Seq(V) : FlattenSeq(uu) \in V
      /\ \A uu \in Seq(V), s \in V : FlattenSeq(Append(uu, s)) = Joined(FlattenSeq(uu), s)
  BY FlatLaws, Zenon DEF Joined
<1>1. /\ \A s, t \in V : Joined(s, t) \in V
      /\ \A s \in V : Joined(s, <<>>) = s /\ Joined(<<>>, s) = s
      /\ \A s, t, u \in V : Joined(Joined(s, t), u) = Joined(s, Joined(t, u))
  BY JoinedLaws, Zenon
<1>2. ss \in Seq(V) /\ tt \in Seq(V) /\ <<>> \in Seq(V) /\ <<>> \in V
  BY EmptySeq
<1> HIDE DEF V
<1>3. /\ \A s, t \in Seq(V) : Joined(s, t) \in Seq(V)
      /\ \A s \in Seq(V) : Joined(s, <<>>) = s /\ Joined(<<>>, s) = s
      /\ \A s, t \in Seq(V), c \in V : Joined(s, Append(t, c)) = Append(Joined(s, t), c)
  BY JoinedLaws, Zenon
<1>4. <<>> \in T
  BY <1>0, <1>1, <1>2, <1>3, Zenon
<1>5. ASSUME NEW uu \in T, NEW s \in V PROVE Append(uu, s) \in T
  <2>1. uu \in Seq(V) /\ P(uu)
    OBVIOUS
  <2>2. Append(uu, s) \in Seq(V)
    BY <2>1, AppendProperties
  <2>3. FlattenSeq(Joined(ss, Append(uu, s))) = Joined(FlattenSeq(Joined(ss, uu)), s)
    <3>1. Joined(ss, Append(uu, s)) = Append(Joined(ss, uu), s) /\ Joined(ss, uu) \in Seq(V)
      BY <2>1, <1>2, <1>3
    <3>2. FlattenSeq(Append(Joined(ss, uu), s)) = Joined(FlattenSeq(Joined(ss, uu)), s)
      BY <3>1, <1>0
    <3> QED BY <3>1, <3>2, Zenon
  <2>4. Joined(Joined(FlattenSeq(ss), FlattenSeq(uu)), s) = Joined(FlattenSeq(ss), Joined(FlattenSeq(uu), s))
    <3>1. FlattenSeq(ss) \in V /\ FlattenSeq(uu) \in V
      BY <2>1, <1>0, <1>2
    <3> QED BY <3>1, <1>1
  <2>5. Joined(FlattenSeq(uu), s) = FlattenSeq(Append(uu, s))
    BY <2>1, <1>0, Zenon
  <2>6. P(Append(uu, s))
    BY <2>1, <2>3, <2>4, <2>5, Zenon
  <2> QED BY <2>2, <2>6
<1>6. T = Seq(V)
  <2> HIDE DEF T
  <2>1. T \in SUBSET Seq(V)
    BY DEF T
  <2> QED BY <2>1, <1>4, <1>5, SeqInduction
<1> QED BY <1>2, <1>6

\* All characters of arguments and of commands.
CmdsFlat(cmds) == FlattenSeq(FlattenSeq(cmds))

LEMMA ArgsFlatLaws ==
    ASSUME NEW X
    PROVE  /\ FlattenSeq(<<>>) = <<>>
           /\ \A args \in Seq(ArgsOver(X)) :
                args \in Seq(Seq(X \ {Quote})) /\ FlattenSeq(args) \in Seq(X \ {Quote})
           /\ \A args \in Seq(ArgsOver(X)), arg \in ArgsOver(X) :
                FlattenSeq(Append(args, arg)) = Joined(FlattenSeq(args), arg)
<1> DEFINE S == X \ {Quote}
<1>1. /\ FlattenSeq(<<>>) = <<>>
      /\ \A uu \in Seq(Seq(S)) : FlattenSeq(uu) \in Seq(S)
      /\ \A uu \in Seq(Seq(S)), s \in Seq(S) : FlattenSeq(Append(uu, s)) = Joined(FlattenSeq(uu), s)
  BY FlatLaws, Zenon DEF Joined
<1>2. ArgsOver(X) \subseteq Seq(S)
  BY DEF ArgsOver
<1> DEFINE V == Seq(S)
<1> HIDE DEF V
<1>3. ASSUME NEW args \in Seq(ArgsOver(X)) PROVE args \in Seq(V)
  BY <1>2, SeqMonotonic DEF V
<1> QED BY <1>1, <1>2, <1>3, Zenon DEF V

LEMMA CmdsFlatLaws ==
    ASSUME NEW X
    PROVE  /\ CmdsFlat(<<>>) = <<>>
           /\ \A cmds \in Seq(CmdsOver(X)) :
                FlattenSeq(cmds) \in Seq(ArgsOver(X)) /\ CmdsFlat(cmds) \in Seq(X \ {Quote})
           /\ \A cmds \in Seq(CmdsOver(X)), cmd \in CmdsOver(X) :
                CmdsFlat(Append(cmds, cmd)) = Joined(CmdsFlat(cmds), FlattenSeq(cmd))
<1> DEFINE A == ArgsOver(X)  S == X \ {Quote}  V == Seq(S)  W == Seq(A)
<1>1. /\ FlattenSeq(<<>>) = <<>>
      /\ \A uu \in Seq(W) : FlattenSeq(uu) \in W
      /\ \A uu \in Seq(W), s \in W : FlattenSeq(Append(uu, s)) = Joined(FlattenSeq(uu), s)
  BY FlatLaws, Zenon DEF Joined
<1>2. \A args \in W : args \in Seq(V) /\ FlattenSeq(args) \in V
  BY ArgsFlatLaws, Zenon
<1>3. CmdsOver(X) \subseteq W
  BY DEF CmdsOver
<1>4. \A ss, tt \in Seq(V) : FlattenSeq(Joined(ss, tt)) = Joined(FlattenSeq(ss), FlattenSeq(tt))
  BY FlatJoined
<1> HIDE DEF A, S, V, W
<1>5. ASSUME NEW cmds \in Seq(CmdsOver(X)) PROVE cmds \in Seq(W)
  BY <1>3, SeqMonotonic
<1>6. ASSUME NEW cmds \in Seq(CmdsOver(X)), NEW cmd \in CmdsOver(X)
      PROVE  CmdsFlat(Append(cmds, cmd)) = Joined(CmdsFlat(cmds), FlattenSeq(cmd))
  <2>1. cmds \in Seq(W) /\ cmd \in W
    BY <1>3, <1>5
  <2>2. FlattenSeq(Append(cmds, cmd)) = Joined(FlattenSeq(cmds), cmd)
    BY <2>1, <1>1
  <2>3. FlattenSeq(cmds) \in Seq(V) /\ cmd \in Seq(V)
    BY <2>1, <1>1, <1>2
  <2>4. FlattenSeq(Joined(FlattenSeq(cmds), cmd)) = Joined(CmdsFlat(cmds), FlattenSeq(cmd))
    BY <2>3, <1>4 DEF CmdsFlat
  <2> QED BY <2>2, <2>4 DEF CmdsFlat
<1>7. CmdsFlat(<<>>) = <<>>
  BY <1>1, Zenon DEF CmdsFlat
<1>8. ASSUME NEW cmds \in Seq(CmdsOver(X)) PROVE FlattenSeq(cmds) \in W /\ CmdsFlat(cmds) \in V
  BY <1>1, <1>2, <1>5 DEF CmdsFlat
<1> QED BY <1>6, <1>7, <1>8, Zenon DEF A, S, V, W

\* All characters that are in the arguments of a state, in their order.
Held(p) == Joined(CmdsFlat(p.cmds), FlattenSeq(p.args))

Open(p) == IF p.arg = NotInArg THEN <<>> ELSE p.arg

Text(p) == Joined(Held(p), Open(p))

LEMMA HeldType ==
    ASSUME NEW X, NEW p \in States(X)
    PROVE  /\ CmdsFlat(p.cmds) \in Seq(X \ {Quote}) /\ FlattenSeq(p.args) \in Seq(X \ {Quote})
           /\ Held(p) \in Seq(X \ {Quote}) /\ Open(p) \in Seq(X \ {Quote})
           /\ Text(p) \in Seq(X \ {Quote})
<1> DEFINE V == Seq(X \ {Quote})
<1>1. p.cmds \in Seq(CmdsOver(X)) /\ p.args \in Seq(ArgsOver(X)) /\ p.arg \in V \cup {NotInArg}
  BY StateParts
<1>2. CmdsFlat(p.cmds) \in V /\ FlattenSeq(p.args) \in V
  BY <1>1, CmdsFlatLaws, ArgsFlatLaws
<1>3. <<>> \in V /\ \A s, t \in V : Joined(s, t) \in V
  BY JoinedLaws, EmptySeq
<1> HIDE DEF V
<1>4. Open(p) \in V
  BY <1>1, <1>3 DEF Open
<1> QED BY <1>2, <1>3, <1>4, Zenon DEF Held, Text, V

LEMMA EndCommandHolds ==
    ASSUME NEW X, NEW p \in States(X)
    PROVE  /\ Held(EndCommand(p)) = Held(p) /\ EndCommand(p).args = <<>>
           /\ EndCommand(p).arg = p.arg /\ EndCommand(p).isInQuotes = p.isInQuotes
<1>1. CASE p.args = <<>>
  BY <1>1 DEF EndCommand
<1>2. CASE p.args # <<>>
  <2>1. PICK q : q = EndCommand(p)
    OBVIOUS
  <2>2. q = [p EXCEPT !.cmds = Append(p.cmds, p.args), !.args = <<>>]
    BY <2>1, <1>2 DEF EndCommand
  <2>3. /\ q.cmds = Append(p.cmds, p.args) /\ q.args = <<>>
        /\ q.arg = p.arg /\ q.isInQuotes = p.isInQuotes
    BY <2>2 DEF States
  <2>4. p.cmds \in Seq(CmdsOver(X)) /\ p.args \in CmdsOver(X)
    BY <1>2, StateParts, Zenon DEF CmdsOver
  <2>5. CmdsFlat(q.cmds) = Held(p)
    BY <2>3, <2>4, CmdsFlatLaws DEF Held
  <2>6. FlattenSeq(q.args) = <<>>
    BY <2>3, ArgsFlatLaws
  <2>7. Held(q) = Joined(Held(p), <<>>)
    BY <2>5, <2>6, Zenon DEF Held
  <2>8. Joined(Held(p), <<>>) = Held(p)
    <3>1. Held(p) \in Seq(X \ {Quote})
      BY HeldType
    <3> QED BY <3>1, JoinedLaws, Zenon
  <2> QED BY <2>1, <2>3, <2>7, <2>8, Zenon
<1> QED BY <1>1, <1>2

LEMMA EndArgHolds ==
    ASSUME NEW X, NEW p \in States(X), p.arg \in Seq(X \ {Quote})
    PROVE  /\ Held(EndArg(p)) = Joined(Held(p), p.arg)
           /\ EndArg(p).arg = NotInArg /\ EndArg(p).isInQuotes = FALSE
<1> DEFINE args == IF p.arg = <<>> THEN p.args ELSE Append(p.args, p.arg)
           V == Seq(X \ {Quote})
<1>1. EndArg(p) = Between(p.cmds, args)
  BY EndArgType
<1>3. FlattenSeq(args) = Joined(FlattenSeq(p.args), p.arg)
  <2>1. p.args \in Seq(ArgsOver(X)) /\ FlattenSeq(p.args) \in V
    BY StateParts, HeldType
  <2>2. CASE p.arg = <<>>
    <3>1. Joined(FlattenSeq(p.args), <<>>) = FlattenSeq(p.args)
      BY <2>1, JoinedLaws
    <3> QED BY <2>2, <3>1
  <2>3. CASE p.arg # <<>>
    <3>1. p.arg \in ArgsOver(X)
      BY <2>3 DEF ArgsOver
    <3>2. FlattenSeq(Append(p.args, p.arg)) = Joined(FlattenSeq(p.args), p.arg)
      BY <3>1, <2>1, ArgsFlatLaws
    <3> QED BY <2>3, <3>2
  <2> QED BY <2>2, <2>3
<1> HIDE DEF args
<1>2. PICK q : q = EndArg(p)
  OBVIOUS
<1>4. q.cmds = p.cmds /\ q.args = args /\ q.arg = NotInArg /\ q.isInQuotes = FALSE
  BY <1>1, <1>2 DEF Between
<1>5. Held(q) = Joined(CmdsFlat(p.cmds), Joined(FlattenSeq(p.args), p.arg))
  BY <1>3, <1>4, Zenon DEF Held
<1>6. CmdsFlat(p.cmds) \in V /\ FlattenSeq(p.args) \in V
  BY HeldType
<1>7. Joined(CmdsFlat(p.cmds), Joined(FlattenSeq(p.args), p.arg)) = Joined(Held(p), p.arg)
  <2>1. p.arg \in V /\ Held(p) = Joined(CmdsFlat(p.cmds), FlattenSeq(p.args))
    BY DEF Held
  <2> HIDE DEF V
  <2>2. \A s, t, u \in V : Joined(Joined(s, t), u) = Joined(s, Joined(t, u))
    BY JoinedLaws DEF V
  <2> QED BY <1>6, <2>1, <2>2
<1> QED BY <1>2, <1>4, <1>5, <1>7

LEMMA ClosedText ==
    ASSUME NEW X, NEW p \in States(X), p.arg = NotInArg
    PROVE  Text(p) = Held(p)
<1>1. Open(p) = <<>>
  BY DEF Open
<1>2. Held(p) \in Seq(X \ {Quote})
  BY HeldType
<1>3. Joined(Held(p), <<>>) = Held(p)
  BY <1>2, JoinedLaws, Zenon
<1> QED BY <1>1, <1>3, Zenon DEF Text

LEMMA OpenText ==
    ASSUME NEW X, "none" \notin X, NEW p \in States(X), p.arg \in Seq(X \ {Quote})
    PROVE  Text(p) = Joined(Held(p), p.arg)
<1>1. p.arg # NotInArg
  BY NoArgument
<1>2. Open(p) = p.arg
  BY <1>1 DEF Open
<1> QED BY <1>2 DEF Text

\* The state after a character that is not a quotation mark.
Reads(p, q, c) ==
    /\ q.isInQuotes = FALSE
    /\ Text(q) = IF c \in {" ", ";"} THEN Text(p) ELSE Append(Text(p), c)

LEMMA UnquotedInArg ==
    ASSUME NEW X, IsAlphabet(X), NEW p \in States(X), p.arg \in Seq(X \ {Quote}),
           p.isInQuotes = FALSE, NEW c \in X \ {Quote}
    PROVE  Reads(p, NextInArg(p, c), c)
<1>0. Text(p) = Joined(Held(p), p.arg)
  BY OpenText, Zenon DEF IsAlphabet
<1>1. PICK q : q = EndArg(p)
  OBVIOUS
<1>2. /\ q \in States(X) /\ Held(q) = Text(p)
      /\ q.arg = NotInArg /\ q.isInQuotes = FALSE
  BY <1>0, <1>1, EndArgType, EndArgHolds
<1>3. CASE c = " "
  <2>1. NextInArg(p, c) = q
    BY <1>1, <1>3, Characters, Zenon DEF NextInArg, Blank
  <2>2. Text(q) = Text(p)
    BY <1>2, ClosedText
  <2> QED BY <1>2, <1>3, <2>1, <2>2, Zenon DEF Reads
<1>4. CASE c = ";"
  <2>1. PICK r : r = EndCommand(q)
    OBVIOUS
  <2>2. NextInArg(p, c) = r
    BY <1>1, <1>4, <2>1, Characters, Zenon DEF NextInArg, Blank
  <2>3. r \in States(X) /\ Held(r) = Held(q) /\ r.arg = NotInArg /\ r.isInQuotes = FALSE
    BY <1>2, <2>1, EndCommandType, EndCommandHolds
  <2>4. Text(r) = Text(p)
    BY <1>2, <2>3, ClosedText
  <2> QED BY <1>4, <2>2, <2>3, <2>4, Zenon DEF Reads
<1>5. CASE c \notin {" ", ";"}
  <2>1. c # End
    BY Zenon DEF IsAlphabet
  <2>2. NextInArg(p, c) = [p EXCEPT !.arg = Append(@, c)]
    BY <1>5, <2>1, Zenon DEF NextInArg, Blank
  <2> DEFINE arg == Append(p.arg, c)  V == Seq(X \ {Quote})
  <2>3. arg \in V
    BY AppendProperties
  <2>4. PICK r : r = [p EXCEPT !.arg = arg]
    OBVIOUS
  <2>5. NextInArg(p, c) = r
    BY <2>2, <2>4
  <2> HIDE DEF arg
  <2>6. /\ r \in States(X) /\ r.arg = arg /\ r.cmds = p.cmds /\ r.args = p.args
        /\ r.isInQuotes = FALSE
    BY <2>3, <2>4 DEF States
  <2>7. Held(r) = Held(p)
    BY <2>6, Zenon DEF Held
  <2>8. Text(r) = Joined(Held(p), arg)
    BY <2>3, <2>6, <2>7, OpenText, Zenon DEF IsAlphabet
  <2>9. Joined(Held(p), Append(p.arg, c)) = Append(Joined(Held(p), p.arg), c)
    <3>1. Held(p) \in V
      BY HeldType
    <3>2. \A s, t \in V, d \in X \ {Quote} : Joined(s, Append(t, d)) = Append(Joined(s, t), d)
      BY JoinedLaws
    <3> HIDE DEF V
    <3> QED BY <3>1, <3>2 DEF V
  <2> QED BY <1>0, <1>5, <2>5, <2>6, <2>8, <2>9, Zenon DEF arg, Reads
<1> QED BY <1>3, <1>4, <1>5, Zenon

LEMMA UnquotedStep ==
    ASSUME NEW X, IsAlphabet(X), NEW p \in States(X), p.isInQuotes = FALSE, NEW c \in X \ {Quote}
    PROVE  Reads(p, NextChar(p, c), c)
<1>0. c # End
  BY Zenon DEF IsAlphabet
<1>1. CASE p.arg = NotInArg /\ c = " "
  <2>1. NextChar(p, c) = p
    BY <1>1, Characters, Zenon DEF NextChar, Blank
  <2> QED BY <1>1, <2>1, Zenon DEF Reads
<1>2. CASE p.arg = NotInArg /\ c = ";"
  <2>1. PICK r : r = EndCommand(p)
    OBVIOUS
  <2>2. NextChar(p, c) = r
    BY <1>2, <2>1, Characters, Zenon DEF NextChar, Blank
  <2>3. r \in States(X) /\ Held(r) = Held(p) /\ r.arg = NotInArg /\ r.isInQuotes = FALSE
    BY <1>2, <2>1, EndCommandType, EndCommandHolds, Zenon
  <2>4. Text(r) = Held(r) /\ Text(p) = Held(p)
    BY <1>2, <2>3, ClosedText, Zenon
  <2> QED BY <1>2, <2>2, <2>3, <2>4, Zenon DEF Reads
<1>3. CASE p.arg = NotInArg /\ c \notin {" ", ";"}
  <2>1. PICK q : q = [p EXCEPT !.arg = <<>>]
    OBVIOUS
  <2>2. NextChar(p, c) = NextInArg(q, c)
    BY <1>0, <1>3, <2>1, Zenon DEF NextChar, Blank
  <2>3. <<>> \in Seq(X \ {Quote})
    BY EmptySeq
  <2>4. /\ q \in States(X) /\ q.arg = <<>> /\ q.cmds = p.cmds /\ q.args = p.args
        /\ q.isInQuotes = FALSE
    BY <2>1, <2>3 DEF States
  <2>5. Held(q) = Held(p)
    BY <2>4, Zenon DEF Held
  <2>6. Text(q) = Joined(Held(p), <<>>)
    <3>1. q.arg \in Seq(X \ {Quote})
      BY <2>3, <2>4
    <3> QED BY <3>1, <2>4, <2>5, OpenText, Zenon DEF IsAlphabet
  <2>7. Joined(Held(p), <<>>) = Held(p)
    <3>1. Held(p) \in Seq(X \ {Quote})
      BY HeldType
    <3> QED BY <3>1, JoinedLaws, Zenon
  <2>8. Text(q) = Text(p)
    BY <1>3, <2>6, <2>7, ClosedText, Zenon
  <2>9. q.arg \in Seq(X \ {Quote})
    BY <2>3, <2>4
  <2>10. Reads(q, NextInArg(q, c), c)
    BY <2>4, <2>9, UnquotedInArg
  <2> QED BY <2>2, <2>8, <2>10, Zenon DEF Reads
<1>4. CASE p.arg # NotInArg
  <2>1. NextChar(p, c) = NextInArg(p, c)
    BY <1>4, Zenon DEF NextChar
  <2>2. p.arg \in Seq(X \ {Quote})
    BY <1>4, StateParts
  <2> QED BY <2>1, <2>2, UnquotedInArg
<1> QED BY <1>1, <1>2, <1>3, <1>4, Zenon

\* At the end of a text all characters are in the commands.
LEMMA UnquotedEnd ==
    ASSUME NEW X, IsAlphabet(X), NEW p \in States(X), p.isInQuotes = FALSE
    PROVE  CmdsFlat(EndCommand(NextChar(p, End)).cmds) = Text(p)
<1>1. PICK q : q = NextChar(p, End)
  OBVIOUS
<1>2. q \in States(X) /\ Held(q) = Text(p)
  <2>1. CASE p.arg = NotInArg
    <3>1. q = p
      BY <1>1, <2>1, Characters, Zenon DEF NextChar, Blank
    <3> QED BY <2>1, <3>1, ClosedText
  <2>2. CASE p.arg # NotInArg
    <3>1. p.arg \in Seq(X \ {Quote})
      BY <2>2, StateParts
    <3>2. NextChar(p, End) = NextInArg(p, End)
      BY <2>2, Zenon DEF NextChar
    <3>3. NextInArg(p, End) = EndArg(p)
      BY Characters, Zenon DEF NextInArg, Blank
    <3>4. Text(p) = Joined(Held(p), p.arg)
      BY <3>1, OpenText, Zenon DEF IsAlphabet
    <3> QED BY <1>1, <3>1, <3>2, <3>3, <3>4, EndArgType, EndArgHolds
  <2> QED BY <2>1, <2>2
<1>3. PICK r : r = EndCommand(q)
  OBVIOUS
<1>4. r \in States(X) /\ Held(r) = Text(p) /\ r.args = <<>>
  BY <1>2, <1>3, EndCommandType, EndCommandHolds
<1>5. FlattenSeq(r.args) = <<>>
  BY <1>4, ArgsFlatLaws
<1>6. CmdsFlat(r.cmds) \in Seq(X \ {Quote})
  BY <1>4, HeldType
<1>7. Joined(CmdsFlat(r.cmds), <<>>) = CmdsFlat(r.cmds)
  BY <1>6, JoinedLaws, Zenon
<1>8. CmdsFlat(r.cmds) = Text(p)
  BY <1>4, <1>5, <1>7, Zenon DEF Held
<1> QED BY <1>1, <1>3, <1>8

LEMMA RangeMembers ==
    ASSUME NEW S, NEW s \in Seq(S)
    PROVE  Range(s) \subseteq S /\ s \in Seq(Range(s))
BY DEF Range

\* Of a text without quotation marks the parser keeps all but the separators.
LEMMA PlainText ==
    ASSUME NEW X, IsAlphabet(X), NEW text \in Seq(X \ {Quote})
    PROVE  CmdsFlat(ParseCmds(text)) = KeepIn(Range(text) \ {" ", ";"}, text)
<1> DEFINE C == Range(text)  S == C \ {" ", ";"}
           P(u) == Parsed(u).isInQuotes = FALSE /\ Text(Parsed(u)) = KeepIn(S, u)
           T == {u \in Seq(C) : P(u)}
<1>0. C \subseteq X \ {Quote} /\ text \in Seq(C)
  BY RangeMembers
<1>1. /\ KeepIn(S, <<>>) = <<>>
      /\ \A u \in Seq(C), c \in C :
            KeepIn(S, Append(u, c)) = IF c \in S THEN Append(KeepIn(S, u), c) ELSE KeepIn(S, u)
  BY KeepLaws, Zenon
<1>2. \A u \in Seq(C) : u \in Seq(X)
  <2>1. C \subseteq X
    BY <1>0
  <2> HIDE DEF C
  <2> QED BY <2>1, SeqMonotonic
<1> HIDE DEF C
<1>3. <<>> \in T
  <2>1. Parsed(<<>>) = Begun
    BY ParsedLaws
  <2>2. PICK p : p = Begun
    OBVIOUS
  <2>3. p \in States(X) /\ p.cmds = <<>> /\ p.args = <<>> /\ p.arg = NotInArg /\ p.isInQuotes = FALSE
    BY <2>2, ParserMachine DEF Begun
  <2>4. Text(p) = Held(p)
    BY <2>3, ClosedText
  <2>5. CmdsFlat(p.cmds) = <<>> /\ FlattenSeq(p.args) = <<>>
    BY <2>3, CmdsFlatLaws, ArgsFlatLaws
  <2>6. Joined(<<>>, <<>>) = <<>>
    <3>1. <<>> \in Seq(X)
      BY EmptySeq
    <3> QED BY <3>1, JoinedLaws, Zenon
  <2>7. Held(p) = <<>>
    BY <2>5, <2>6, Zenon DEF Held
  <2>8. P(<<>>)
    BY <2>1, <2>2, <2>3, <2>4, <2>7, <1>1, Zenon
  <2> QED BY <2>8, EmptySeq, Zenon
<1>4. ASSUME NEW u \in T, NEW c \in C PROVE Append(u, c) \in T
  <2>1. u \in Seq(C) /\ P(u) /\ u \in Seq(X) /\ c \in X \ {Quote}
    BY <1>0, <1>2, Zenon
  <2>2. Parsed(u) \in States(X) /\ Parsed(Append(u, c)) = NextChar(Parsed(u), c)
    BY <2>1, ReadChar, Zenon
  <2>3. Reads(Parsed(u), NextChar(Parsed(u), c), c)
    BY <2>1, <2>2, UnquotedStep, Zenon
  <2>4. c \in S <=> ~(c \in {" ", ";"})
    BY Zenon
  <2>5. KeepIn(S, Append(u, c)) = IF c \in S THEN Append(KeepIn(S, u), c) ELSE KeepIn(S, u)
    BY <2>1, <1>1, Zenon
  <2>6. CASE c \in S
    <3>1. Text(NextChar(Parsed(u), c)) = Append(Text(Parsed(u)), c)
      BY <2>3, <2>4, <2>6, Zenon DEF Reads
    <3>2. KeepIn(S, Append(u, c)) = Append(KeepIn(S, u), c)
      BY <2>5, <2>6, Zenon
    <3>3. P(Append(u, c))
      BY <2>1, <2>2, <2>3, <3>1, <3>2, Zenon DEF Reads
    <3>4. Append(u, c) \in Seq(C)
      BY <2>1, AppendProperties, Zenon
    <3> QED BY <3>3, <3>4, Zenon
  <2>7. CASE c \notin S
    <3>1. Text(NextChar(Parsed(u), c)) = Text(Parsed(u))
      BY <2>3, <2>4, <2>7, Zenon DEF Reads
    <3>2. KeepIn(S, Append(u, c)) = KeepIn(S, u)
      BY <2>5, <2>7, Zenon
    <3>3. P(Append(u, c))
      BY <2>1, <2>2, <2>3, <3>1, <3>2, Zenon DEF Reads
    <3>4. Append(u, c) \in Seq(C)
      BY <2>1, AppendProperties, Zenon
    <3> QED BY <3>3, <3>4, Zenon
  <2> QED BY <2>6, <2>7, Zenon
<1>5. T = Seq(C)
  <2> HIDE DEF T
  <2>1. T \in SUBSET Seq(C)
    BY Zenon DEF T
  <2> QED BY <2>1, <1>3, <1>4, SeqInduction
<1>6. P(text) /\ text \in Seq(X)
  BY <1>0, <1>2, <1>5, Zenon
<1>7. Parsed(text) \in States(X)
  <2>1. text \in Seq(X \cup {End})
    <3>1. X \subseteq X \cup {End}
      OBVIOUS
    <3> QED BY <3>1, <1>6, SeqMonotonic, Zenon
  <2> QED BY <2>1, ParsedLaws
<1>8. CmdsFlat(EndCommand(NextChar(Parsed(text), End)).cmds) = Text(Parsed(text))
  BY <1>6, <1>7, UnquotedEnd, Zenon
<1>9. CmdsFlat(ParseCmds(text)) = CmdsFlat(EndCommand(NextChar(Parsed(text), End)).cmds)
  BY <1>6, ParseCmdsIs, Zenon
<1> QED BY <1>6, <1>8, <1>9, Zenon DEF C

\* What parse() returns are commands.
LEMMA ParseCmdsType ==
    ASSUME NEW X, IsAlphabet(X), NEW text \in Seq(X)
    PROVE  ParseCmds(text) \in Seq(CmdsOver(X)) /\ FlattenSeq(ParseCmds(text)) \in Seq(ArgsOver(X))
<1> DEFINE p == Parsed(text)
<1>1. p \in States(X)
  <2>1. text \in Seq(X \cup {End})
    <3>1. X \subseteq X \cup {End}
      OBVIOUS
    <3> QED BY <3>1, SeqMonotonic
  <2> QED BY <2>1, ParsedLaws
<1> HIDE DEF p
<1>2. EndCommand(NextChar(p, End)) \in States(X)
  BY <1>1, NextCharType, EndCommandType
<1>3. ParseCmds(text) = EndCommand(NextChar(p, End)).cmds
  BY ParseCmdsIs DEF p
<1>4. ParseCmds(text) \in Seq(CmdsOver(X))
  BY <1>2, <1>3, StateParts
<1> QED BY <1>4, CmdsFlatLaws

\* Whatever the alphabet and the text, what CmdsRight says of a text holds of parse() and
\* toString() (cmd_string.cpp).
THEOREM TextsRight ==
    ASSUME NEW X, IsAlphabet(X), NEW text \in Seq(X)
    PROVE  CmdsRightOf(text)
<1> DEFINE cmds == ParseCmds(text)
<1>1. cmds \in Seq(CmdsOver(X)) /\ FlattenSeq(cmds) \in Seq(ArgsOver(X))
  BY ParseCmdsType
<1>2. ParseCmds(CmdsToString(cmds)) = cmds
  <2> HIDE DEF cmds
  <2> QED BY <1>1, CmdsRoundTrip
<1>3. ASSUME NEW arg \in Range(Args(cmds)) PROVE arg /= <<>> /\ Quote \notin Range(arg)
  <2> HIDE DEF cmds
  <2>1. Range(Args(cmds)) \subseteq ArgsOver(X)
    BY <1>1, RangeMembers DEF Args
  <2>2. arg \in Seq(X \ {Quote}) /\ arg # <<>>
    BY <2>1 DEF ArgsOver
  <2> QED BY <2>2, RangeMembers
<1>4. ASSUME Quote \notin Range(text)
      PROVE  /\ FlattenSeq(Args(cmds)) = KeepIn(Range(text) \ {" ", ";"}, text)
             /\ text /= <<>> => ParseCmds(CmdToString(<<text>>)) = << <<text>> >>
  <2>1. text \in Seq(X \ {Quote})
    BY <1>4 DEF Range
  <2>2. CmdsFlat(cmds) = KeepIn(Range(text) \ {" ", ";"}, text)
    BY <2>1, PlainText, Zenon
  <2> HIDE DEF cmds
  <2>3. FlattenSeq(Args(cmds)) = KeepIn(Range(text) \ {" ", ";"}, text)
    BY <2>2, Zenon DEF CmdsFlat, Args
  <2>4. ASSUME text /= <<>> PROVE ParseCmds(CmdToString(<<text>>)) = << <<text>> >>
    <3>1. text \in ArgsOver(X)
      BY <2>1, <2>4 DEF ArgsOver
    <3> QED BY <3>1, ArgRoundTrip
  <2> QED BY <2>3, <2>4, Zenon
<1> QED BY <1>2, <1>3, <1>4, Zenon DEF CmdsRightOf

-----------------------------------------------------------------------------
(* The arguments of main(). *)

Dashes == <<"-", "-">>

ArgMaps(X) == UNION {[D -> Seq(X)] : D \in SUBSET Seq(X)}

ArgStates(X) ==
    [args : ArgMaps(X), flagList : SUBSET Seq(X),
     shortFlagList : SUBSET X, execCmds : Seq(CmdsOver(X)), posArgs : Seq(Seq(X)),
     areNextArgsPositional : BOOLEAN, isValue : BOOLEAN, thrown : BOOLEAN]

\* How an argument begins.
LEMMA ArgBegins ==
    ASSUME NEW X, NEW arg \in Seq(X)
    PROVE  /\ Starts(arg, Dashes) => Starts(arg, <<"-">>)
           /\ ~(Starts(arg, <<"-">>) /\ Starts(arg, <<"+">>))
           /\ Starts(arg, <<"-">>) \/ Starts(arg, <<"+">>) =>
                arg # <<>> /\ Tail(arg) \in Seq(X) /\ Range(Tail(arg)) \subseteq Range(arg)
           /\ Starts(Dashes, Dashes)
<1>1. Starts(arg, <<"-">>) <=> Len(arg) >= 1 /\ arg[1] = "-"
  BY DEF Starts, IsPrefix
<1>2. Starts(arg, <<"+">>) <=> Len(arg) >= 1 /\ arg[1] = "+"
  BY DEF Starts, IsPrefix
<1>3. Starts(arg, Dashes) <=> Len(arg) >= 2 /\ arg[1] = "-" /\ arg[2] = "-"
  BY DEF Starts, IsPrefix, Dashes
<1>4. Starts(Dashes, Dashes)
  BY DEF Starts, IsPrefix, Dashes
<1>5. ASSUME Len(arg) >= 1
      PROVE  arg # <<>> /\ Tail(arg) \in Seq(X) /\ Range(Tail(arg)) \subseteq Range(arg)
  BY <1>5 DEF Range
<1> QED BY <1>1, <1>2, <1>3, <1>4, <1>5

\* The first "--" is where it is said to be.
LEMMA FirstIs ==
    ASSUME NEW X, NEW argv \in Seq(Seq(X))
    PROVE  /\ First(argv) \in 1..Len(argv) + 1
           /\ First(argv) <= Len(argv) => argv[First(argv)] = Dashes
           /\ \A i \in 1..First(argv) - 1 : argv[i] /= Dashes
<1> DEFINE N == Len(argv)
           Q(d) == /\ d <= N => argv[d] = Dashes
                   /\ \A i \in 1..d - 1 : argv[i] /= Dashes
           T == {n \in Nat : n <= N => (\A i \in 1..n : argv[i] /= Dashes) \/ \E d \in 1..N + 1 : Q(d)}
<1>0. N \in Nat
  BY LenProperties
<1>1. \E d \in 1..N + 1 : Q(d)
  <2>1. 0 \in T
    OBVIOUS
  <2>2. ASSUME NEW n \in T PROVE n + 1 \in T
    <3> SUFFICES ASSUME n + 1 <= N, ~(\E d \in 1..N + 1 : Q(d))
                 PROVE  \A i \in 1..n + 1 : argv[i] /= Dashes
      OBVIOUS
    <3>1. \A i \in 1..n : argv[i] /= Dashes
      BY <1>0
    <3>2. n + 1 \in 1..N + 1 /\ (n + 1) - 1 = n
      BY <1>0
    <3>3. ~Q(n + 1)
      BY <3>2
    <3>4. argv[n + 1] /= Dashes
      BY <3>1, <3>2, <3>3
    <3> QED BY <3>1, <3>4
  <2>3. T = Nat
    <3> HIDE DEF T
    <3>1. T \in SUBSET Nat
      BY DEF T
    <3> QED BY <3>1, <2>1, <2>2, Induction
  <2>4. N \in T
    BY <1>0, <2>3
  <2>5. ASSUME \A i \in 1..N : argv[i] /= Dashes PROVE Q(N + 1) /\ N + 1 \in 1..N + 1
    BY <1>0, <2>5
  <2> QED BY <1>0, <2>4, <2>5
<1>2. First(argv) = CHOOSE d \in 1..N + 1 : Q(d)
  BY Zenon DEF First, Dashes
<1> HIDE DEF Q
<1>3. First(argv) \in 1..N + 1 /\ Q(First(argv))
  BY <1>1, <1>2
<1> QED BY <1>3 DEF Q

\* What an argument says about the next places.
LEMMA Places ==
    ASSUME NEW X, NEW argv \in Seq(Seq(X)), NEW i \in DOMAIN argv
    PROVE  /\ First(argv) \in Nat /\ First(argv) <= Len(argv) + 1
           /\ Valued(argv, i) => i < First(argv) /\ ~Tagged(argv, i) /\ IsValue(argv[i])
           /\ ~Tagged(argv, i) => ~Valued(argv, i + 1)
           /\ i >= First(argv) => ~Tagged(argv, i)
           /\ i = First(argv) => argv[i] = Dashes
           /\ i < First(argv) => argv[i] # Dashes /\ (Tagged(argv, i) <=> Starts(argv[i], Dashes))
           /\ Tagged(argv, i) => (Valued(argv, i + 1) <=> HasValue(argv, i))
<1> DEFINE N == Len(argv)  F == First(argv)
<1>0. /\ F \in 1..N + 1 /\ N \in Nat /\ i \in 1..N
      /\ F <= N => argv[F] = Dashes
      /\ \A j \in 1..F - 1 : argv[j] /= Dashes
  BY FirstIs, LenProperties
<1>1. \A j \in 1..N : argv[j] \in Seq(X)
  BY LenProperties
<1>2. \A j : Tagged(argv, j) <=> j < F /\ Starts(argv[j], Dashes)
  BY Zenon DEF Tagged, Dashes
<1>3. \A j : Valued(argv, j) <=> j \in 2..F - 1 /\ Tagged(argv, j - 1) /\ IsValue(argv[j])
  BY Zenon DEF Valued
<1>4. IsValue(argv[i]) => ~Starts(argv[i], Dashes)
  BY <1>0, <1>1, ArgBegins, Zenon DEF IsValue
<1>5. HasValue(argv, i) <=> i < N /\ IsValue(argv[i + 1])
  BY DEF HasValue
<1>6. ~IsValue(Dashes)
  <2>1. Dashes \in Seq({"-"})
    BY DEF Dashes
  <2> QED BY <2>1, ArgBegins, Zenon DEF IsValue
<1> HIDE DEF F, N
<1>7. Valued(argv, i) => i < F /\ ~Tagged(argv, i) /\ IsValue(argv[i])
  BY <1>0, <1>2, <1>3, <1>4
<1>8. Valued(argv, i + 1) <=> i + 1 <= F - 1 /\ Tagged(argv, i) /\ IsValue(argv[i + 1])
  <2>1. (i + 1) - 1 = i /\ i >= 1 /\ i \in Int /\ F \in Int
    BY <1>0
  <2>2. Valued(argv, i + 1) <=> i + 1 \in 2..F - 1 /\ Tagged(argv, (i + 1) - 1) /\ IsValue(argv[i + 1])
    BY <1>3, Zenon
  <2>3. i + 1 \in 2..F - 1 <=> i + 1 <= F - 1
    BY <2>1
  <2> QED BY <2>1, <2>2, <2>3
<1>9. ASSUME Tagged(argv, i) PROVE Valued(argv, i + 1) <=> HasValue(argv, i)
  <2>1. i < F
    BY <1>2, <1>9
  <2>2. CASE i + 1 <= F - 1
    <3>1. i < N
      BY <1>0, <2>2
    <3> QED BY <3>1, <2>2, <1>5, <1>8, <1>9
  <2>3. CASE i + 1 = F
    <3>1. i < N => F <= N
      BY <1>0, <2>3
    <3>2. ~HasValue(argv, i)
      BY <3>1, <2>3, <1>0, <1>5, <1>6
    <3>3. ~(i + 1 <= F - 1)
      BY <1>0, <2>3
    <3> QED BY <3>2, <3>3, <1>8
  <2> QED BY <1>0, <2>1, <2>2, <2>3
<1>10. i < F => argv[i] # Dashes /\ (Tagged(argv, i) <=> Starts(argv[i], Dashes))
  BY <1>0, <1>2
<1>11. i >= F => ~Tagged(argv, i)
  BY <1>0, <1>2
<1>12. F \in Nat /\ F <= N + 1 /\ (i = F => argv[i] = Dashes)
  BY <1>0
<1> QED BY <1>7, <1>8, <1>9, <1>10, <1>11, <1>12 DEF F, N

\* What becomes of one argument: the branches of the loop.
TagMap(f, t, v) == [u \in DOMAIN f \cup {t} |-> IF u = t THEN v ELSE f[u]]

Looks(p, arg) == ~p.thrown /\ ~p.isValue /\ ~p.areNextArgsPositional /\ arg # Dashes

Tag(arg) == Starts(arg, Dashes) /\ Starts(arg, <<"-">>) /\ ~Starts(arg, <<"+">>)

Letters(arg) == ~Starts(arg, Dashes) /\ Starts(arg, <<"-">>) /\ ~Starts(arg, <<"+">>)

Commands(arg) == ~Starts(arg, Dashes) /\ ~Starts(arg, <<"-">>) /\ Starts(arg, <<"+">>)

Other(arg) == ~Starts(arg, Dashes) /\ ~Starts(arg, <<"-">>) /\ ~Starts(arg, <<"+">>)

LEMMA ThrownArg ==
    ASSUME NEW argv, NEW p, NEW i, p.thrown
    PROVE  ParseArg(argv, p, i) = p
BY Zenon DEF ParseArg, Dashes

LEMMA ValueArg ==
    ASSUME NEW argv, NEW p, NEW i, ~p.thrown, p.isValue
    PROVE  ParseArg(argv, p, i) = [p EXCEPT !.isValue = FALSE]
BY Zenon DEF ParseArg, Dashes

LEMMA LateArg ==
    ASSUME NEW argv, NEW p, NEW i, ~p.thrown, ~p.isValue, p.areNextArgsPositional
    PROVE  ParseArg(argv, p, i) = [p EXCEPT !.posArgs = Append(@, argv[i])]
BY Zenon DEF ParseArg, Dashes

LEMMA DashesArg ==
    ASSUME NEW argv, NEW p, NEW i, ~p.thrown, ~p.isValue, ~p.areNextArgsPositional, argv[i] = Dashes
    PROVE  ParseArg(argv, p, i) = [p EXCEPT !.areNextArgsPositional = TRUE]
BY Zenon DEF ParseArg, Dashes

LEMMA FlagArg ==
    ASSUME NEW argv, NEW p, NEW i, Looks(p, argv[i]), Tag(argv[i]), ~HasValue(argv, i)
    PROVE  ParseArg(argv, p, i) = [p EXCEPT !.flagList = @ \cup {argv[i]}]
BY Zenon DEF ParseArg, Dashes, Looks, Tag

LEMMA SecondArg ==
    ASSUME NEW argv, NEW p, NEW i, Looks(p, argv[i]), Tag(argv[i]), HasValue(argv, i), argv[i] \in DOMAIN p.args
    PROVE  ParseArg(argv, p, i) = [p EXCEPT !.thrown = TRUE]
BY Zenon DEF ParseArg, Dashes, Looks, Tag

LEMMA TagArg ==
    ASSUME NEW argv, NEW p, NEW i, Looks(p, argv[i]), Tag(argv[i]), HasValue(argv, i), argv[i] \notin DOMAIN p.args
    PROVE  ParseArg(argv, p, i) = [p EXCEPT !.args = TagMap(@, argv[i], argv[i + 1]), !.isValue = TRUE]
BY Zenon DEF ParseArg, Dashes, TagMap, Looks, Tag

LEMMA LettersArg ==
    ASSUME NEW argv, NEW p, NEW i, Looks(p, argv[i]), Letters(argv[i])
    PROVE  ParseArg(argv, p, i) = [p EXCEPT !.shortFlagList = @ \cup Range(Tail(argv[i]))]
BY Zenon DEF ParseArg, Dashes, Looks, Letters

LEMMA CommandsArg ==
    ASSUME NEW argv, NEW p, NEW i, Looks(p, argv[i]), Commands(argv[i])
    PROVE  ParseArg(argv, p, i) = [p EXCEPT !.execCmds = @ \o ParseCmds(Tail(argv[i]))]
BY Zenon DEF ParseArg, Dashes, Looks, Commands

LEMMA OtherArg ==
    ASSUME NEW argv, NEW p, NEW i, Looks(p, argv[i]), Other(argv[i])
    PROVE  ParseArg(argv, p, i) = [p EXCEPT !.posArgs = Append(@, argv[i])]
BY Zenon DEF ParseArg, Dashes, Looks, Other

\* The states by their parts.
LEMMA ArgStateParts ==
    ASSUME NEW X, NEW p \in ArgStates(X)
    PROVE  /\ p.args \in [DOMAIN p.args -> Seq(X)] /\ DOMAIN p.args \subseteq Seq(X)
           /\ p.flagList \subseteq Seq(X) /\ p.shortFlagList \subseteq X
           /\ p.execCmds \in Seq(CmdsOver(X)) /\ p.posArgs \in Seq(Seq(X))
           /\ p.areNextArgsPositional \in BOOLEAN /\ p.isValue \in BOOLEAN /\ p.thrown \in BOOLEAN
<1>1. PICK D \in SUBSET Seq(X) : p.args \in [D -> Seq(X)]
  BY DEF ArgStates, ArgMaps
<1>2. p.args \in [DOMAIN p.args -> Seq(X)] /\ DOMAIN p.args \subseteq Seq(X)
  BY <1>1
<1> QED BY <1>2 DEF ArgStates

\* Every argument is of one kind.
LEMMA ArgKinds ==
    ASSUME NEW X, NEW arg \in Seq(X)
    PROVE  Tag(arg) \/ Letters(arg) \/ Commands(arg) \/ Other(arg)
BY ArgBegins, Zenon DEF Tag, Letters, Commands, Other

LEMMA ArgType ==
    ASSUME NEW X, IsAlphabet(X), NEW argv \in Seq(Seq(X)), NEW p \in ArgStates(X), NEW i \in DOMAIN argv
    PROVE  ParseArg(argv, p, i) \in ArgStates(X)
<1> DEFINE arg == argv[i]
<1>0. PICK q : q = ParseArg(argv, p, i)
  OBVIOUS
<1>1. arg \in Seq(X)
  OBVIOUS
<1>2. /\ p.flagList \subseteq Seq(X) /\ p.shortFlagList \subseteq X
      /\ p.execCmds \in Seq(CmdsOver(X)) /\ p.posArgs \in Seq(Seq(X))
      /\ p.areNextArgsPositional \in BOOLEAN /\ p.isValue \in BOOLEAN /\ p.thrown \in BOOLEAN
      /\ p.args \in [DOMAIN p.args -> Seq(X)] /\ DOMAIN p.args \subseteq Seq(X)
  BY ArgStateParts
<1>3. Append(p.posArgs, arg) \in Seq(Seq(X))
  BY <1>1, <1>2, AppendProperties
<1>4. ASSUME NEW r, r = [p EXCEPT !.posArgs = Append(@, arg)] PROVE r \in ArgStates(X)
  <2> DEFINE s == Append(p.posArgs, arg)
  <2>1. r = [p EXCEPT !.posArgs = s] /\ s \in Seq(Seq(X))
    BY <1>3, <1>4
  <2> HIDE DEF s, arg
  <2> QED BY <2>1 DEF ArgStates
<1>5. CASE p.thrown
  BY <1>0, <1>5, ThrownArg
<1>6. CASE ~p.thrown /\ p.isValue
  <2>1. ParseArg(argv, p, i) = [p EXCEPT !.isValue = FALSE]
    BY <1>6, ValueArg
  <2>2. q \in ArgStates(X)
    BY <1>0, <2>1 DEF ArgStates
  <2> QED BY <1>0, <2>2
<1>7. CASE ~p.thrown /\ ~p.isValue /\ p.areNextArgsPositional
  BY <1>0, <1>4, <1>7, LateArg
<1>8. CASE ~p.thrown /\ ~p.isValue /\ ~p.areNextArgsPositional /\ arg = Dashes
  <2>1. ParseArg(argv, p, i) = [p EXCEPT !.areNextArgsPositional = TRUE]
    BY <1>8, DashesArg
  <2>2. q \in ArgStates(X)
    BY <1>0, <2>1 DEF ArgStates
  <2> QED BY <1>0, <2>2
<1>9. CASE Looks(p, arg)
  <2>1. CASE Tag(arg) /\ ~HasValue(argv, i)
    <3> DEFINE s == p.flagList \cup {arg}
    <3>1. q = [p EXCEPT !.flagList = s] /\ s \subseteq Seq(X)
      BY <1>0, <1>1, <1>2, <1>9, <2>1, FlagArg
    <3> HIDE DEF s
    <3>2. q \in ArgStates(X)
      BY <3>1 DEF ArgStates
    <3> QED BY <1>0, <3>2
  <2>2. CASE Tag(arg) /\ HasValue(argv, i) /\ arg \in DOMAIN p.args
    <3>1. ParseArg(argv, p, i) = [p EXCEPT !.thrown = TRUE]
      BY <1>9, <2>2, SecondArg
    <3>2. q \in ArgStates(X)
      BY <1>0, <3>1 DEF ArgStates
    <3> QED BY <1>0, <3>2
  <2>3. CASE Tag(arg) /\ HasValue(argv, i) /\ arg \notin DOMAIN p.args
    <3> DEFINE D == DOMAIN p.args \cup {arg}
               s == TagMap(p.args, arg, argv[i + 1])
    <3>1. q = [p EXCEPT !.args = s, !.isValue = TRUE]
      BY <1>0, <1>9, <2>3, TagArg, Zenon
    <3>2. argv[i + 1] \in Seq(X)
      <4>1. i \in 1..Len(argv) /\ i < Len(argv) /\ Len(argv) \in Nat
        BY <2>3 DEF HasValue
      <4> QED BY <4>1
    <3> HIDE DEF arg
    <3>3. s \in [D -> Seq(X)] /\ D \in SUBSET Seq(X)
      BY <1>1, <1>2, <3>2 DEF TagMap
    <3>4. s \in ArgMaps(X)
      BY <3>3 DEF ArgMaps
    <3> HIDE DEF s, D
    <3>5. q \in ArgStates(X)
      BY <3>1, <3>4 DEF ArgStates
    <3> QED BY <1>0, <3>5
  <2>4. CASE Letters(arg)
    <3> DEFINE s == p.shortFlagList \cup Range(Tail(arg))
    <3>1. Tail(arg) \in Seq(X)
      BY <1>1, <2>4, ArgBegins DEF Letters
    <3>2. Range(Tail(arg)) \subseteq X
      BY <3>1, RangeMembers
    <3>3. q = [p EXCEPT !.shortFlagList = s] /\ s \subseteq X
      BY <1>0, <1>2, <1>9, <2>4, <3>2, LettersArg
    <3> HIDE DEF s
    <3>4. q \in ArgStates(X)
      BY <3>3 DEF ArgStates
    <3> QED BY <1>0, <3>4
  <2>5. CASE Commands(arg)
    <3> DEFINE s == p.execCmds \o ParseCmds(Tail(arg))
    <3>1. Tail(arg) \in Seq(X)
      BY <1>1, <2>5, ArgBegins DEF Commands
    <3>2. ParseCmds(Tail(arg)) \in Seq(CmdsOver(X))
      BY <3>1, ParseCmdsType
    <3>3. s \in Seq(CmdsOver(X))
      BY <1>2, <3>2, ConcatProperties
    <3>4. q = [p EXCEPT !.execCmds = s]
      BY <1>0, <1>9, <2>5, CommandsArg
    <3> HIDE DEF s
    <3>5. q \in ArgStates(X)
      BY <3>3, <3>4 DEF ArgStates
    <3> QED BY <1>0, <3>5
  <2>6. CASE Other(arg)
    BY <1>0, <1>4, <1>9, <2>6, OtherArg
  <2> QED BY <1>1, <2>1, <2>2, <2>3, <2>4, <2>5, <2>6, ArgKinds
<1> QED BY <1>2, <1>5, <1>6, <1>7, <1>8, <1>9 DEF Looks

\* The loop as a machine that reads the places of the arguments.
Ids(n) == [i \in 1..n |-> i]

ArgParser(X, argv) == [p \in ArgStates(X) |-> [i \in DOMAIN argv |-> ParseArg(argv, p, i)]]

LEMMA ArgParserMachine ==
    ASSUME NEW X, IsAlphabet(X), NEW argv \in Seq(Seq(X))
    PROVE  /\ IsMachine(ArgParser(X, argv), ArgStates(X), DOMAIN argv)
           /\ NothingParsed \in ArgStates(X)
           /\ [i \in DOMAIN argv |-> i] = Ids(Len(argv))
           /\ Ids(Len(argv)) \in Seq(DOMAIN argv) /\ Len(Ids(Len(argv))) = Len(argv)
<1>1. \A p \in ArgStates(X), i \in DOMAIN argv : ParseArg(argv, p, i) \in ArgStates(X)
  BY ArgType
<1>2. <<>> \in Seq(CmdsOver(X)) /\ <<>> \in Seq(Seq(X)) /\ {} \in SUBSET Seq(X)
  BY EmptySeq
<1>3. NothingParsed \in ArgStates(X)
  <2> DEFINE f == [t \in {} |-> t]
  <2>1. f \in [{} -> Seq(X)]
    OBVIOUS
  <2>2. f \in ArgMaps(X)
    BY <1>2, <2>1 DEF ArgMaps
  <2> HIDE DEF f
  <2>3. NothingParsed = [args |-> f, flagList |-> {}, shortFlagList |-> {}, execCmds |-> <<>>,
                         posArgs |-> <<>>, areNextArgsPositional |-> FALSE, isValue |-> FALSE,
                         thrown |-> FALSE]
    BY Zenon DEF NothingParsed, f
  <2> QED BY <1>2, <2>2, <2>3 DEF ArgStates
<1>4. DOMAIN argv = 1..Len(argv) /\ Len(argv) \in Nat
  BY LenProperties
<1>5. [i \in DOMAIN argv |-> i] = Ids(Len(argv))
  BY <1>4, Zenon DEF Ids
<1>6. Ids(Len(argv)) \in Seq(DOMAIN argv) /\ Len(Ids(Len(argv))) = Len(argv)
  BY <1>4 DEF Ids
<1> QED BY <1>1, <1>3, <1>5, <1>6 DEF ArgParser, IsMachine

LEMMA ArgsAreRun ==
    ASSUME NEW X, IsAlphabet(X), NEW argv \in Seq(Seq(X))
    PROVE  ParseCommandLine(argv) =
             Run(ArgParser(X, argv), NothingParsed, [i \in DOMAIN argv |-> i], ArgStates(X))
<1> DEFINE V == ArgStates(X)
           C == DOMAIN argv
           seq == [i \in DOMAIN argv |-> i]
           G == ArgParser(X, argv)
           base == NothingParsed
           Op(p, i) == ParseArg(argv, p, i)
           Step(g) == [u \in SUBSET DOMAIN seq |->
                         IF u = {} THEN base ELSE Op(g[u \ {Max(u)}], seq[Max(u)])]
           it == CHOOSE g : g = Step(g)
<1>1. ParseCommandLine(argv) = it[DOMAIN seq]
  BY Zenon DEF ParseCommandLine, FoldLeft, MapThenFoldSet
<1>2. IsMachine(G, V, C) /\ base \in V /\ seq \in Seq(C)
  <2>1. seq = Ids(Len(argv)) /\ Ids(Len(argv)) \in Seq(C)
    BY ArgParserMachine
  <2>2. IsMachine(G, V, C) /\ base \in V
    BY ArgParserMachine
  <2> HIDE DEF seq, V, C, G, base
  <2> QED BY <2>1, <2>2
<1>0. ASSUME NEW p \in V, NEW i \in C PROVE G[p][i] = Op(p, i)
  BY DEF ArgParser
<1> HIDE DEF V, C, G, Op, base, seq
<1>3. PICK h : Iterator(h, G, base, seq, V, C)
  BY <1>2, LeftIterator
<1>4. h = Step(h)
  <2>1. ASSUME NEW u \in SUBSET DOMAIN seq, u # {} PROVE h[u] = Op(h[u \ {Max(u)}], seq[Max(u)])
    BY <1>0, <1>3, <2>1, Zenon DEF Iterator
  <2>2. \A u \in SUBSET (DOMAIN seq) :
          h[u] = IF u = {} THEN base ELSE Op(h[u \ {Max(u)}], seq[Max(u)])
    BY <2>1, <1>3, Zenon DEF Iterator
  <2>3. h = [u \in SUBSET (DOMAIN seq) |-> h[u]]
    BY <1>3, Zenon DEF Iterator
  <2> QED BY <2>2, <2>3, Zenon
<1>5. it = Step(it)
  <2> HIDE DEF Step
  <2> QED BY <1>4
<1> HIDE DEF it
<1>6. Folding(it, G, base, seq, V)
  <2>1. it[{}] = base
    <3>1. {} \in SUBSET DOMAIN seq
      OBVIOUS
    <3> QED BY <3>1, <1>5, Zenon
  <2>2. ASSUME NEW u \in SUBSET DOMAIN seq, u # {}, it[u \ {Max(u)}] \in V
        PROVE  it[u] = G[it[u \ {Max(u)}]][seq[Max(u)]]
    <3>1. it[u] = Op(it[u \ {Max(u)}], seq[Max(u)])
      BY <1>5, <2>2
    <3> QED BY <3>1, <1>0, <1>3, <2>2, Zenon DEF Iterator
  <2> QED BY <2>1, <2>2 DEF Folding
<1> HIDE DEF Step
<1>7. it[DOMAIN seq] = Run(G, base, seq, V)
  BY <1>2, <1>6, LeftFolds
<1> QED BY <1>1, <1>7 DEF G, V, base, seq

\* The states between the arguments.
ArgTrace(f, X, argv) ==
    /\ f \in [0..Len(argv) -> ArgStates(X)] /\ f[0] = NothingParsed
    /\ \A k \in 1..Len(argv) : f[k] = ParseArg(argv, f[k - 1], k)
    /\ ParseCommandLine(argv) = f[Len(argv)]

LEMMA ArgTraceExists ==
    ASSUME NEW X, IsAlphabet(X), NEW argv \in Seq(Seq(X))
    PROVE  \E f : ArgTrace(f, X, argv)
<1> DEFINE V == ArgStates(X)  C == DOMAIN argv  G == ArgParser(X, argv)
<1>1. PICK seq : seq = [i \in DOMAIN argv |-> i]
  OBVIOUS
<1>2. IsMachine(G, V, C) /\ NothingParsed \in V /\ seq \in Seq(C) /\ Len(seq) = Len(argv)
  BY <1>1, ArgParserMachine
<1>3. \A p \in V, i \in C : G[p][i] = ParseArg(argv, p, i)
  BY DEF ArgParser
<1>4. ParseCommandLine(argv) = Run(G, NothingParsed, seq, V)
  BY <1>1, ArgsAreRun
<1>5. C = 1..Len(argv) /\ Len(argv) \in Nat
  BY LenProperties
<1>6. \A k \in 1..Len(argv) : seq[k] = k
  BY <1>1, <1>5
<1> HIDE DEF V, C, G
<1>7. PICK f : Traces(f, G, NothingParsed, seq, V) /\ Run(G, NothingParsed, seq, V) = f[Len(seq)]
  BY <1>2, RunTrace
<1>8. /\ f \in [0..Len(argv) -> V] /\ f[0] = NothingParsed
      /\ \A k \in 1..Len(argv) : f[k] = G[f[k - 1]][seq[k]]
  BY <1>2, <1>7 DEF Traces
<1>9. ASSUME NEW k \in 1..Len(argv) PROVE f[k] = ParseArg(argv, f[k - 1], k)
  <2>1. f[k - 1] \in V /\ k \in C
    BY <1>5, <1>8
  <2>2. f[k] = G[f[k - 1]][k]
    BY <1>6, <1>8
  <2> QED BY <2>1, <2>2, <1>3
<1>10. ParseCommandLine(argv) = f[Len(argv)]
  BY <1>2, <1>4, <1>7
<1> QED BY <1>8, <1>9, <1>10 DEF ArgTrace, V

\* What of the places has been said after the first k arguments.
Positional(argv) == {i \in DOMAIN argv :
    i > First(argv) \/ (i < First(argv) /\ IsValue(argv[i]) /\ ~Valued(argv, i))}

CommandPlaces(argv) == {i \in DOMAIN argv : i < First(argv) /\ Starts(argv[i], <<"+">>)}

ArgsAt(argv, s) == [k \in DOMAIN s |-> argv[s[k]]]

CmdsAt(argv, s) == [k \in DOMAIN s |-> ParseCmds(Tail(argv[s[k]]))]

KeptArgs(argv, k) == ArgsAt(argv, KeepIn(Positional(argv), Ids(k)))

KeptCmds(argv, k) == CmdsAt(argv, KeepIn(CommandPlaces(argv), Ids(k)))

Repeated(argv, k) == \E i, j \in 1..k + 1 :
    i < j /\ Valued(argv, i) /\ Valued(argv, j) /\ argv[i - 1] = argv[j - 1]

MapRight(argv, k, f) ==
    /\ \A i \in 1..k + 1 : Valued(argv, i) => argv[i - 1] \in DOMAIN f /\ f[argv[i - 1]] = argv[i]
    /\ \A t \in DOMAIN f : \E i \in 1..k + 1 : Valued(argv, i) /\ argv[i - 1] = t

FlagPlaces(argv, k) == {i \in 1..k : Tagged(argv, i) /\ ~Valued(argv, i + 1)}
FlagsRight(argv, k, s) == s = {argv[i] : i \in FlagPlaces(argv, k)}

LetterPlaces(argv, k) == {i \in 1..k : Lettered(argv, i)}
LettersRight(argv, k, s) == s = UNION {Range(Tail(argv[i])) : i \in LetterPlaces(argv, k)}

\* The places that are kept, one by one.
LEMMA IdsAppend ==
    ASSUME NEW n \in Nat
    PROVE  Ids(n) \in Seq(Nat) /\ Ids(n + 1) = Append(Ids(n), n + 1)
BY DEF Ids

LEMMA KeepMore ==
    ASSUME NEW S, NEW n \in Nat
    PROVE  /\ KeepIn(S, Ids(n)) \in Seq(Nat)
           /\ KeepIn(S, Ids(n + 1)) =
                IF n + 1 \in S THEN Append(KeepIn(S, Ids(n)), n + 1) ELSE KeepIn(S, Ids(n))
<1>1. Ids(n) \in Seq(Nat) /\ Ids(n + 1) = Append(Ids(n), n + 1)
  BY IdsAppend, Zenon
<1>3. n + 1 \in Nat
  OBVIOUS
<1>2. /\ \A seq \in Seq(Nat) : KeepIn(S, seq) \in Seq(Nat)
      /\ \A seq \in Seq(Nat), c \in Nat :
            KeepIn(S, Append(seq, c)) = IF c \in S THEN Append(KeepIn(S, seq), c) ELSE KeepIn(S, seq)
  BY KeepLaws, Zenon
<1> QED BY <1>1, <1>2, <1>3, Zenon

LEMMA KeepNone == ASSUME NEW S PROVE KeepIn(S, Ids(0)) = <<>>
<1>1. Ids(0) = <<>>
  BY DEF Ids
<1> QED BY <1>1, KeepLaws, Zenon

LEMMA KeptArgsMore ==
    ASSUME NEW argv, NEW n \in Nat
    PROVE  KeptArgs(argv, n + 1) =
             IF n + 1 \in Positional(argv) THEN Append(KeptArgs(argv, n), argv[n + 1])
             ELSE KeptArgs(argv, n)
<1> DEFINE S == Positional(argv)
<1>1. \A s \in Seq(Nat) : \A m \in Nat : ArgsAt(argv, Append(s, m)) = Append(ArgsAt(argv, s), argv[m])
  BY DEF ArgsAt
<1> HIDE DEF S
<1>2. KeepIn(S, Ids(n)) \in Seq(Nat) /\ n + 1 \in Nat
  BY KeepMore
<1>3. CASE n + 1 \in S
  <2>1. KeepIn(S, Ids(n + 1)) = Append(KeepIn(S, Ids(n)), n + 1)
    BY <1>3, KeepMore, Zenon
  <2> QED BY <1>1, <1>2, <1>3, <2>1, Zenon DEF KeptArgs, S
<1>4. CASE n + 1 \notin S
  <2>1. KeepIn(S, Ids(n + 1)) = KeepIn(S, Ids(n))
    BY <1>4, KeepMore, Zenon
  <2> QED BY <1>4, <2>1, Zenon DEF KeptArgs, S
<1> QED BY <1>3, <1>4

LEMMA KeptCmdsMore ==
    ASSUME NEW argv, NEW n \in Nat
    PROVE  KeptCmds(argv, n + 1) =
             IF n + 1 \in CommandPlaces(argv)
             THEN Append(KeptCmds(argv, n), ParseCmds(Tail(argv[n + 1]))) ELSE KeptCmds(argv, n)
<1> DEFINE S == CommandPlaces(argv)  g(m) == ParseCmds(Tail(argv[m]))
           At(s) == [k \in DOMAIN s |-> g(s[k])]
<1> HIDE DEF g
<1>1. \A s \in Seq(Nat) : \A m \in Nat : At(Append(s, m)) = Append(At(s), g(m))
  OBVIOUS
<1>0. \A s : CmdsAt(argv, s) = At(s)
  BY Zenon DEF CmdsAt, g
<1> HIDE DEF S, At
<1>2. KeepIn(S, Ids(n)) \in Seq(Nat) /\ n + 1 \in Nat
  BY KeepMore
<1>3. CASE n + 1 \in S
  <2>1. KeepIn(S, Ids(n + 1)) = Append(KeepIn(S, Ids(n)), n + 1)
    BY <1>3, KeepMore, Zenon
  <2>2. KeptCmds(argv, n + 1) = Append(KeptCmds(argv, n), g(n + 1))
    BY <1>0, <1>1, <1>2, <2>1, Zenon DEF KeptCmds, S
  <2> QED BY <1>3, <2>2, Zenon DEF S, g
<1>4. CASE n + 1 \notin S
  <2>1. KeepIn(S, Ids(n + 1)) = KeepIn(S, Ids(n))
    BY <1>4, KeepMore, Zenon
  <2> QED BY <1>4, <2>1, Zenon DEF KeptCmds, S
<1> QED BY <1>3, <1>4

LEMMA KeptNone ==
    ASSUME NEW argv
    PROVE  KeptArgs(argv, 0) = <<>> /\ KeptCmds(argv, 0) = <<>>
<1>1. ArgsAt(argv, <<>>) = <<>> /\ CmdsAt(argv, <<>>) = <<>>
  BY DEF ArgsAt, CmdsAt
<1> QED BY <1>1, KeepNone, Zenon DEF KeptArgs, KeptCmds

LEMMA KeptCmdsType ==
    ASSUME NEW X, IsAlphabet(X), NEW argv \in Seq(Seq(X)), NEW n \in Nat
    PROVE  KeptCmds(argv, n) \in Seq(Seq(CmdsOver(X)))
<1> DEFINE W == Seq(CmdsOver(X))
           T == {m \in Nat : KeptCmds(argv, m) \in Seq(W)}
<1>1. 0 \in T
  <2>1. <<>> \in Seq(W)
    BY EmptySeq
  <2>2. KeptCmds(argv, 0) = <<>>
    BY KeptNone
  <2> HIDE DEF W
  <2> QED BY <2>1, <2>2
<1>2. ASSUME NEW m \in T PROVE m + 1 \in T
  <2>1. CASE m + 1 \in CommandPlaces(argv)
    <3> DEFINE v == ParseCmds(Tail(argv[m + 1]))
    <3>1. argv[m + 1] \in Seq(X) /\ Starts(argv[m + 1], <<"+">>)
      BY <2>1 DEF CommandPlaces
    <3>2. Tail(argv[m + 1]) \in Seq(X)
      BY <3>1, ArgBegins
    <3>3. v \in W
      BY <3>2, ParseCmdsType
    <3>4. KeptCmds(argv, m + 1) = Append(KeptCmds(argv, m), v)
      BY <2>1, KeptCmdsMore, Zenon
    <3> HIDE DEF v, W
    <3>5. Append(KeptCmds(argv, m), v) \in Seq(W)
      BY <3>3, AppendProperties
    <3>6. m + 1 \in Nat
      OBVIOUS
    <3> QED BY <3>4, <3>5, <3>6, Zenon
  <2>2. CASE m + 1 \notin CommandPlaces(argv)
    <3>1. KeptCmds(argv, m + 1) = KeptCmds(argv, m)
      BY <2>2, KeptCmdsMore, Zenon
    <3> QED BY <3>1
  <2> QED BY <2>1, <2>2
<1>3. T = Nat
  <2> HIDE DEF T
  <2>1. T \in SUBSET Nat
    BY DEF T
  <2> QED BY <2>1, <1>1, <1>2, Induction
<1> QED BY <1>3

\* One more argument that is no tag with a value.
LEMMA NoMoreValues ==
    ASSUME NEW argv, NEW k \in Nat, ~Valued(argv, k + 2)
    PROVE  /\ Repeated(argv, k + 1) <=> Repeated(argv, k)
           /\ \A f : MapRight(argv, k, f) => MapRight(argv, k + 1, f)
<1>1. (k + 1) + 1 = k + 2 /\ 1..k + 2 = 1..k + 1 \cup {k + 2}
  OBVIOUS
<1>2. \A i \in 1..(k + 1) + 1 : Valued(argv, i) => i \in 1..k + 1
  BY <1>1
<1>3. \A i \in 1..k + 1 : i \in 1..(k + 1) + 1
  OBVIOUS
<1>4. Repeated(argv, k + 1) <=> Repeated(argv, k)
  BY <1>2, <1>3, Zenon DEF Repeated
<1>5. \A f : MapRight(argv, k, f) => MapRight(argv, k + 1, f)
  BY <1>2, <1>3, Zenon DEF MapRight
<1> QED BY <1>4, <1>5

\* Of the flags and the letters, with one more argument.
LEMMA FlagPlacesMore ==
    ASSUME NEW argv, NEW k \in Nat
    PROVE  FlagPlaces(argv, k + 1) =
             IF Tagged(argv, k + 1) /\ ~Valued(argv, k + 2) THEN FlagPlaces(argv, k) \cup {k + 1}
             ELSE FlagPlaces(argv, k)
<1>1. 1..k + 1 = 1..k \cup {k + 1} /\ (k + 1) + 1 = k + 2
  OBVIOUS
<1>2. Valued(argv, (k + 1) + 1) <=> Valued(argv, k + 2)
  BY <1>1, Zenon
<1> QED BY <1>1, <1>2, Zenon DEF FlagPlaces

LEMMA LetterPlacesMore ==
    ASSUME NEW argv, NEW k \in Nat
    PROVE  LetterPlaces(argv, k + 1) =
             IF Lettered(argv, k + 1) THEN LetterPlaces(argv, k) \cup {k + 1} ELSE LetterPlaces(argv, k)
<1>1. 1..k + 1 = 1..k \cup {k + 1}
  OBVIOUS
<1> QED BY <1>1, Zenon DEF LetterPlaces

LEMMA SameFlags ==
    ASSUME NEW argv, NEW k \in Nat, NEW s, FlagsRight(argv, k, s),
           ~Tagged(argv, k + 1) \/ Valued(argv, k + 2)
    PROVE  FlagsRight(argv, k + 1, s)
BY FlagPlacesMore, Zenon DEF FlagsRight

LEMMA MoreFlags ==
    ASSUME NEW argv, NEW k \in Nat, NEW s, FlagsRight(argv, k, s),
           Tagged(argv, k + 1), ~Valued(argv, k + 2)
    PROVE  FlagsRight(argv, k + 1, s \cup {argv[k + 1]})
<1>1. FlagPlaces(argv, k + 1) = FlagPlaces(argv, k) \cup {k + 1}
  BY FlagPlacesMore, Zenon
<1> QED BY <1>1 DEF FlagsRight

LEMMA SameLetters ==
    ASSUME NEW argv, NEW k \in Nat, NEW s, LettersRight(argv, k, s), ~Lettered(argv, k + 1)
    PROVE  LettersRight(argv, k + 1, s)
BY LetterPlacesMore, Zenon DEF LettersRight

LEMMA MoreLetters ==
    ASSUME NEW argv, NEW k \in Nat, NEW s, LettersRight(argv, k, s), Lettered(argv, k + 1)
    PROVE  LettersRight(argv, k + 1, s \cup Range(Tail(argv[k + 1])))
<1>1. LetterPlaces(argv, k + 1) = LetterPlaces(argv, k) \cup {k + 1}
  BY LetterPlacesMore, Zenon
<1> DEFINE R(i) == Range(Tail(argv[i]))
<1>2. UNION {R(i) : i \in LetterPlaces(argv, k) \cup {k + 1}} =
        (UNION {R(i) : i \in LetterPlaces(argv, k)}) \cup R(k + 1)
  <2> HIDE DEF R
  <2> QED OBVIOUS
<1> QED BY <1>1, <1>2, Zenon DEF LettersRight

\* What is true of the state between two arguments.
ArgData(argv, k, p) ==
    /\ p.posArgs = KeptArgs(argv, k)
    /\ p.execCmds = FlattenSeq(KeptCmds(argv, k))
    /\ MapRight(argv, k, p.args)
    /\ FlagsRight(argv, k, p.flagList)
    /\ LettersRight(argv, k, p.shortFlagList)

ArgInv(argv, k, p) ==
    /\ p.thrown <=> Repeated(argv, k)
    /\ ~p.thrown =>
         /\ p.areNextArgsPositional <=> First(argv) <= k
         /\ p.isValue <=> Valued(argv, k + 1)
         /\ ArgData(argv, k, p)

LEMMA ArgBegun == ASSUME NEW X, NEW argv \in Seq(Seq(X)) PROVE ArgInv(argv, 0, NothingParsed)
<1>0. First(argv) \in 1..Len(argv) + 1
  BY FirstIs
<1>1. PICK p : p = NothingParsed
  OBVIOUS
<1>2. /\ p.args = [t \in {} |-> t] /\ p.flagList = {} /\ p.shortFlagList = {}
      /\ p.execCmds = <<>> /\ p.posArgs = <<>>
      /\ p.areNextArgsPositional = FALSE /\ p.isValue = FALSE /\ p.thrown = FALSE
  BY <1>1 DEF NothingParsed
<1>3. DOMAIN p.args = {}
  BY <1>2
<1>4. \A i \in 1..0 + 1 : ~Valued(argv, i)
  <2>1. \A i \in 1..0 + 1 : i \notin 2..First(argv) - 1
    OBVIOUS
  <2> QED BY <2>1, Zenon DEF Valued
<1>5. ~Repeated(argv, 0) /\ MapRight(argv, 0, p.args)
  BY <1>3, <1>4, Zenon DEF Repeated, MapRight
<1>6. FlagsRight(argv, 0, p.flagList) /\ LettersRight(argv, 0, p.shortFlagList)
  <2>1. FlagPlaces(argv, 0) = {} /\ LetterPlaces(argv, 0) = {}
    BY DEF FlagPlaces, LetterPlaces
  <2> QED BY <2>1, <1>2 DEF FlagsRight, LettersRight
<1>7. p.posArgs = KeptArgs(argv, 0) /\ p.execCmds = FlattenSeq(KeptCmds(argv, 0))
  BY <1>2, KeptNone, ArgsFlatLaws, Zenon
<1>8. ~Valued(argv, 0 + 1) /\ ~(First(argv) <= 0)
  <2>1. 0 + 1 \in 1..0 + 1
    OBVIOUS
  <2> QED BY <2>1, <1>0, <1>4
<1> QED BY <1>1, <1>2, <1>5, <1>6, <1>7, <1>8 DEF ArgInv, ArgData

\* An argument that no part of the result is about.
LEMMA QuietArg ==
    ASSUME NEW argv, NEW k \in Nat, NEW p, ArgData(argv, k, p), ~Valued(argv, k + 2),
           k + 1 \notin Positional(argv), k + 1 \notin CommandPlaces(argv), ~Tagged(argv, k + 1), ~Lettered(argv, k + 1)
    PROVE  ArgData(argv, k + 1, p) /\ (Repeated(argv, k + 1) <=> Repeated(argv, k))
<1>1. KeptArgs(argv, k + 1) = KeptArgs(argv, k) /\ KeptCmds(argv, k + 1) = KeptCmds(argv, k)
  BY KeptArgsMore, KeptCmdsMore, Zenon
<1>2. MapRight(argv, k + 1, p.args) /\ (Repeated(argv, k + 1) <=> Repeated(argv, k))
  BY NoMoreValues DEF ArgData
<1>3. FlagsRight(argv, k + 1, p.flagList)
  BY SameFlags DEF ArgData
<1>4. LettersRight(argv, k + 1, p.shortFlagList)
  BY SameLetters DEF ArgData
<1> QED BY <1>1, <1>2, <1>3, <1>4, Zenon DEF ArgData

\* A positional argument.
LEMMA PositionalArg ==
    ASSUME NEW argv, NEW k \in Nat, NEW p, NEW q, ArgData(argv, k, p), ~Valued(argv, k + 2),
           k + 1 \in Positional(argv), k + 1 \notin CommandPlaces(argv), ~Tagged(argv, k + 1), ~Lettered(argv, k + 1),
           q.posArgs = Append(p.posArgs, argv[k + 1]), q.execCmds = p.execCmds,
           q.args = p.args, q.flagList = p.flagList, q.shortFlagList = p.shortFlagList
    PROVE  ArgData(argv, k + 1, q) /\ (Repeated(argv, k + 1) <=> Repeated(argv, k))
<1>1. KeptCmds(argv, k + 1) = KeptCmds(argv, k)
  BY KeptCmdsMore, Zenon
<1>2. KeptArgs(argv, k + 1) = Append(KeptArgs(argv, k), argv[k + 1])
  BY KeptArgsMore, Zenon
<1>3. q.posArgs = KeptArgs(argv, k + 1)
  BY <1>2, Zenon DEF ArgData
<1>4. MapRight(argv, k + 1, p.args) /\ (Repeated(argv, k + 1) <=> Repeated(argv, k))
  BY NoMoreValues DEF ArgData
<1>5. FlagsRight(argv, k + 1, p.flagList)
  BY SameFlags DEF ArgData
<1>6. LettersRight(argv, k + 1, p.shortFlagList)
  BY SameLetters DEF ArgData
<1> QED BY <1>1, <1>3, <1>4, <1>5, <1>6, Zenon DEF ArgData

\* Commands.
LEMMA CommandsData ==
    ASSUME NEW X, IsAlphabet(X), NEW argv \in Seq(Seq(X)),
           NEW k \in Nat, NEW p, NEW q, ArgData(argv, k, p), ~Valued(argv, k + 2),
           k + 1 \notin Positional(argv), k + 1 \in CommandPlaces(argv), ~Tagged(argv, k + 1), ~Lettered(argv, k + 1),
           q.execCmds = p.execCmds \o ParseCmds(Tail(argv[k + 1])), q.posArgs = p.posArgs,
           q.args = p.args, q.flagList = p.flagList, q.shortFlagList = p.shortFlagList
    PROVE  ArgData(argv, k + 1, q) /\ (Repeated(argv, k + 1) <=> Repeated(argv, k))
<1> DEFINE v == ParseCmds(Tail(argv[k + 1]))
<1>1. KeptArgs(argv, k + 1) = KeptArgs(argv, k)
  BY KeptArgsMore, Zenon
<1>2. KeptCmds(argv, k + 1) = Append(KeptCmds(argv, k), v)
  BY KeptCmdsMore, Zenon
<1>3. FlattenSeq(Append(KeptCmds(argv, k), v)) = FlattenSeq(KeptCmds(argv, k)) \o v
  <2>1. argv[k + 1] \in Seq(X) /\ Starts(argv[k + 1], <<"+">>)
    BY DEF CommandPlaces
  <2>2. Tail(argv[k + 1]) \in Seq(X)
    BY <2>1, ArgBegins
  <2> DEFINE W == CmdsOver(X)
  <2>3. v \in Seq(W) /\ KeptCmds(argv, k) \in Seq(Seq(W))
    BY <2>2, ParseCmdsType, KeptCmdsType
  <2> HIDE DEF v, W
  <2> QED BY <2>3, FlatLaws, Zenon
<1>4. q.execCmds = FlattenSeq(KeptCmds(argv, k + 1))
  BY <1>2, <1>3, Zenon DEF ArgData
<1>5. MapRight(argv, k + 1, p.args) /\ (Repeated(argv, k + 1) <=> Repeated(argv, k))
  BY NoMoreValues DEF ArgData
<1>6. FlagsRight(argv, k + 1, p.flagList)
  BY SameFlags DEF ArgData
<1>7. LettersRight(argv, k + 1, p.shortFlagList)
  BY SameLetters DEF ArgData
<1> QED BY <1>1, <1>4, <1>5, <1>6, <1>7, Zenon DEF ArgData

\* A tag with a value that is not the first one.
LEMMA SecondValue ==
    ASSUME NEW argv, NEW k \in Nat, NEW f, MapRight(argv, k, f),
           Valued(argv, k + 2), argv[k + 1] \in DOMAIN f
    PROVE  Repeated(argv, k + 1)
<1>1. PICK i \in 1..k + 1 : Valued(argv, i) /\ argv[i - 1] = argv[k + 1]
  BY DEF MapRight
<1>2. i \in 1..(k + 1) + 1 /\ k + 2 \in 1..(k + 1) + 1 /\ i < k + 2 /\ (k + 2) - 1 = k + 1
  OBVIOUS
<1> QED BY <1>1, <1>2 DEF Repeated

\* A tag with a value that is the first one.
LEMMA FirstValue ==
    ASSUME NEW argv, NEW k \in Nat, NEW f, MapRight(argv, k, f), ~Repeated(argv, k),
           Valued(argv, k + 2), argv[k + 1] \notin DOMAIN f
    PROVE  ~Repeated(argv, k + 1) /\ MapRight(argv, k + 1, TagMap(f, argv[k + 1], argv[k + 2]))
<1> DEFINE t == argv[k + 1]  v == argv[k + 2]  g == TagMap(f, t, v)
<1>1. /\ DOMAIN g = DOMAIN f \cup {t} /\ g[t] = v
      /\ \A u \in DOMAIN f : g[u] = f[u]
  BY DEF TagMap
<1>2. /\ \A i \in 1..(k + 1) + 1 : i \in 1..k + 1 \/ i = k + 2
      /\ \A i \in 1..k + 1 : i \in 1..(k + 1) + 1 /\ ~(k + 2 < i)
      /\ k + 2 \in 1..(k + 1) + 1 /\ (k + 2) - 1 = k + 1 /\ ~(k + 2 < k + 2)
  OBVIOUS
<1>3. ~Repeated(argv, k + 1)
  <2> SUFFICES ASSUME NEW i \in 1..(k + 1) + 1, NEW j \in 1..(k + 1) + 1, i < j,
                      Valued(argv, i), Valued(argv, j), argv[i - 1] = argv[j - 1]
               PROVE  FALSE
    BY DEF Repeated
  <2>1. i \in 1..k + 1
    BY <1>2
  <2>2. CASE j \in 1..k + 1
    BY <2>1, <2>2 DEF Repeated
  <2>3. CASE j = k + 2
    <3>1. argv[i - 1] = t
      BY <1>2, <2>3
    <3> QED BY <2>1, <3>1 DEF MapRight
  <2> QED BY <2>2, <2>3, <1>2
<1>4. ASSUME NEW i \in 1..(k + 1) + 1, Valued(argv, i)
      PROVE  argv[i - 1] \in DOMAIN g /\ g[argv[i - 1]] = argv[i]
  <2>1. CASE i \in 1..k + 1
    <3>1. argv[i - 1] \in DOMAIN f /\ f[argv[i - 1]] = argv[i]
      BY <2>1, <1>4 DEF MapRight
    <3> QED BY <3>1, <1>1
  <2>2. CASE i = k + 2
    <3>1. argv[i - 1] = t /\ argv[i] = v
      BY <1>2, <2>2
    <3> QED BY <3>1, <1>1
  <2> QED BY <2>1, <2>2, <1>2
<1>5. ASSUME NEW u \in DOMAIN g PROVE \E i \in 1..(k + 1) + 1 : Valued(argv, i) /\ argv[i - 1] = u
  <2>1. CASE u \in DOMAIN f
    <3>1. PICK i \in 1..k + 1 : Valued(argv, i) /\ argv[i - 1] = u
      BY <2>1 DEF MapRight
    <3> QED BY <3>1, <1>2
  <2>2. CASE u = t
    BY <2>2, <1>2
  <2> QED BY <2>1, <2>2, <1>1
<1> HIDE DEF g
<1> QED BY <1>3, <1>4, <1>5, Zenon DEF MapRight, g

\* The places of an argument by its kind.
LEMMA PlaceOf ==
    ASSUME NEW X, NEW argv \in Seq(Seq(X)), NEW i \in DOMAIN argv
    PROVE  /\ i \in Positional(argv) <=>
                i > First(argv) \/ (i < First(argv) /\ IsValue(argv[i]) /\ ~Valued(argv, i))
           /\ i \in CommandPlaces(argv) <=> i < First(argv) /\ Starts(argv[i], <<"+">>)
BY Zenon DEF Positional, CommandPlaces

\* One more argument.
LEMMA ArgStep ==
    ASSUME NEW X, IsAlphabet(X), NEW argv \in Seq(Seq(X)), NEW k \in Nat, k + 1 \in DOMAIN argv,
           NEW p \in ArgStates(X), ArgInv(argv, k, p)
    PROVE  ArgInv(argv, k + 1, ParseArg(argv, p, k + 1))
<1> DEFINE i == k + 1  F == First(argv)  N == Len(argv)  arg == argv[i]
<1>0. PICK q : q = ParseArg(argv, p, i)
  OBVIOUS
<1>1. i \in DOMAIN argv /\ i \in 1..N /\ N \in Nat /\ i + 1 = k + 2 /\ arg \in Seq(X)
  <2>1. DOMAIN argv = 1..N /\ N \in Nat
    BY LenProperties
  <2> QED BY <2>1, ElementOfSeq
<1>2. /\ F \in Nat /\ F <= N + 1
      /\ Valued(argv, i) => i < F /\ ~Tagged(argv, i) /\ IsValue(arg)
      /\ ~Tagged(argv, i) => ~Valued(argv, k + 2)
      /\ i >= F => ~Tagged(argv, i)
      /\ i = F => arg = Dashes
      /\ i < F => arg # Dashes /\ (Tagged(argv, i) <=> Starts(arg, Dashes))
      /\ Tagged(argv, i) => (Valued(argv, k + 2) <=> HasValue(argv, i))
  BY <1>1, Places
<1>3. /\ i \in Positional(argv) <=> i > F \/ (i < F /\ IsValue(arg) /\ ~Valued(argv, i))
      /\ i \in CommandPlaces(argv) <=> i < F /\ Starts(arg, <<"+">>)
  BY <1>1, PlaceOf
<1>8. Lettered(argv, i) <=> i < F /\ Starts(arg, <<"-">>) /\ ~Starts(arg, Dashes)
  BY Zenon DEF Lettered, Dashes
<1>4. p.thrown <=> Repeated(argv, k)
  BY DEF ArgInv
<1>5. /\ p.areNextArgsPositional \in BOOLEAN /\ p.isValue \in BOOLEAN /\ p.thrown \in BOOLEAN
  BY ArgStateParts
<1>6. CASE p.thrown
  <2>1. q = p
    BY <1>0, <1>6, ThrownArg
  <2>2. Repeated(argv, i)
    <3>1. \A j \in 1..k + 1 : j \in 1..i + 1
      OBVIOUS
    <3> QED BY <3>1, <1>4, <1>6, Zenon DEF Repeated
  <2> QED BY <1>0, <1>6, <2>1, <2>2 DEF ArgInv
<1>7. CASE ~p.thrown
  <2>1. /\ p.areNextArgsPositional <=> F <= k
        /\ p.isValue <=> Valued(argv, i)
        /\ ArgData(argv, k, p) /\ ~Repeated(argv, k)
    BY <1>4, <1>7 DEF ArgInv
  <2>2. IsValue(arg) <=> ~Starts(arg, <<"-">>) /\ ~Starts(arg, <<"+">>)
    BY DEF IsValue
  <2>3. CASE p.isValue
    <3>1. ParseArg(argv, p, i) = [p EXCEPT !.isValue = FALSE]
      BY <1>7, <2>3, ValueArg
    <3>2. /\ q.posArgs = p.posArgs /\ q.execCmds = p.execCmds /\ q.args = p.args
          /\ q.flagList = p.flagList /\ q.shortFlagList = p.shortFlagList
          /\ q.areNextArgsPositional = p.areNextArgsPositional /\ q.isValue = FALSE /\ q.thrown = FALSE
      BY <1>0, <1>7, <3>1, <1>5 DEF ArgStates
    <3>3. /\ i < F /\ ~Tagged(argv, i) /\ ~Valued(argv, k + 2)
          /\ i \notin Positional(argv) /\ i \notin CommandPlaces(argv) /\ ~Lettered(argv, i)
      BY <1>2, <1>3, <1>8, <2>1, <2>2, <2>3
    <3>4. ArgData(argv, i, p) /\ ~Repeated(argv, i)
      BY <3>3, <2>1, QuietArg
    <3>5. ArgData(argv, i, q)
      BY <3>2, <3>4 DEF ArgData
    <3>6. F <= k <=> F <= i
      BY <3>3, <1>2
    <3> QED BY <1>0, <1>1, <2>1, <3>2, <3>3, <3>4, <3>5, <3>6 DEF ArgInv
  <2>4. CASE ~p.isValue /\ p.areNextArgsPositional
    <3>1. ParseArg(argv, p, i) = [p EXCEPT !.posArgs = Append(@, arg)]
      BY <1>7, <2>4, LateArg, Zenon
    <3>2. /\ q.posArgs = Append(p.posArgs, arg) /\ q.execCmds = p.execCmds /\ q.args = p.args
          /\ q.flagList = p.flagList /\ q.shortFlagList = p.shortFlagList
          /\ q.areNextArgsPositional = p.areNextArgsPositional /\ q.isValue = FALSE /\ q.thrown = FALSE
      BY <1>0, <1>5, <1>7, <2>4, <3>1 DEF ArgStates
    <3>3. /\ i > F /\ ~Tagged(argv, i) /\ ~Valued(argv, k + 2)
          /\ i \in Positional(argv) /\ i \notin CommandPlaces(argv) /\ ~Lettered(argv, i)
      BY <1>2, <1>3, <1>8, <2>1, <2>4
    <3>4. ArgData(argv, i, q) /\ ~Repeated(argv, i)
      BY <3>2, <3>3, <2>1, PositionalArg
    <3>5. /\ q.areNextArgsPositional /\ F <= i
          /\ ~q.isValue /\ ~Valued(argv, i + 1) /\ ~q.thrown
      BY <1>1, <1>2, <2>1, <2>4, <3>2, <3>3
    <3> QED BY <1>0, <3>4, <3>5 DEF ArgInv
  <2>5. CASE ~p.isValue /\ ~p.areNextArgsPositional /\ arg = Dashes
    <3>1. ParseArg(argv, p, i) = [p EXCEPT !.areNextArgsPositional = TRUE]
      BY <1>7, <2>5, DashesArg
    <3>2. /\ q.posArgs = p.posArgs /\ q.execCmds = p.execCmds /\ q.args = p.args
          /\ q.flagList = p.flagList /\ q.shortFlagList = p.shortFlagList
          /\ q.areNextArgsPositional = TRUE /\ q.isValue = FALSE /\ q.thrown = FALSE
      BY <1>0, <1>5, <1>7, <2>5, <3>1 DEF ArgStates
    <3>3. /\ i = F /\ ~Tagged(argv, i) /\ ~Valued(argv, k + 2)
          /\ i \notin Positional(argv) /\ i \notin CommandPlaces(argv) /\ ~Lettered(argv, i)
      BY <1>2, <1>3, <1>8, <2>1, <2>5
    <3>4. ArgData(argv, i, p) /\ ~Repeated(argv, i)
      BY <3>3, <2>1, QuietArg
    <3>5. ArgData(argv, i, q)
      BY <3>2, <3>4 DEF ArgData
    <3> QED BY <1>0, <1>1, <1>2, <3>2, <3>3, <3>4, <3>5 DEF ArgInv
  <2>6. CASE Looks(p, arg)
    <3>0. ~p.isValue /\ ~p.areNextArgsPositional /\ arg # Dashes /\ i < F /\ ~Valued(argv, i)
      BY <1>2, <2>1, <2>6 DEF Looks
    <3>1. CASE Tag(arg) /\ ~HasValue(argv, i)
      <4>1. ParseArg(argv, p, i) = [p EXCEPT !.flagList = @ \cup {arg}]
        BY <2>6, <3>1, FlagArg, Zenon
      <4>2. /\ q.posArgs = p.posArgs /\ q.execCmds = p.execCmds /\ q.args = p.args
            /\ q.flagList = p.flagList \cup {arg} /\ q.shortFlagList = p.shortFlagList
            /\ q.areNextArgsPositional = FALSE /\ q.isValue = FALSE /\ q.thrown = FALSE
        BY <1>0, <1>5, <1>7, <3>0, <4>1 DEF ArgStates
      <4>3. /\ ~Valued(argv, k + 2) /\ i \notin Positional(argv) /\ i \notin CommandPlaces(argv)
            /\ Tagged(argv, i) /\ ~Lettered(argv, i)
        BY <1>2, <1>3, <1>8, <2>2, <3>0, <3>1 DEF Tag
      <4>4. KeptArgs(argv, i) = KeptArgs(argv, k) /\ KeptCmds(argv, i) = KeptCmds(argv, k)
        BY <4>3, KeptArgsMore, KeptCmdsMore, Zenon
      <4>5. MapRight(argv, i, p.args) /\ ~Repeated(argv, i)
        BY <2>1, <4>3, NoMoreValues DEF ArgData
      <4>6. FlagsRight(argv, i, q.flagList)
        <5>1. FlagsRight(argv, k, p.flagList) /\ q.flagList = p.flagList \cup {argv[k + 1]}
          BY <2>1, <4>2, Zenon DEF ArgData
        <5>2. Tagged(argv, k + 1) /\ ~Valued(argv, k + 2)
          BY <4>3, Zenon
        <5>3. FlagsRight(argv, k + 1, p.flagList \cup {argv[k + 1]})
          BY <5>1, <5>2, MoreFlags
        <5> QED BY <5>1, <5>3, Zenon
      <4>7. LettersRight(argv, i, p.shortFlagList)
        BY <2>1, <4>3, SameLetters, Zenon DEF ArgData
      <4>8. ArgData(argv, i, q)
        BY <2>1, <4>2, <4>4, <4>5, <4>6, <4>7, Zenon DEF ArgData
      <4> QED BY <1>0, <1>1, <1>2, <3>0, <4>2, <4>3, <4>5, <4>8 DEF ArgInv
    <3>2. CASE Tag(arg) /\ HasValue(argv, i) /\ arg \in DOMAIN p.args
      <4>1. ParseArg(argv, p, i) = [p EXCEPT !.thrown = TRUE]
        BY <2>6, <3>2, SecondArg
      <4>2. q.thrown = TRUE
        BY <1>0, <4>1 DEF ArgStates
      <4>3. Valued(argv, k + 2)
        BY <1>2, <3>0, <3>2 DEF Tag
      <4>4. Repeated(argv, i)
        BY <2>1, <3>2, <4>3, SecondValue DEF ArgData
      <4> QED BY <1>0, <4>2, <4>4 DEF ArgInv
    <3>3. CASE Tag(arg) /\ HasValue(argv, i) /\ arg \notin DOMAIN p.args
      <4>0. ParseArg(argv, p, i) = [p EXCEPT !.args = TagMap(@, arg, argv[i + 1]), !.isValue = TRUE]
        BY <2>6, <3>3, TagArg, Zenon
      <4> DEFINE g == TagMap(p.args, arg, argv[k + 2])
      <4>1. q = [p EXCEPT !.args = g, !.isValue = TRUE]
        BY <1>0, <1>1, <4>0
      <4> HIDE DEF g
      <4>2. /\ q.posArgs = p.posArgs /\ q.execCmds = p.execCmds /\ q.args = g
            /\ q.flagList = p.flagList /\ q.shortFlagList = p.shortFlagList
            /\ q.areNextArgsPositional = FALSE /\ q.isValue = TRUE /\ q.thrown = FALSE
        BY <1>5, <1>7, <3>0, <4>1 DEF ArgStates
      <4>3. /\ Valued(argv, k + 2) /\ i \notin Positional(argv) /\ i \notin CommandPlaces(argv)
            /\ ~Lettered(argv, i)
        BY <1>2, <1>3, <1>8, <2>2, <3>0, <3>3 DEF Tag
      <4>4. KeptArgs(argv, i) = KeptArgs(argv, k) /\ KeptCmds(argv, i) = KeptCmds(argv, k)
        BY <4>3, KeptArgsMore, KeptCmdsMore, Zenon
      <4>5. ~Repeated(argv, i) /\ MapRight(argv, i, g)
        BY <2>1, <3>3, <4>3, FirstValue DEF ArgData, g
      <4>6. FlagsRight(argv, i, p.flagList)
        BY <2>1, <4>3, SameFlags, Zenon DEF ArgData
      <4>7. LettersRight(argv, i, p.shortFlagList)
        BY <2>1, <4>3, SameLetters, Zenon DEF ArgData
      <4>8. ArgData(argv, i, q)
        BY <2>1, <4>2, <4>4, <4>5, <4>6, <4>7, Zenon DEF ArgData
      <4> QED BY <1>0, <1>1, <1>2, <3>0, <4>2, <4>3, <4>5, <4>8 DEF ArgInv
    <3>4. CASE Letters(arg)
      <4>1. ParseArg(argv, p, i) = [p EXCEPT !.shortFlagList = @ \cup Range(Tail(arg))]
        BY <2>6, <3>4, LettersArg, Zenon
      <4>2. /\ q.posArgs = p.posArgs /\ q.execCmds = p.execCmds /\ q.args = p.args
            /\ q.flagList = p.flagList /\ q.shortFlagList = p.shortFlagList \cup Range(Tail(arg))
            /\ q.areNextArgsPositional = FALSE /\ q.isValue = FALSE /\ q.thrown = FALSE
        BY <1>0, <1>5, <1>7, <3>0, <4>1 DEF ArgStates
      <4>3. /\ ~Valued(argv, k + 2) /\ i \notin Positional(argv) /\ i \notin CommandPlaces(argv)
            /\ ~Tagged(argv, i) /\ Lettered(argv, i)
        BY <1>2, <1>3, <1>8, <2>2, <3>0, <3>4 DEF Letters
      <4>4. KeptArgs(argv, i) = KeptArgs(argv, k) /\ KeptCmds(argv, i) = KeptCmds(argv, k)
        BY <4>3, KeptArgsMore, KeptCmdsMore, Zenon
      <4>5. MapRight(argv, i, p.args) /\ ~Repeated(argv, i)
        BY <2>1, <4>3, NoMoreValues DEF ArgData
      <4>6. FlagsRight(argv, i, p.flagList)
        BY <2>1, <4>3, SameFlags, Zenon DEF ArgData
      <4>7. LettersRight(argv, i, q.shortFlagList)
        BY <2>1, <4>2, <4>3, MoreLetters, Zenon DEF ArgData
      <4>8. ArgData(argv, i, q)
        BY <2>1, <4>2, <4>4, <4>5, <4>6, <4>7, Zenon DEF ArgData
      <4> QED BY <1>0, <1>1, <1>2, <3>0, <4>2, <4>3, <4>5, <4>8 DEF ArgInv
    <3>5. CASE Commands(arg)
      <4>1. ParseArg(argv, p, i) = [p EXCEPT !.execCmds = @ \o ParseCmds(Tail(arg))]
        BY <2>6, <3>5, CommandsArg, Zenon
      <4> DEFINE v == ParseCmds(Tail(arg))
      <4> HIDE DEF v
      <4>2. /\ q.posArgs = p.posArgs /\ q.execCmds = p.execCmds \o v /\ q.args = p.args
            /\ q.flagList = p.flagList /\ q.shortFlagList = p.shortFlagList
            /\ q.areNextArgsPositional = FALSE /\ q.isValue = FALSE /\ q.thrown = FALSE
        BY <1>0, <1>5, <1>7, <3>0, <4>1 DEF ArgStates, v
      <4>3. /\ ~Valued(argv, k + 2) /\ i \notin Positional(argv) /\ i \in CommandPlaces(argv)
            /\ ~Tagged(argv, i) /\ ~Lettered(argv, i)
        BY <1>2, <1>3, <1>8, <2>2, <3>0, <3>5 DEF Commands
      <4>4. ArgData(argv, i, q) /\ ~Repeated(argv, i)
        BY <2>1, <4>2, <4>3, CommandsData DEF v
      <4> QED BY <1>0, <1>1, <1>2, <3>0, <4>2, <4>3, <4>4 DEF ArgInv
    <3>6. CASE Other(arg)
      <4>1. ParseArg(argv, p, i) = [p EXCEPT !.posArgs = Append(@, arg)]
        BY <2>6, <3>6, OtherArg, Zenon
      <4>2. /\ q.posArgs = Append(p.posArgs, arg) /\ q.execCmds = p.execCmds /\ q.args = p.args
            /\ q.flagList = p.flagList /\ q.shortFlagList = p.shortFlagList
            /\ q.areNextArgsPositional = FALSE /\ q.isValue = FALSE /\ q.thrown = FALSE
        BY <1>0, <1>5, <1>7, <3>0, <4>1 DEF ArgStates
      <4>3. /\ ~Valued(argv, k + 2) /\ i \in Positional(argv) /\ i \notin CommandPlaces(argv)
            /\ ~Tagged(argv, i) /\ ~Lettered(argv, i)
        BY <1>2, <1>3, <1>8, <2>2, <3>0, <3>6 DEF Other
      <4>4. ArgData(argv, i, q) /\ ~Repeated(argv, i)
        BY <2>1, <4>2, <4>3, PositionalArg
      <4> QED BY <1>0, <1>1, <1>2, <3>0, <4>2, <4>3, <4>4 DEF ArgInv
    <3> QED BY <1>1, <3>1, <3>2, <3>3, <3>4, <3>5, <3>6, ArgKinds
  <2> QED BY <1>5, <1>7, <2>3, <2>4, <2>5, <2>6 DEF Looks
<1> QED BY <1>5, <1>6, <1>7

\* After the last argument.
LEMMA ArgsParsed ==
    ASSUME NEW X, IsAlphabet(X), NEW argv \in Seq(Seq(X))
    PROVE  ParseCommandLine(argv) \in ArgStates(X) /\ ArgInv(argv, Len(argv), ParseCommandLine(argv))
<1> DEFINE N == Len(argv)
<1>1. PICK f : ArgTrace(f, X, argv)
  BY ArgTraceExists
<1>2. /\ f \in [0..N -> ArgStates(X)] /\ f[0] = NothingParsed
      /\ \A k \in 1..N : f[k] = ParseArg(argv, f[k - 1], k)
      /\ ParseCommandLine(argv) = f[N]
  BY <1>1 DEF ArgTrace
<1>3. N \in Nat /\ DOMAIN argv = 1..N
  BY LenProperties
<1> DEFINE T == {k \in Nat : k <= N => ArgInv(argv, k, f[k])}
<1>4. 0 \in T
  BY <1>2, ArgBegun
<1>5. ASSUME NEW k \in T PROVE k + 1 \in T
  <2> SUFFICES ASSUME k + 1 <= N PROVE ArgInv(argv, k + 1, f[k + 1])
    OBVIOUS
  <2>0. k \in Nat /\ k <= N /\ k \in 0..N /\ k + 1 \in 1..N /\ (k + 1) - 1 = k
    BY <1>3
  <2>1. k + 1 \in DOMAIN argv /\ f[k] \in ArgStates(X)
    BY <1>2, <1>3, <2>0
  <2>3. ArgInv(argv, k, f[k])
    BY <2>0
  <2>2. f[k + 1] = ParseArg(argv, f[k], k + 1)
    <3>1. f[k + 1] = ParseArg(argv, f[(k + 1) - 1], k + 1)
      BY <1>2, <2>0
    <3> QED BY <2>0, <3>1
  <2> QED BY <2>0, <2>1, <2>2, <2>3, ArgStep
<1>6. T = Nat
  <2> HIDE DEF T
  <2>1. T \in SUBSET Nat
    BY DEF T
  <2> QED BY <2>1, <1>4, <1>5, Induction
<1>7. ArgInv(argv, N, f[N]) /\ f[N] \in ArgStates(X)
  BY <1>2, <1>3, <1>6
<1> QED BY <1>2, <1>7

\* Values are among the arguments.
LEMMA ValuedIn ==
    ASSUME NEW X, NEW argv \in Seq(Seq(X)), NEW i, Valued(argv, i)
    PROVE  i \in DOMAIN argv /\ i \in 1..Len(argv) + 1
<1>1. First(argv) \in 1..Len(argv) + 1 /\ Len(argv) \in Nat /\ DOMAIN argv = 1..Len(argv)
  BY FirstIs, LenProperties
<1>2. i \in 2..First(argv) - 1
  BY Zenon DEF Valued
<1> QED BY <1>1, <1>2

\* The kept places are those of the property.
LEMMA IndicesAre ==
    ASSUME NEW X, IsAlphabet(X), NEW argv \in Seq(Seq(X)), NEW S
    PROVE  Indices(argv, S) = KeepIn(S, Ids(Len(argv)))
<1>1. [i \in DOMAIN argv |-> i] = Ids(Len(argv))
  BY ArgParserMachine
<1> QED BY <1>1, Zenon DEF Indices

\* Whatever the arguments, what ArgumentsRight says of them holds of parseCommandLine()
\* (command_line.cpp).
THEOREM ArgsRight ==
    ASSUME NEW X, IsAlphabet(X), NEW argv \in Seq(Seq(X))
    PROVE  ArgumentsRightOf(argv)
<1> DEFINE p == ParseCommandLine(argv)  N == Len(argv)  F == First(argv)
           positional == Indices(argv, {i \in DOMAIN argv :
               i > First(argv) \/ (i < First(argv) /\ IsValue(argv[i]) /\ ~Valued(argv, i))})
           commands == Indices(argv, {i \in DOMAIN argv : i < First(argv) /\ Starts(argv[i], <<"+">>)})
           flags == {i \in DOMAIN argv : Tagged(argv, i) /\ ~Valued(argv, i + 1)}
           valued == {i \in DOMAIN argv : Valued(argv, i + 1)}
           lettered == {i \in DOMAIN argv : Lettered(argv, i)}
<1>0. F \in 1..N + 1 /\ N \in Nat /\ DOMAIN argv = 1..N
  BY FirstIs, LenProperties
<1>1. p \in ArgStates(X) /\ ArgInv(argv, N, p)
  BY ArgsParsed
<1> HIDE DEF p
<1>2. p.thrown <=> Twice(argv)
  <2>1. p.thrown <=> Repeated(argv, N)
    BY <1>1 DEF ArgInv
  <2>2. ASSUME Repeated(argv, N) PROVE Twice(argv)
    <3>1. PICK i \in 1..N + 1, j \in 1..N + 1 :
            i < j /\ Valued(argv, i) /\ Valued(argv, j) /\ argv[i - 1] = argv[j - 1]
      BY <2>2 DEF Repeated
    <3>2. i \in DOMAIN argv /\ j \in DOMAIN argv /\ i # j
      BY <3>1, <1>0, ValuedIn
    <3> QED BY <3>1, <3>2 DEF Twice
  <2>3. ASSUME Twice(argv) PROVE Repeated(argv, N)
    <3>1. PICK i \in DOMAIN argv, j \in DOMAIN argv :
            i /= j /\ Valued(argv, i) /\ Valued(argv, j) /\ argv[i - 1] = argv[j - 1]
      BY <2>3 DEF Twice
    <3>2. i \in 1..N + 1 /\ j \in 1..N + 1 /\ (i < j \/ j < i)
      BY <3>1, <1>0
    <3> QED BY <3>1, <3>2 DEF Repeated
  <2> QED BY <2>1, <2>2, <2>3
<1>3. ASSUME ~p.thrown PROVE ArgData(argv, N, p)
  BY <1>1, <1>3 DEF ArgInv
<1>4. positional = KeepIn(Positional(argv), Ids(N)) /\ commands = KeepIn(CommandPlaces(argv), Ids(N))
  BY IndicesAre, Zenon DEF Positional, CommandPlaces
<1> HIDE DEF positional, commands
<1>5. ASSUME ~p.thrown PROVE p.posArgs = [k \in DOMAIN positional |-> argv[positional[k]]]
  BY <1>3, <1>4, <1>5, Zenon DEF ArgData, KeptArgs, ArgsAt
<1>6. ASSUME ~p.thrown
      PROVE  p.execCmds = FlattenSeq([k \in DOMAIN commands |-> ParseCmds(Tail(argv[commands[k]]))])
  BY <1>3, <1>4, <1>6, Zenon DEF ArgData, KeptCmds, CmdsAt
<1>7. ASSUME ~p.thrown
      PROVE  /\ p.flagList = {argv[i] : i \in flags}
             /\ p.shortFlagList = UNION {Range(Tail(argv[i])) : i \in lettered}
  <2>1. FlagsRight(argv, N, p.flagList) /\ LettersRight(argv, N, p.shortFlagList)
    BY <1>3, <1>7, Zenon DEF ArgData
  <2>2. FlagPlaces(argv, N) = flags /\ LetterPlaces(argv, N) = lettered
    BY <1>0, Zenon DEF FlagPlaces, LetterPlaces
  <2> QED BY <2>1, <2>2, Zenon DEF FlagsRight, LettersRight
<1>8. ASSUME ~p.thrown
      PROVE  /\ DOMAIN p.args = {argv[i] : i \in valued}
             /\ \A i \in valued : GetArgString(p, argv[i], <<>>) = argv[i + 1]
  <2>1. MapRight(argv, N, p.args)
    BY <1>3, <1>8, Zenon DEF ArgData
  <2>2. ASSUME NEW i \in valued
        PROVE  argv[i] \in DOMAIN p.args /\ GetArgString(p, argv[i], <<>>) = argv[i + 1]
    <3>1. i + 1 \in 1..N + 1 /\ (i + 1) - 1 = i /\ Valued(argv, i + 1)
      BY <1>0, <2>2
    <3>2. argv[(i + 1) - 1] \in DOMAIN p.args /\ p.args[argv[(i + 1) - 1]] = argv[i + 1]
      BY <2>1, <3>1, Zenon DEF MapRight
    <3>3. argv[i] \in DOMAIN p.args /\ p.args[argv[i]] = argv[i + 1]
      BY <3>1, <3>2
    <3> QED BY <3>3, Zenon DEF GetArgString, DoesArgHaveValue
  <2>3. ASSUME NEW t \in DOMAIN p.args PROVE \E i \in valued : t = argv[i]
    <3>1. PICK j \in 1..N + 1 : Valued(argv, j) /\ argv[j - 1] = t
      BY <2>1, <2>3, Zenon DEF MapRight
    <3>2. j \in 2..F - 1
      BY <3>1, Zenon DEF Valued
    <3>3. j - 1 \in DOMAIN argv /\ (j - 1) + 1 = j
      BY <1>0, <3>1, <3>2
    <3>4. Valued(argv, (j - 1) + 1)
      BY <3>1, <3>3
    <3> QED BY <3>1, <3>3, <3>4
  <2> HIDE DEF valued
  <2> QED BY <2>2, <2>3
<1> QED BY <1>2, <1>5, <1>6, <1>7, <1>8, Zenon DEF ArgumentsRightOf, p, positional, commands,
      flags, valued, lettered

-----------------------------------------------------------------------------
(* Arithmetic: products, and division. *)

LEMMA TimesMore == ASSUME NEW n \in Nat, NEW x \in Int, NEW y \in Int, x <= y PROVE n * x <= n * y
OBVIOUS

LEMMA TimesNext == ASSUME NEW n \in Int, NEW x \in Int PROVE n * (x + 1) = n * x + n
OBVIOUS

LEMMA TimesAdd ==
    ASSUME NEW n \in Int, NEW m \in Int, NEW x \in Int, NEW y \in Int
    PROVE  (n * m) * x + n * y = n * (m * x + y) /\ m * x + y \in Int
OBVIOUS

\* The remainder of a division, and that it is the only one.
LEMMA Division ==
    ASSUME NEW a \in Int, NEW n \in Nat \ {0}
    PROVE  a % n \in 0..(n - 1) /\ \E q \in Int : a = n * q + (a % n)
<1>1. a % n \in 0..(n - 1) /\ a \div n \in Int /\ a = n * (a \div n) + (a % n)
  OBVIOUS
<1> QED BY <1>1, Zenon

-----------------------------------------------------------------------------
(* Numbers of several bytes. *)

\* What powers are: the provers have no definition of them.
PowersOfBase ==
    /\ Base ^ 0 = 1
    /\ \A n \in Nat : Base ^ n \in Nat \ {0} /\ Base ^ (n + 1) = Base ^ n * Base

ByteSet == 0..Base - 1

LEMMA DivIs ==
    ASSUME NEW a \in Nat, NEW n \in Nat \ {0}
    PROVE  a \div n \in Nat /\ a % n \in 0..(n - 1) /\ a = n * (a \div n) + (a % n)
OBVIOUS

\* There is one quotient.
LEMMA OnlyQuotient ==
    ASSUME NEW a \in Nat, NEW n \in Nat \ {0}, NEW q \in Nat, NEW r \in 0..(n - 1), a = n * q + r
    PROVE  a \div n = q
<1> DEFINE d == a \div n  m == a % n
<1>1. d \in Nat /\ m \in 0..(n - 1) /\ a = n * d + m
  BY DivIs
<1> HIDE DEF d, m
<1>3. n * d \in Int /\ n * q \in Int /\ n * (d + 1) = n * d + n /\ n * (q + 1) = n * q + n
  BY <1>1, TimesNext
<1>4. d + 1 <= q => n * (d + 1) <= n * q
  BY <1>1, TimesMore
<1>5. q + 1 <= d => n * (q + 1) <= n * d
  BY <1>1, TimesMore
<1>6. d = q
  BY <1>1, <1>3, <1>4, <1>5
<1> QED BY <1>6 DEF d

LEMMA TimesAssoc ==
    ASSUME NEW a \in Nat, NEW b \in Nat, NEW p \in Nat, NEW s \in Nat
    PROVE  a * (b * p + s) = (a * b) * p + a * s /\ a * b \in Nat /\ a * s \in Nat /\ b * p + s \in Nat
OBVIOUS

\* A quotient of a quotient.
LEMMA DivDiv ==
    ASSUME NEW n \in Nat, NEW a \in Nat \ {0}, NEW b \in Nat \ {0}, a * b \in Nat \ {0}
    PROVE  n \div (a * b) = (n \div a) \div b
<1> DEFINE q == n \div a  r == n % a  p == q \div b  s == q % b
<1>1. q \in Nat /\ r \in 0..(a - 1) /\ n = a * q + r
  BY DivIs
<1> HIDE DEF q, r
<1>2. p \in Nat /\ s \in 0..(b - 1) /\ q = b * p + s
  BY <1>1, DivIs
<1> HIDE DEF p, s
<1>3. a * q = (a * b) * p + a * s /\ a * s \in Nat
  BY <1>2, TimesAssoc
<1> DEFINE m == a * b  u == a * s + r
<1>4. n = m * p + u
  <2>1. (a * b) * p \in Nat
    BY <1>2
  <2> QED BY <2>1, <1>1, <1>3
<1>5. u \in 0..(m - 1)
  <2>1. a * (s + 1) = a * s + a /\ a * s \in Nat
    BY <1>2, <1>3, TimesNext
  <2>2. a * (s + 1) <= a * b
    BY <1>2, TimesMore
  <2> QED BY <1>1, <2>1, <2>2
<1>6. m \in Nat \ {0}
  OBVIOUS
<1> HIDE DEF m, u
<1>7. n \div m = p
  BY <1>2, <1>4, <1>5, <1>6, OnlyQuotient
<1> QED BY <1>7 DEF m, p, q

LEMMA SmallDiv == ASSUME NEW n \in Nat, NEW a \in Nat \ {0}, n < a PROVE n \div a = 0
<1>1. n = a * 0 + n /\ n \in 0..(a - 1) /\ 0 \in Nat
  OBVIOUS
<1> QED BY <1>1, OnlyQuotient

\* The bytes from the highest one on.
Horner(bytes) == FoldLeft(LAMBDA n, d : n * Base + d, 0, bytes)

Shifts == [n \in Nat |-> [d \in ByteSet |-> n * Base + d]]

LEMMA ShiftMachine == IsMachine(Shifts, Nat, ByteSet) /\ 0 \in Nat
<1>1. \A n \in Nat, d \in ByteSet : n * Base + d \in Nat
  BY BaseAssumption DEF ByteSet
<1> QED BY <1>1 DEF Shifts, IsMachine

LEMMA HornerIsRun ==
    ASSUME NEW seq \in Seq(ByteSet)
    PROVE  Horner(seq) = Run(Shifts, 0, seq, Nat)
<1> DEFINE V == Nat
           C == ByteSet
           G == Shifts
           base == 0
           Op(n, d) == n * Base + d
           Step(g) == [u \in SUBSET DOMAIN seq |->
                         IF u = {} THEN base ELSE Op(g[u \ {Max(u)}], seq[Max(u)])]
           it == CHOOSE g : g = Step(g)
<1>1. Horner(seq) = it[DOMAIN seq]
  BY Zenon DEF Horner, FoldLeft, MapThenFoldSet
<1>2. IsMachine(G, V, C) /\ base \in V /\ seq \in Seq(C)
  BY ShiftMachine
<1>0. ASSUME NEW n \in V, NEW d \in C PROVE G[n][d] = Op(n, d)
  BY DEF Shifts
<1> HIDE DEF V, C, G, Op, base
<1>3. PICK h : Iterator(h, G, base, seq, V, C)
  BY <1>2, LeftIterator
<1>4. h = Step(h)
  <2>1. ASSUME NEW u \in SUBSET DOMAIN seq, u # {} PROVE h[u] = Op(h[u \ {Max(u)}], seq[Max(u)])
    BY <1>0, <1>3, <2>1, Zenon DEF Iterator
  <2>2. \A u \in SUBSET (DOMAIN seq) :
          h[u] = IF u = {} THEN base ELSE Op(h[u \ {Max(u)}], seq[Max(u)])
    BY <2>1, <1>3, Zenon DEF Iterator
  <2>3. h = [u \in SUBSET (DOMAIN seq) |-> h[u]]
    BY <1>3, Zenon DEF Iterator
  <2> QED BY <2>2, <2>3, Zenon
<1>5. it = Step(it)
  <2> HIDE DEF Step
  <2> QED BY <1>4
<1> HIDE DEF it
<1>6. Folding(it, G, base, seq, V)
  <2>1. it[{}] = base
    <3>1. {} \in SUBSET DOMAIN seq
      OBVIOUS
    <3> QED BY <3>1, <1>5, Zenon
  <2>2. ASSUME NEW u \in SUBSET DOMAIN seq, u # {}, it[u \ {Max(u)}] \in V
        PROVE  it[u] = G[it[u \ {Max(u)}]][seq[Max(u)]]
    <3>1. it[u] = Op(it[u \ {Max(u)}], seq[Max(u)])
      BY <1>5, <2>2
    <3> QED BY <3>1, <1>0, <1>3, <2>2, Zenon DEF Iterator
  <2> QED BY <2>1, <2>2 DEF Folding
<1> HIDE DEF Step
<1>7. it[DOMAIN seq] = Run(G, base, seq, V)
  BY <1>2, <1>6, LeftFolds
<1> QED BY <1>1, <1>7 DEF G, V, base

LEMMA PositiveBase == Base \in Nat \ {0}
BY BaseAssumption

LEMMA DigitsType ==
    ASSUME PowersOfBase, NEW n \in Nat, NEW size \in Nat
    PROVE  /\ Digits(n, size) \in Seq(ByteSet) /\ Len(Digits(n, size)) = size
           /\ \A i \in 1..size : Digits(n, size)[i] = (n \div Base ^ (i - 1)) % Base
<1>1. ASSUME NEW i \in 1..size PROVE (n \div Base ^ (i - 1)) % Base \in ByteSet
  <2>1. i - 1 \in Nat
    OBVIOUS
  <2>2. Base ^ (i - 1) \in Nat \ {0}
    BY <2>1, Zenon DEF PowersOfBase
  <2> DEFINE b == Base ^ (i - 1)
  <2> HIDE DEF b
  <2>3. n \div b \in Nat
    BY <2>2, DivIs DEF b
  <2>4. (n \div b) % Base \in 0..(Base - 1)
    BY <2>3, PositiveBase, DivIs, Zenon
  <2> QED BY <2>4, Zenon DEF b, ByteSet
<1> QED BY <1>1 DEF Digits

LEMMA ReverseBytes ==
    ASSUME NEW C, NEW s \in Seq(C)
    PROVE  /\ Reverse(s) \in Seq(C) /\ Len(Reverse(s)) = Len(s)
           /\ \A i \in 1..Len(s) : Reverse(s)[i] = s[Len(s) - i + 1]
           /\ Reverse(Reverse(s)) = s
BY DEF Reverse

\* A number is that of its digits.
LEMMA NumberOfDigits ==
    ASSUME PowersOfBase, NEW n \in Nat, NEW size \in Nat, n < Base ^ size
    PROVE  NumberOf(Digits(n, size)) = n
<1> DEFINE ds == Digits(n, size)  r == Reverse(ds)
<1>1. ds \in Seq(ByteSet) /\ Len(ds) = size
      /\ \A i \in 1..size : ds[i] = (n \div Base ^ (i - 1)) % Base
  BY DigitsType
<1> HIDE DEF ds
<1>2. r \in Seq(ByteSet) /\ Len(r) = size /\ \A i \in 1..size : r[i] = ds[size - i + 1]
  BY <1>1, ReverseBytes
<1>3. NumberOf(ds) = Horner(r)
  BY Zenon DEF NumberOf, Horner
<1> HIDE DEF r
<1>4. PICK f : Traces(f, Shifts, 0, r, Nat) /\ Run(Shifts, 0, r, Nat) = f[Len(r)]
  <2> DEFINE V == Nat  C == ByteSet  G == Shifts  base == 0
  <2>1. IsMachine(G, V, C) /\ base \in V /\ r \in Seq(C)
    BY <1>2, ShiftMachine
  <2> HIDE DEF V, C, G, base
  <2>2. \E f : Traces(f, G, base, r, V) /\ Run(G, base, r, V) = f[Len(r)]
    BY <2>1, RunTrace
  <2> QED BY <2>2 DEF V, G, base
<1>5. /\ f \in [0..size -> Nat] /\ f[0] = 0
      /\ \A k \in 1..size : f[k] = Shifts[f[k - 1]][r[k]]
  BY <1>2, <1>4 DEF Traces
<1>6. ASSUME NEW k \in 1..size PROVE f[k] = f[k - 1] * Base + r[k]
  <2>1. f[k - 1] \in Nat /\ r[k] \in ByteSet
    BY <1>2, <1>5
  <2> QED BY <2>1, <1>5 DEF Shifts
<1> DEFINE T == {k \in Nat : k <= size => f[k] = n \div Base ^ (size - k)}
<1>7. 0 \in T
  <2>1. Base ^ size \in Nat \ {0}
    BY Zenon DEF PowersOfBase
  <2>2. n \div Base ^ size = 0
    BY <2>1, SmallDiv
  <2>3. size - 0 = size
    OBVIOUS
  <2> QED BY <2>2, <2>3, <1>5
<1>8. ASSUME NEW k \in T PROVE k + 1 \in T
  <2> SUFFICES ASSUME k + 1 <= size PROVE f[k + 1] = n \div Base ^ (size - (k + 1))
    OBVIOUS
  <2> DEFINE j == size - (k + 1)
  <2>1. /\ k \in Nat /\ j \in Nat /\ j + 1 = size - k /\ k + 1 \in 1..size /\ (k + 1) - 1 = k
        /\ size - (k + 1) + 1 = j + 1 /\ j + 1 \in 1..size /\ j + 1 \in Nat /\ (j + 1) - 1 = j
    OBVIOUS
  <2> HIDE DEF j
  <2>2. Base ^ j \in Nat \ {0} /\ Base ^ (j + 1) \in Nat \ {0} /\ Base ^ (j + 1) = Base ^ j * Base
    BY <2>1, Zenon DEF PowersOfBase
  <2>3. f[k] = n \div Base ^ (j + 1)
    <3>1. k <= size /\ k \in Nat
      BY <2>1
    <3>2. f[k] = n \div Base ^ (size - k)
      BY <3>1, Zenon
    <3> QED BY <2>1, <3>2, Zenon
  <2>4. r[k + 1] = (n \div Base ^ j) % Base
    <3>1. r[k + 1] = ds[j + 1]
      BY <2>1, <1>2
    <3>2. ds[j + 1] = (n \div Base ^ ((j + 1) - 1)) % Base
      BY <2>1, <1>1
    <3> QED BY <3>1, <3>2, <2>1
  <2> DEFINE b == Base ^ j  q == n \div b
  <2>5. b \in Nat \ {0} /\ b * Base \in Nat \ {0} /\ f[k] = n \div (b * Base) /\ r[k + 1] = q % Base
    BY <2>2, <2>3, <2>4
  <2>6. f[k + 1] = f[k] * Base + r[k + 1]
    <3>1. f[k + 1] = f[(k + 1) - 1] * Base + r[k + 1]
      BY <2>1, <1>6
    <3> QED BY <2>1, <3>1
  <2> HIDE DEF b
  <2>7. n \div (b * Base) = q \div Base
    BY <2>5, PositiveBase, DivDiv, Zenon DEF q
  <2>8. q \in Nat
    BY <2>5, DivIs
  <2> HIDE DEF q
  <2>9. q \div Base \in Nat /\ q % Base \in 0..(Base - 1) /\ q = Base * (q \div Base) + (q % Base)
    BY <2>8, PositiveBase, DivIs, Zenon
  <2>10. (q \div Base) * Base + (q % Base) = q
    <3> DEFINE d == q \div Base  m == q % Base
    <3>1. d \in Nat /\ m \in Int /\ q = Base * d + m
      BY <2>9, PositiveBase
    <3> HIDE DEF d, m
    <3>2. d * Base + m = q
      BY <3>1, PositiveBase
    <3> QED BY <3>2 DEF d, m
  <2>11. f[k + 1] = q
    BY <2>5, <2>6, <2>7, <2>10
  <2> QED BY <2>1, <2>11 DEF q, b, j
<1>9. T = Nat
  <2> HIDE DEF T
  <2>1. T \in SUBSET Nat
    BY DEF T
  <2> QED BY <2>1, <1>7, <1>8, Induction
<1>10. f[size] = n
  <2>1. f[size] = n \div Base ^ (size - size)
    BY <1>9
  <2>2. size - size = 0 /\ Base ^ 0 = 1
    BY DEF PowersOfBase
  <2>3. n \div 1 = n
    OBVIOUS
  <2> QED BY <2>1, <2>2, <2>3
<1>11. Horner(r) = f[size]
  BY <1>2, <1>4, HornerIsRun
<1> QED BY <1>3, <1>10, <1>11 DEF ds

-----------------------------------------------------------------------------
(* Streams. *)

StreamVals == Nat \cup Seq(ByteSet)

Streams == {s \in [buf : Seq(ByteSet), offset : Nat, big : BOOLEAN, val : StreamVals, thrown : BOOLEAN] :
              s.offset <= Len(s.buf)}

\* Nothing before the place that s was at has changed.
Later(s, q) == /\ Len(q.buf) = Len(s.buf) /\ q.offset >= s.offset
               /\ \A i \in 1..s.offset : q.buf[i] = s.buf[i]

LEMMA StreamFields ==
    ASSUME NEW s \in Streams
    PROVE  /\ s.buf \in Seq(ByteSet) /\ s.offset \in Nat /\ s.offset <= Len(s.buf) /\ Len(s.buf) \in Nat
           /\ s.big \in BOOLEAN /\ s.thrown \in BOOLEAN /\ s.val \in StreamVals
BY DEF Streams

LEMMA Flagged ==
    ASSUME NEW s \in Streams, NEW t \in BOOLEAN
    PROVE  \E q \in Streams : /\ q = [s EXCEPT !.thrown = t] /\ q.thrown = t /\ q.buf = s.buf
                              /\ q.offset = s.offset /\ q.big = s.big /\ q.val = s.val
<1> DEFINE q == [s EXCEPT !.thrown = t]
<1>1. q \in Streams /\ q.thrown = t /\ q.buf = s.buf /\ q.offset = s.offset /\ q.big = s.big /\ q.val = s.val
  BY DEF Streams
<1> HIDE DEF q
<1>2. q = [s EXCEPT !.thrown = t]
  BY Zenon DEF q
<1> QED BY <1>1, <1>2, Zenon

LEMMA ThrownStream ==
    ASSUME NEW s \in Streams
    PROVE  \E q \in Streams : /\ q = Throw(s) /\ q.thrown /\ q.buf = s.buf
                              /\ q.offset = s.offset /\ q.big = s.big
<1>1. TRUE \in BOOLEAN
  OBVIOUS
<1>2. PICK q \in Streams : q = [s EXCEPT !.thrown = TRUE] /\ q.thrown = TRUE /\ q.buf = s.buf
                          /\ q.offset = s.offset /\ q.big = s.big
  BY <1>1, Flagged
<1>3. q = Throw(s)
  BY <1>2, Zenon DEF Throw
<1> QED BY <1>2, <1>3

LEMMA Restarted ==
    ASSUME NEW s \in Streams
    PROVE  \E q \in Streams : /\ q = [s EXCEPT !.thrown = FALSE] /\ ~q.thrown /\ q.buf = s.buf
                              /\ q.offset = s.offset /\ q.big = s.big
<1>1. FALSE \in BOOLEAN
  OBVIOUS
<1>2. PICK q \in Streams : q = [s EXCEPT !.thrown = FALSE] /\ q.thrown = FALSE /\ q.buf = s.buf
                          /\ q.offset = s.offset /\ q.big = s.big
  BY <1>1, Flagged
<1> QED BY <1>2

LEMMA ReadSome ==
    ASSUME NEW s \in Streams, NEW size \in Nat
    PROVE  \E q \in Streams :
             /\ q = ReadBytes(s, size)
             /\ q.buf = s.buf /\ q.big = s.big
             /\ s.thrown \/ ~Fits(s, size) => q.thrown /\ q.offset = s.offset
             /\ ~s.thrown /\ Fits(s, size) =>
                  /\ ~q.thrown /\ q.offset = s.offset + size
                  /\ q.val = SubSeq(s.buf, s.offset + 1, s.offset + size)
<1>1. CASE s.thrown \/ ~Fits(s, size)
  <2>1. ReadBytes(s, size) = Throw(s)
    BY <1>1, Zenon DEF ReadBytes
  <2> QED BY <2>1, <1>1, ThrownStream
<1>2. CASE ~(s.thrown \/ ~Fits(s, size))
  <2> DEFINE piece == SubSeq(s.buf, s.offset + 1, s.offset + size)
             q == [s EXCEPT !.val = piece, !.offset = s.offset + size]
  <2>1. ReadBytes(s, size) = q
    BY <1>2, Zenon DEF ReadBytes
  <2>2. s.offset + size \in Nat /\ s.offset + size <= Len(s.buf)
    BY <1>2, StreamFields DEF Fits
  <2>3. piece \in Seq(ByteSet)
    BY <2>2, StreamFields
  <2>4. piece \in StreamVals
    BY <2>3 DEF StreamVals
  <2> HIDE DEF piece
  <2>5. q \in Streams /\ q.thrown = s.thrown /\ q.offset = s.offset + size /\ q.val = piece
        /\ q.buf = s.buf /\ q.big = s.big
    BY <2>2, <2>4 DEF Streams
  <2> HIDE DEF q
  <2> QED BY <2>1, <2>5, <1>2 DEF piece
<1> QED BY <1>1, <1>2

LEMMA WriteSome ==
    ASSUME NEW s \in Streams, NEW bytes \in Seq(ByteSet)
    PROVE  \E q \in Streams :
             /\ q = WriteBytes(s, bytes)
             /\ q.big = s.big /\ Later(s, q)
             /\ s.thrown \/ ~Fits(s, Len(bytes)) => q.thrown /\ q.offset = s.offset
             /\ ~s.thrown /\ Fits(s, Len(bytes)) =>
                  /\ ~q.thrown /\ q.offset = s.offset + Len(bytes)
                  /\ SubSeq(q.buf, s.offset + 1, s.offset + Len(bytes)) = bytes
<1> DEFINE size == Len(bytes)
<1>0. size \in Nat
  BY LenProperties
<1>1. CASE s.thrown \/ ~Fits(s, size)
  <2>1. WriteBytes(s, bytes) = Throw(s)
    BY <1>1, Zenon DEF WriteBytes
  <2>2. PICK q \in Streams : q = WriteBytes(s, bytes) /\ q.thrown /\ q.buf = s.buf
                            /\ q.offset = s.offset /\ q.big = s.big
    BY <2>1, ThrownStream
  <2>3. Later(s, q)
    BY <2>2, StreamFields DEF Later
  <2> QED BY <2>2, <2>3, <1>1
<1>2. CASE ~(s.thrown \/ ~Fits(s, size))
  <2> DEFINE b == s.buf  o == s.offset
             new == SubSeq(b, 1, o) \o bytes \o SubSeq(b, o + size + 1, Len(b))
             q == [s EXCEPT !.buf = new, !.offset = o + size]
  <2>1. WriteBytes(s, bytes) = q
    BY <1>2, Zenon DEF WriteBytes
  <2>2. b \in Seq(ByteSet) /\ o \in Nat /\ Len(b) \in Nat /\ o + size <= Len(b)
    BY <1>2, StreamFields DEF Fits
  <2>3. /\ new \in Seq(ByteSet) /\ Len(new) = Len(b)
        /\ \A i \in 1..o : new[i] = b[i]
        /\ SubSeq(new, o + 1, o + size) = bytes
    <3> HIDE DEF b, o
    <3> DEFINE p == SubSeq(b, 1, o)  t == SubSeq(b, o + size + 1, Len(b))  pm == p \o bytes
    <3>1. p \in Seq(ByteSet) /\ Len(p) = o /\ \A i \in 1..o : p[i] = b[i]
      BY <2>2, <1>0
    <3>2. t \in Seq(ByteSet) /\ Len(t) = Len(b) - (o + size)
      BY <2>2, <1>0
    <3> HIDE DEF p, t
    <3>3. pm \in Seq(ByteSet) /\ Len(pm) = o + size /\ (\A i \in 1..o : pm[i] = p[i])
          /\ \A i \in 1..size : pm[o + i] = bytes[i]
      BY <3>1, <1>0
    <3> HIDE DEF pm
    <3>4. new \in Seq(ByteSet) /\ Len(new) = Len(b) /\ \A i \in 1..o + size : new[i] = pm[i]
      <4>1. new = pm \o t
        BY DEF pm, p, t
      <4> HIDE DEF new
      <4>2. (pm \o t) \in Seq(ByteSet) /\ Len(pm \o t) = Len(pm) + Len(t)
            /\ \A i \in 1..Len(pm) + Len(t) : (pm \o t)[i] = IF i <= Len(pm) THEN pm[i] ELSE t[i - Len(pm)]
        <5>1. pm \in Seq(ByteSet) /\ t \in Seq(ByteSet)
          BY <3>2, <3>3
        <5> QED BY <5>1, ConcatProperties, Zenon
      <4>3. /\ new \in Seq(ByteSet) /\ Len(new) = Len(pm) + Len(t)
            /\ \A i \in 1..Len(pm) + Len(t) : new[i] = IF i <= Len(pm) THEN pm[i] ELSE t[i - Len(pm)]
        BY <4>1, <4>2, Zenon
      <4> HIDE DEF b, o, size
      <4> QED BY <4>3, <3>2, <3>3, <2>2, <1>0
    <3> HIDE DEF new
    <3>5. \A i \in 1..o : new[i] = b[i]
      BY <3>1, <3>3, <3>4, <2>2, <1>0
    <3>6. \A i \in 1..size : new[o + i] = bytes[i]
      BY <3>3, <3>4, <2>2, <1>0
    <3> DEFINE m == SubSeq(new, o + 1, o + size)
    <3>7. m \in Seq(ByteSet) /\ Len(m) = size /\ \A i \in 1..size : m[i] = new[o + i]
      <4>1. new \in Seq(ByteSet) /\ o + size <= Len(new)
        BY <3>4, <2>2
      <4>2. /\ m \in Seq(ByteSet) /\ Len(m) = IF o + 1 <= o + size THEN o + size - (o + 1) + 1 ELSE 0
            /\ \A i \in 1..o + size - (o + 1) + 1 : m[i] = new[o + 1 + i - 1]
        BY <4>1, <2>2, <1>0, SubSeqProperties
      <4> HIDE DEF m, size
      <4>3. o + size - (o + 1) + 1 = size /\ \A i \in 1..size : o + 1 + i - 1 = o + i
        BY <2>2, <1>0
      <4> QED BY <4>2, <4>3, <2>2, <1>0
    <3> HIDE DEF m
    <3>8. m = bytes
      BY <3>6, <3>7, SeqEqual, Zenon
    <3> QED BY <3>4, <3>5, <3>8 DEF m
  <2> HIDE DEF new
  <2>5. q \in Streams /\ q.thrown = s.thrown /\ q.offset = o + size /\ q.buf = new /\ q.big = s.big
    <3>1. new \in Seq(ByteSet) /\ o + size \in Nat /\ o + size <= Len(new)
      BY <2>2, <2>3, <1>0
    <3> DEFINE e == o + size
    <3> HIDE DEF o, b, e
    <3> QED BY <3>1 DEF Streams, e
  <2> HIDE DEF q
  <2>6. Later(s, q)
    BY <2>2, <2>3, <2>5, <1>0 DEF Later
  <2> QED BY <2>1, <2>3, <2>5, <2>6, <1>2
<1> QED BY <1>1, <1>2

LEMMA LaterIs ==
    ASSUME NEW s \in Streams, NEW q \in Streams, NEW t \in Streams, Later(s, q), Later(q, t)
    PROVE  Later(s, t)
<1>1. s.offset \in Nat /\ q.offset \in Nat /\ t.offset \in Nat
  BY StreamFields
<1> QED BY <1>1 DEF Later

\* The bytes of a number are the same ones on each platform.
LEMMA SameBytes ==
    ASSUME NEW C, NEW bytes \in Seq(C), NEW big \in BOOLEAN
    PROVE  /\ LittleEndianSwap(InMemory(bytes, big), big) = bytes
           /\ InMemory(LittleEndianSwap(bytes, big), big) = bytes
<1>1. Reverse(Reverse(bytes)) = bytes
  BY ReverseBytes
<1> QED BY <1>1, Zenon DEF LittleEndianSwap, InMemory, SwapByteOrder

LEMMA NumberType == ASSUME NEW bytes \in Seq(ByteSet) PROVE NumberOf(bytes) \in Nat
<1> DEFINE r == Reverse(bytes)
<1>1. r \in Seq(ByteSet)
  BY ReverseBytes
<1>2. NumberOf(bytes) = Horner(r)
  BY Zenon DEF NumberOf, Horner
<1> HIDE DEF r
<1> DEFINE V == Nat  C == ByteSet  G == Shifts  base == 0
<1>3. IsMachine(G, V, C) /\ base \in V /\ r \in Seq(C) /\ Horner(r) = Run(G, base, r, V)
  BY <1>1, ShiftMachine, HornerIsRun
<1> HIDE DEF V, C, G, base
<1>4. PICK f : Traces(f, G, base, r, V) /\ Run(G, base, r, V) = f[Len(r)]
  BY <1>3, RunTrace
<1>5. Len(r) \in 0..Len(r) /\ f \in [0..Len(r) -> V]
  BY <1>3, <1>4, LenProperties DEF Traces
<1> QED BY <1>2, <1>3, <1>4, <1>5 DEF V

-----------------------------------------------------------------------------
(* A stream that is written, and one that reads what the first one holds in the end. *)

Wrote(s, q) == q \in Streams /\ q.big = s.big /\ Later(s, q)

Agrees(w, bytes) == /\ bytes \in Seq(ByteSet) /\ Len(bytes) = Len(w.buf)
                    /\ \A i \in 1..w.offset : bytes[i] = w.buf[i]

Mirrors(w, r, bytes) == /\ r \in Streams /\ r.buf = bytes /\ r.offset = w.offset
                        /\ r.thrown <=> w.thrown

LEMMA WroteMore ==
    ASSUME NEW s \in Streams, NEW q, NEW t, Wrote(s, q), Wrote(q, t) PROVE Wrote(s, t)
BY LaterIs DEF Wrote

LEMMA AgreesBefore ==
    ASSUME NEW w \in Streams, NEW q, Wrote(w, q), NEW bytes, Agrees(q, bytes)
    PROVE  Agrees(w, bytes)
<1>1. q \in Streams /\ Later(w, q)
  BY DEF Wrote
<1>2. w.offset \in Nat /\ q.offset \in Nat
  BY <1>1, StreamFields
<1> QED BY <1>1, <1>2 DEF Agrees, Later

LEMMA ChunkMirrors ==
    ASSUME NEW w \in Streams, NEW r, NEW bytes, NEW chunk \in Seq(ByteSet),
           Mirrors(w, r, bytes), Agrees(WriteBytes(w, chunk), bytes)
    PROVE  LET q == ReadBytes(r, Len(chunk)) IN
           /\ Mirrors(WriteBytes(w, chunk), q, bytes) /\ q.big = r.big
           /\ ~q.thrown => q.val = chunk
<1> DEFINE size == Len(chunk)
<1>0. size \in Nat
  BY LenProperties
<1>1. PICK x \in Streams :
        /\ x = WriteBytes(w, chunk)
        /\ x.big = w.big /\ Later(w, x)
        /\ w.thrown \/ ~Fits(w, size) => x.thrown /\ x.offset = w.offset
        /\ ~w.thrown /\ Fits(w, size) =>
             /\ ~x.thrown /\ x.offset = w.offset + size
             /\ SubSeq(x.buf, w.offset + 1, w.offset + size) = chunk
  BY WriteSome, Zenon
<1>2. r \in Streams /\ r.buf = bytes /\ r.offset = w.offset /\ (r.thrown <=> w.thrown)
  BY DEF Mirrors
<1>3. PICK q \in Streams :
        /\ q = ReadBytes(r, size)
        /\ q.buf = r.buf /\ q.big = r.big
        /\ r.thrown \/ ~Fits(r, size) => q.thrown /\ q.offset = r.offset
        /\ ~r.thrown /\ Fits(r, size) =>
             /\ ~q.thrown /\ q.offset = r.offset + size
             /\ q.val = SubSeq(r.buf, r.offset + 1, r.offset + size)
  BY <1>0, <1>2, ReadSome, Zenon
<1>4. Agrees(x, bytes)
  BY <1>1
<1> HIDE DEF size
<1>5. Fits(r, size) <=> Fits(w, size)
  BY <1>1, <1>2, <1>4 DEF Fits, Agrees, Later
<1>6. CASE w.thrown \/ ~Fits(w, size)
  <2>1. x.thrown /\ x.offset = w.offset /\ q.thrown /\ q.offset = r.offset
    BY <1>1, <1>2, <1>3, <1>5, <1>6, Zenon
  <2>2. Mirrors(x, q, bytes)
    BY <2>1, <1>2, <1>3, Zenon DEF Mirrors
  <2> QED BY <2>1, <2>2, <1>1, <1>3, Zenon DEF size
<1>7. CASE ~(w.thrown \/ ~Fits(w, size))
  <2>1. /\ ~x.thrown /\ x.offset = w.offset + size /\ ~q.thrown /\ q.offset = r.offset + size
        /\ q.val = SubSeq(bytes, w.offset + 1, w.offset + size)
        /\ SubSeq(x.buf, w.offset + 1, w.offset + size) = chunk
    BY <1>1, <1>2, <1>3, <1>5, <1>7, Zenon
  <2>2. Mirrors(x, q, bytes)
    BY <2>1, <1>2, <1>3, Zenon DEF Mirrors
  <2> DEFINE o == w.offset  b == x.buf
  <2>3. /\ o \in Nat /\ b \in Seq(ByteSet) /\ bytes \in Seq(ByteSet) /\ o + size <= Len(b)
        /\ Len(b) = Len(bytes) /\ \A i \in 1..o + size : bytes[i] = b[i]
    <3>1. x.offset <= Len(x.buf) /\ x.buf \in Seq(ByteSet) /\ w.offset \in Nat
      BY StreamFields
    <3>2. bytes \in Seq(ByteSet) /\ Len(x.buf) = Len(bytes) /\ \A i \in 1..x.offset : bytes[i] = x.buf[i]
      BY <1>4, Zenon DEF Agrees
    <3> QED BY <2>1, <3>1, <3>2, Zenon
  <2> HIDE DEF o, b
  <2>4. SubSeq(bytes, o + 1, o + size) = SubSeq(b, o + 1, o + size)
    <3> DEFINE p == SubSeq(bytes, o + 1, o + size)  t == SubSeq(b, o + 1, o + size)
    <3>1. p \in Seq(ByteSet) /\ Len(p) = size /\ \A i \in 1..size : p[i] = bytes[o + i]
      BY <2>3, <1>0 DEF size
    <3>2. t \in Seq(ByteSet) /\ Len(t) = size /\ \A i \in 1..size : t[i] = b[o + i]
      BY <2>3, <1>0 DEF size
    <3>3. \A i \in 1..size : bytes[o + i] = b[o + i]
      BY <2>3, <1>0 DEF size
    <3> HIDE DEF p, t
    <3>4. p = t
      BY <3>1, <3>2, <3>3, SeqEqual, Zenon
    <3> QED BY <3>4 DEF p, t
  <2>5. q.val = chunk
    BY <2>1, <2>4, Zenon DEF o, b
  <2> QED BY <2>2, <2>5, <1>1, <1>3, Zenon DEF size
<1> QED BY <1>6, <1>7

LEMMA WritesBytes ==
    ASSUME NEW s \in Streams, NEW chunk \in Seq(ByteSet)
    PROVE  Wrote(s, WriteBytes(s, chunk)) /\ (s.thrown => WriteBytes(s, chunk).thrown)
BY WriteSome, Zenon DEF Wrote

LEMMA ReadsBytes ==
    ASSUME NEW s \in Streams, NEW size \in Nat
    PROVE  LET q == ReadBytes(s, size) IN q \in Streams /\ q.buf = s.buf /\ q.big = s.big
BY ReadSome, Zenon

LEMMA WritesNumber ==
    ASSUME PowersOfBase, NEW s \in Streams, NEW n \in Nat, NEW size \in Nat
    PROVE  /\ WriteUInt(s, n, size) = WriteBytes(s, Digits(n, size))
           /\ Wrote(s, WriteUInt(s, n, size)) /\ (s.thrown => WriteUInt(s, n, size).thrown)
<1> DEFINE ds == Digits(n, size)
<1>1. ds \in Seq(ByteSet)
  BY DigitsType
<1>2. s.big \in BOOLEAN
  BY StreamFields
<1> HIDE DEF ds
<1>3. LittleEndianSwap(InMemory(ds, s.big), s.big) = ds
  BY <1>1, <1>2, SameBytes
<1>4. WriteUInt(s, n, size) = WriteBytes(s, ds)
  BY <1>3, Zenon DEF WriteUInt, ds
<1>5. Wrote(s, WriteBytes(s, ds)) /\ (s.thrown => WriteBytes(s, ds).thrown)
  BY <1>1, WritesBytes
<1> QED BY <1>4, <1>5, Zenon DEF ds

\* What a number is read from.
LEMMA ReadsNumber ==
    ASSUME NEW s \in Streams, NEW size \in Nat
    PROVE  LET q == ReadUInt(s, size)  r == ReadBytes(s, size) IN
           /\ q \in Streams /\ q.buf = s.buf /\ q.big = s.big /\ q.offset = r.offset
           /\ q.thrown = r.thrown
           /\ ~q.thrown => q.val \in Nat /\ q.val = NumberOf(r.val)
<1> DEFINE r == ReadBytes(s, size)  q == ReadUInt(s, size)
           n == NumberOf(InMemory(LittleEndianSwap(r.val, s.big), s.big))
<1>1. PICK x \in Streams :
         /\ x = r
         /\ x.buf = s.buf /\ x.big = s.big
         /\ s.thrown \/ ~Fits(s, size) => x.thrown /\ x.offset = s.offset
         /\ ~s.thrown /\ Fits(s, size) =>
              /\ ~x.thrown /\ x.offset = s.offset + size
              /\ x.val = SubSeq(s.buf, s.offset + 1, s.offset + size)
  BY ReadSome, Zenon
<1>2. CASE r.thrown
  <2>1. q = r
    BY <1>2, Zenon DEF ReadUInt
  <2> QED BY <2>1, <1>1, <1>2, Zenon
<1>3. CASE ~r.thrown
  <2>1. q = [r EXCEPT !.val = n]
    <3>1. r.big = s.big
      BY <1>1
    <3> QED BY <1>3, <3>1, Zenon DEF ReadUInt
  <2>2. x.val \in Seq(ByteSet)
    <3>1. x.val = SubSeq(s.buf, s.offset + 1, s.offset + size) /\ Fits(s, size)
      BY <1>1, <1>3, Zenon
    <3>2. s.buf \in Seq(ByteSet) /\ s.offset \in Nat /\ s.offset + size <= Len(s.buf)
      BY <3>1, StreamFields DEF Fits
    <3>3. SubSeq(s.buf, s.offset + 1, s.offset + size) \in Seq(ByteSet)
      BY <3>2
    <3> QED BY <3>1, <3>3, Zenon
  <2>3. n = NumberOf(x.val)
    <3>1. s.big \in BOOLEAN
      BY StreamFields
    <3>2. InMemory(LittleEndianSwap(x.val, s.big), s.big) = x.val
      BY <2>2, <3>1, SameBytes
    <3> QED BY <3>2, <1>1, Zenon
  <2>4. n \in Nat
    BY <2>2, <2>3, NumberType
  <2> HIDE DEF n
  <2>5. n \in StreamVals
    BY <2>4, Zenon DEF StreamVals
  <2> DEFINE y == [x EXCEPT !.val = n]
  <2>6. y \in Streams /\ y.buf = x.buf /\ y.big = x.big /\ y.offset = x.offset /\ y.thrown = x.thrown
        /\ y.val = n
    BY <2>5 DEF Streams
  <2>7. q = y
    BY <2>1, <1>1, Zenon
  <2> HIDE DEF y
  <2> QED BY <2>3, <2>4, <2>6, <2>7, <1>1, Zenon
<1> QED BY <1>2, <1>3

\* A number is read as it was written.
LEMMA NumberMirrors ==
    ASSUME PowersOfBase, NEW n \in Nat, NEW size \in Nat, n < Base ^ size,
           NEW w \in Streams, NEW r, NEW bytes,
           Mirrors(w, r, bytes), Agrees(WriteUInt(w, n, size), bytes)
    PROVE  LET q == ReadUInt(r, size) IN
           /\ Mirrors(WriteUInt(w, n, size), q, bytes) /\ q.big = r.big
           /\ ~q.thrown => q.val = n
<1> DEFINE ds == Digits(n, size)  q == ReadUInt(r, size)  p == ReadBytes(r, size)
           x == WriteUInt(w, n, size)
<1>1. ds \in Seq(ByteSet) /\ Len(ds) = size /\ NumberOf(ds) = n
  BY DigitsType, NumberOfDigits
<1>2. x = WriteBytes(w, ds)
  BY WritesNumber
<1>3. r \in Streams /\ r.buf = bytes
  BY DEF Mirrors
<1> HIDE DEF ds
<1>4. Mirrors(x, p, bytes) /\ p.big = r.big /\ (~p.thrown => p.val = ds)
  <2> DEFINE y == WriteBytes(w, ds)  t == ReadBytes(r, Len(ds))
  <2>1. Agrees(y, bytes)
    BY <1>2, Zenon
  <2>2. Mirrors(y, t, bytes) /\ t.big = r.big /\ (~t.thrown => t.val = ds)
    BY <1>1, <2>1, ChunkMirrors
  <2>3. t = p /\ x = y
    BY <1>1, <1>2, Zenon
  <2> HIDE DEF x, p, t, y
  <2> QED BY <2>2, <2>3, Zenon
<1>5. /\ q \in Streams /\ q.buf = r.buf /\ q.big = r.big /\ q.offset = p.offset
      /\ q.thrown = p.thrown
      /\ ~q.thrown => q.val \in Nat /\ q.val = NumberOf(p.val)
  BY <1>3, ReadsNumber, Zenon
<1> HIDE DEF q, p, x
<1>6. Mirrors(x, q, bytes)
  BY <1>3, <1>4, <1>5, Zenon DEF Mirrors
<1> QED BY <1>1, <1>4, <1>5, <1>6, Zenon DEF q, x

-----------------------------------------------------------------------------
(* What is written and read. *)

\* A number fits its bytes, a length and a size four of them, a count eight.
Fitting(item) ==
    \/ /\ item.kind = "uint" /\ item.size \in Nat
       /\ item.val[1] \in Nat /\ item.val[1] < Base ^ item.size
    \/ /\ item.kind = "string" /\ item.val \in Seq(ByteSet) /\ Len(item.val) < Base ^ 4 - 1
    \/ /\ item.kind = "object" /\ item.val \in Seq(ByteSet)
       /\ Len(item.val) = item.size /\ item.size < Base ^ 4
    \/ /\ item.kind = "array" /\ item.val \in Seq(ByteSet)
       /\ item.size \in Nat \ {0} /\ item.size < Base ^ 4
       /\ \E count \in Nat : Len(item.val) = item.size * count /\ count < Base ^ 8

LEMMA Kinds ==
    /\ "uint" # "string" /\ "uint" # "object" /\ "uint" # "array"
    /\ "string" # "object" /\ "string" # "array" /\ "object" # "array"
OBVIOUS

\* A write never goes back.
LEMMA WritesTwo ==
    ASSUME PowersOfBase, NEW s \in Streams, NEW n \in Nat, NEW size \in Nat, NEW chunk \in Seq(ByteSet)
    PROVE  LET x == WriteUInt(s, n, size)  y == WriteBytes(x, chunk) IN
           /\ Wrote(s, x) /\ Wrote(x, y) /\ Wrote(s, y)
           /\ x.thrown => y.thrown
<1> DEFINE x == WriteUInt(s, n, size)  y == WriteBytes(x, chunk)
<1>1. Wrote(s, x)
  BY WritesNumber
<1>2. x \in Streams
  BY <1>1, Zenon DEF Wrote
<1> HIDE DEF x
<1>3. Wrote(x, y) /\ (x.thrown => y.thrown)
  BY <1>2, WritesBytes
<1> HIDE DEF y
<1>4. Wrote(s, y)
  BY <1>1, <1>3, WroteMore
<1> QED BY <1>1, <1>3, <1>4, Zenon DEF x, y

\* A length and as many bytes: a call that throws writes nothing more, and reads nothing.
LEMMA ThrownStays ==
    ASSUME NEW s \in Streams, s.thrown, NEW chunk \in Seq(ByteSet)
    PROVE  LET q == WriteBytes(s, chunk) IN
           q \in Streams /\ q.thrown /\ q.offset = s.offset /\ q.buf = s.buf
<1>1. WriteBytes(s, chunk) = Throw(s)
  BY Zenon DEF WriteBytes
<1> QED BY <1>1, ThrownStream, Zenon

LEMMA StringMirrors ==
    ASSUME PowersOfBase, NEW str \in Seq(ByteSet), Len(str) < Base ^ 4 - 1,
           NEW w \in Streams, NEW r, NEW bytes,
           Mirrors(w, r, bytes), Agrees(WriteString(w, str), bytes)
    PROVE  LET q == ReadString(r) IN
           /\ Mirrors(WriteString(w, str), q, bytes) /\ q.big = r.big
           /\ ~q.thrown => q.val = str
<1> DEFINE n == Len(str)
           x == WriteUInt(w, n, 4)  y == WriteBytes(x, str)
           p == ReadUInt(r, 4)  q == ReadString(r)
<1>0. n \in Nat /\ 4 \in Nat /\ Base ^ 4 \in Nat
  BY LenProperties, Zenon DEF PowersOfBase
<1>1. n < Base ^ 4 /\ ~ (n >= Base ^ 4 - 1)
  <2> DEFINE b == Base ^ 4
  <2> HIDE DEF b, n
  <2>1. n < b - 1 /\ b \in Nat
    BY <1>0 DEF b, n
  <2> QED BY <2>1, <1>0 DEF b
<1>2. WriteString(w, str) = y
  BY <1>1, Zenon DEF WriteString
<1>3. Wrote(w, x) /\ Wrote(x, y) /\ (x.thrown => y.thrown)
  BY <1>0, WritesTwo
<1>4. x \in Streams /\ y \in Streams
  BY <1>3, Zenon DEF Wrote
<1>5. Agrees(y, bytes)
  BY <1>2, Zenon
<1> HIDE DEF y
<1>6. Agrees(x, bytes)
  BY <1>3, <1>4, <1>5, AgreesBefore
<1>7. Mirrors(x, p, bytes) /\ p.big = r.big /\ (~p.thrown => p.val = n)
  BY <1>0, <1>1, <1>6, NumberMirrors
<1> HIDE DEF x, p, n
<1>8. CASE p.thrown
  <2>1. q = p
    BY <1>8, Zenon DEF ReadString, p
  <2>2. x.thrown
    BY <1>7, <1>8, Zenon DEF Mirrors
  <2>3. y.thrown /\ y.offset = x.offset
    BY <2>2, <1>4, ThrownStays DEF y
  <2>4. Mirrors(y, p, bytes)
    BY <2>2, <2>3, <1>7, Zenon DEF Mirrors
  <2> QED BY <2>1, <2>4, <1>2, <1>7, <1>8, Zenon
<1>9. CASE ~p.thrown
  <2>1. q = ReadBytes(p, n)
    BY <1>7, <1>9, Zenon DEF ReadString, p
  <2> DEFINE t == ReadBytes(p, Len(str))
  <2>2. Mirrors(y, t, bytes) /\ t.big = p.big /\ (~t.thrown => t.val = str)
    BY <1>4, <1>5, <1>7, ChunkMirrors DEF y
  <2>3. q = t
    BY <2>1, Zenon DEF n
  <2> HIDE DEF t, q
  <2> QED BY <2>2, <2>3, <1>2, <1>7, Zenon DEF q
<1> QED BY <1>8, <1>9

LEMMA ObjectMirrors ==
    ASSUME PowersOfBase, NEW size \in Nat, NEW obj \in Seq(ByteSet), Len(obj) = size, size < Base ^ 4,
           NEW w \in Streams, NEW r, NEW bytes,
           Mirrors(w, r, bytes), Agrees(WriteObject(w, obj), bytes)
    PROVE  LET q == ReadObject(r, size) IN
           /\ Mirrors(WriteObject(w, obj), q, bytes) /\ q.big = r.big
           /\ ~q.thrown => q.val = obj
<1> DEFINE x == WriteUInt(w, size, 4)  y == WriteBytes(x, obj)
           p == ReadUInt(r, 4)  q == ReadObject(r, size)
<1>0. 4 \in Nat
  OBVIOUS
<1>2. WriteObject(w, obj) = y
  BY Zenon DEF WriteObject
<1>3. Wrote(w, x) /\ Wrote(x, y) /\ (x.thrown => y.thrown)
  BY <1>0, WritesTwo
<1>4. x \in Streams /\ y \in Streams
  BY <1>3, Zenon DEF Wrote
<1>5. Agrees(y, bytes)
  BY <1>2, Zenon
<1> HIDE DEF y
<1>6. Agrees(x, bytes)
  BY <1>3, <1>4, <1>5, AgreesBefore
<1>7. Mirrors(x, p, bytes) /\ p.big = r.big /\ (~p.thrown => p.val = size)
  BY <1>0, <1>6, NumberMirrors
<1> HIDE DEF x, p
<1>8. CASE p.thrown
  <2>1. p \in Streams
    BY <1>7, Zenon DEF Mirrors
  <2>2. q = Throw(p)
    BY <1>8, Zenon DEF ReadObject, p
  <2> HIDE DEF q
  <2>3. q \in Streams /\ q.thrown /\ q.buf = p.buf /\ q.offset = p.offset /\ q.big = p.big
    BY <2>1, <2>2, ThrownStream
  <2>4. x.thrown
    BY <1>7, <1>8, Zenon DEF Mirrors
  <2>5. y.thrown /\ y.offset = x.offset
    BY <2>4, <1>4, ThrownStays DEF y
  <2>6. Mirrors(y, q, bytes)
    BY <2>3, <2>5, <1>7, Zenon DEF Mirrors
  <2> QED BY <2>3, <2>6, <1>2, <1>7, Zenon DEF q
<1>9. CASE ~p.thrown
  <2>1. q = ReadBytes(p, size)
    BY <1>7, <1>9, Zenon DEF ReadObject, p
  <2> DEFINE t == ReadBytes(p, Len(obj))
  <2>2. Mirrors(y, t, bytes) /\ t.big = p.big /\ (~t.thrown => t.val = obj)
    BY <1>4, <1>5, <1>7, ChunkMirrors DEF y
  <2>3. q = t
    BY <2>1, Zenon
  <2> HIDE DEF t, q
  <2> QED BY <2>2, <2>3, <1>2, <1>7, Zenon DEF q
<1> QED BY <1>8, <1>9

-----------------------------------------------------------------------------
(* An array, whose headers are looked at, and then read. *)

LEMMA ReadNumberMoves ==
    ASSUME NEW s \in Streams, NEW size \in Nat
    PROVE  LET q == ReadUInt(s, size) IN ~q.thrown => ~s.thrown /\ q.offset = s.offset + size
<1> DEFINE q == ReadUInt(s, size)
<1>1. PICK x \in Streams :
         /\ x = ReadBytes(s, size)
         /\ s.thrown \/ ~Fits(s, size) => x.thrown /\ x.offset = s.offset
         /\ ~s.thrown /\ Fits(s, size) =>  ~x.thrown /\ x.offset = s.offset + size
  BY ReadSome, Zenon
<1>2. q.offset = x.offset /\ q.thrown = x.thrown
  BY <1>1, ReadsNumber, Zenon
<1> HIDE DEF q
<1> QED BY <1>1, <1>2, Zenon DEF q

\* The place before the headers is found again.
LEMMA SeeksBack ==
    ASSUME NEW s \in Streams, ~s.thrown, NEW o \in Nat, s.offset = o + 12
    PROVE  LET q == SeekRelative(s, -12) IN
           /\ q \in Streams /\ q.buf = s.buf /\ q.big = s.big /\ q.val = s.val
           /\ ~q.thrown /\ q.offset = o
<1>1. /\ s.offset \in Nat /\ Len(s.buf) \in Nat /\ s.offset <= Len(s.buf) /\ s.buf \in Seq(ByteSet)
      /\ s.big \in BOOLEAN /\ s.thrown \in BOOLEAN /\ s.val \in StreamVals
  BY StreamFields
<1>2. s.offset + (-12) = o /\ o <= Len(s.buf)
  BY <1>1
<1>3. Clamp(o, 0, Len(s.buf)) = o
  BY <1>1, <1>2 DEF Clamp
<1> DEFINE q == [s EXCEPT !.offset = o]
<1>4. SeekRelative(s, -12) = q
  BY <1>2, <1>3, Zenon DEF SeekRelative, SeekAbsolute
<1>5. q \in Streams /\ q.buf = s.buf /\ q.big = s.big /\ q.val = s.val /\ q.thrown = s.thrown /\ q.offset = o
  BY <1>2 DEF Streams
<1> HIDE DEF q
<1> QED BY <1>4, <1>5, Zenon

LEMMA SeekStays ==
    ASSUME NEW s \in Streams, s.thrown, NEW n \in Int PROVE SeekRelative(s, n) = s
BY Zenon DEF SeekRelative, SeekAbsolute

\* The part q of what was written is read.
Copies(w, r, bytes, chunk, q) ==
    /\ Mirrors(WriteBytes(w, chunk), q, bytes) /\ q.big = r.big
    /\ ~q.thrown => q.val = chunk

LEMMA PartMirrors ==
    ASSUME NEW w \in Streams, NEW r, NEW bytes, NEW chunk \in Seq(ByteSet),
           Mirrors(w, r, bytes), Agrees(WriteBytes(w, chunk), bytes)
    PROVE  Copies(w, r, bytes, chunk, ReadBytes(r, Len(chunk)))
BY ChunkMirrors DEF Copies

LEMMA ArrayMirrors ==
    ASSUME PowersOfBase, NEW size \in Nat \ {0}, NEW objs \in Seq(ByteSet), NEW count \in Nat,
           Len(objs) = size * count, size < Base ^ 4, count < Base ^ 8,
           NEW w \in Streams, NEW r, NEW bytes,
           Mirrors(w, r, bytes), Agrees(WriteObjectArray(w, size, objs), bytes)
    PROVE  LET n == PeekObjectArraySize(r, size)
               q == IF n.thrown THEN n ELSE ReadObjectArray(n, size, n.val) IN
           /\ Mirrors(WriteObjectArray(w, size, objs), q, bytes) /\ q.big = r.big
           /\ ~q.thrown => q.val = objs
<1> DEFINE x1 == WriteUInt(w, size, 4)  x == WriteUInt(x1, count, 8)  y == WriteBytes(x, objs)
           p1 == ReadUInt(r, 4)  p == ReadUInt(p1, 8)
           n == PeekObjectArraySize(r, size)
           q == IF n.thrown THEN n ELSE ReadObjectArray(n, size, n.val)
<1>0. 4 \in Nat /\ 8 \in Nat /\ size \in Nat
  OBVIOUS
<1>1. Len(objs) \div size = count
  <2>1. Len(objs) \in Nat /\ 0 \in 0..(size - 1) /\ Len(objs) = size * count + 0
    BY LenProperties
  <2> QED BY <2>1, OnlyQuotient
<1>2. WriteObjectArray(w, size, objs) = y
  BY <1>1, Zenon DEF WriteObjectArray
<1>3. Wrote(w, x1) /\ (w.thrown => x1.thrown)
  BY <1>0, WritesNumber
<1>4. x1 \in Streams
  BY <1>3, Zenon DEF Wrote
<1> HIDE DEF x1
<1>5. Wrote(x1, x) /\ (x1.thrown => x.thrown) /\ Wrote(x, y)
  BY <1>0, <1>4, WritesTwo, WritesNumber
<1>6. x \in Streams /\ y \in Streams
  BY <1>5, Zenon DEF Wrote
<1>7. Agrees(y, bytes)
  BY <1>2, Zenon
<1> HIDE DEF y
<1>8. Agrees(x, bytes)
  BY <1>5, <1>6, <1>7, AgreesBefore
<1> HIDE DEF x
<1>9. Agrees(x1, bytes)
  BY <1>4, <1>5, <1>8, AgreesBefore
\* What a stream reads that is where the writer was.
<1>10. ASSUME NEW s, Mirrors(w, s, bytes)
       PROVE  LET p1s == ReadUInt(s, 4)  ps == ReadUInt(p1s, 8) IN
              /\ Mirrors(x1, p1s, bytes) /\ p1s.big = s.big /\ (~p1s.thrown => p1s.val = size)
              /\ Mirrors(x, ps, bytes) /\ ps.big = s.big /\ (~ps.thrown => ps.val = count)
              /\ ~ps.thrown => ~p1s.thrown /\ ~s.thrown /\ ps.offset = s.offset + 12
  <2> DEFINE p1s == ReadUInt(s, 4)  ps == ReadUInt(p1s, 8)
  <2>1. Mirrors(x1, p1s, bytes) /\ p1s.big = s.big /\ (~p1s.thrown => p1s.val = size)
    BY <1>0, <1>9, <1>10, NumberMirrors DEF x1
  <2>2. s \in Streams /\ s.offset \in Nat
    <3>1. s \in Streams
      BY <1>10, Zenon DEF Mirrors
    <3> QED BY <3>1, StreamFields
  <2>3. ~p1s.thrown => ~s.thrown /\ p1s.offset = s.offset + 4
    BY <1>0, <2>2, ReadNumberMoves
  <2> HIDE DEF p1s
  <2>4. Mirrors(x, ps, bytes) /\ ps.big = p1s.big /\ (~ps.thrown => ps.val = count)
    BY <1>0, <1>4, <1>8, <2>1, NumberMirrors DEF x
  <2>5. p1s \in Streams
    BY <2>1, Zenon DEF Mirrors
  <2>6. ~ps.thrown => ~p1s.thrown /\ ps.offset = p1s.offset + 8
    BY <1>0, <2>5, ReadNumberMoves
  <2> HIDE DEF ps
  <2>7. ~ps.thrown => ~p1s.thrown /\ ~s.thrown /\ ps.offset = s.offset + 12
    BY <2>2, <2>3, <2>6
  <2> QED BY <2>1, <2>4, <2>7, Zenon DEF p1s, ps
<1>11. /\ Mirrors(x1, p1, bytes) /\ p1.big = r.big /\ (~p1.thrown => p1.val = size)
       /\ Mirrors(x, p, bytes) /\ p.big = r.big /\ (~p.thrown => p.val = count)
       /\ ~p.thrown => ~p1.thrown /\ ~r.thrown /\ p.offset = r.offset + 12
  BY <1>10, Zenon
<1>12. r \in Streams /\ r.offset \in Nat /\ p \in Streams
  <2>1. r \in Streams /\ p \in Streams
    BY <1>11, Zenon DEF Mirrors
  <2> QED BY <2>1, StreamFields
<1>13. n = IF p.thrown \/ p1.val /= size THEN Throw(SeekRelative(p, -12)) ELSE SeekRelative(p, -12)
  BY Zenon DEF PeekObjectArraySize
<1> HIDE DEF p, p1, n
<1>14. CASE p.thrown
  <2>1. SeekRelative(p, -12) = p
    BY <1>12, <1>14, SeekStays
  <2>2. n = Throw(p)
    BY <1>13, <1>14, <2>1, Zenon
  <2>3. n \in Streams /\ n.thrown /\ n.buf = p.buf /\ n.offset = p.offset /\ n.big = p.big
    BY <1>12, <2>2, ThrownStream
  <2>4. q = n
    BY <2>3, Zenon
  <2>5. x.thrown
    BY <1>11, <1>14, Zenon DEF Mirrors
  <2>6. y.thrown /\ y.offset = x.offset
    BY <2>5, <1>6, ThrownStays DEF y
  <2> HIDE DEF q
  <2>7. Mirrors(y, n, bytes)
    BY <2>3, <2>6, <1>11, Zenon DEF Mirrors
  <2> QED BY <2>3, <2>4, <2>7, <1>2, <1>11, Zenon DEF q, n
<1>15. CASE ~p.thrown
  <2>1. n = SeekRelative(p, -12)
    BY <1>11, <1>13, <1>15, Zenon
  <2>2. n \in Streams /\ n.buf = p.buf /\ n.big = p.big /\ n.val = p.val /\ ~n.thrown /\ n.offset = r.offset
    <3> DEFINE b == SeekRelative(p, -12)
    <3>1. p \in Streams /\ ~p.thrown /\ r.offset \in Nat /\ p.offset = r.offset + 12
      BY <1>11, <1>12, <1>15, Zenon
    <3>2. b \in Streams /\ b.buf = p.buf /\ b.big = p.big /\ b.val = p.val /\ ~b.thrown /\ b.offset = r.offset
      BY <3>1, SeeksBack, Zenon
    <3>3. n = b
      BY <2>1, Zenon
    <3> HIDE DEF b
    <3> QED BY <3>2, <3>3, Zenon
  <2>3. Mirrors(w, n, bytes)
    BY <2>2, <1>11, <1>15, Zenon DEF Mirrors
  <2> DEFINE m1 == ReadUInt(n, 4)  m == ReadUInt(m1, 8)
  <2>4. /\ Mirrors(x1, m1, bytes) /\ m1.big = n.big /\ (~m1.thrown => m1.val = size)
        /\ Mirrors(x, m, bytes) /\ m.big = n.big /\ (~m.thrown => m.val = count)
        /\ ~m.thrown => ~m1.thrown
    BY <1>10, <2>3, Zenon
  <2>5. ~m.thrown /\ m.val = count /\ m1.val = size
    BY <2>4, <1>11, <1>15, Zenon DEF Mirrors
  <2>6. n.val = count /\ ~ (m.val > n.val)
    BY <2>2, <2>5, <1>11, <1>15
  <2>7. q = ReadBytes(m, size * count)
    <3>1. ReadObjectArray(n, size, n.val) = ReadBytes(m, size * m.val)
      BY <2>5, <2>6, Zenon DEF ReadObjectArray
    <3> HIDE DEF m
    <3> QED BY <3>1, <2>2, <2>5, Zenon
  <2> DEFINE t == ReadBytes(m, Len(objs))
  <2> HIDE DEF m1, m
  <2>8. Mirrors(y, t, bytes) /\ t.big = m.big /\ (~t.thrown => t.val = objs)
    <3> HIDE DEF t
    <3>1. x \in Streams /\ Mirrors(x, m, bytes) /\ Agrees(WriteBytes(x, objs), bytes)
      BY <1>6, <1>7, <2>4, Zenon DEF y
    <3>2. Copies(x, m, bytes, objs, ReadBytes(m, Len(objs)))
      BY <3>1, PartMirrors, Zenon
    <3> QED BY <3>2, Zenon DEF Copies, y, t
  <2>9. q = t
    BY <2>7, Zenon
  <2> HIDE DEF t, q
  <2> QED BY <2>2, <2>4, <2>8, <2>9, <1>2, <1>11, Zenon DEF q, n
<1> QED BY <1>14, <1>15

-----------------------------------------------------------------------------
(* The items. *)

LEMMA WriteKinds ==
    ASSUME NEW s, NEW item
    PROVE  /\ item.kind = "uint" => WriteItem(s, item) = WriteUInt(s, item.val[1], item.size)
           /\ item.kind = "string" => WriteItem(s, item) = WriteString(s, item.val)
           /\ item.kind = "object" => WriteItem(s, item) = WriteObject(s, item.val)
           /\ item.kind = "array" => WriteItem(s, item) = WriteObjectArray(s, item.size, item.val)
BY Kinds DEF WriteItem

LEMMA ReadKinds ==
    ASSUME NEW s, NEW item
    PROVE  /\ item.kind = "uint" => ReadItem(s, item) = ReadUInt(s, item.size)
           /\ item.kind = "string" => ReadItem(s, item) = ReadString(s)
           /\ item.kind = "object" => ReadItem(s, item) = ReadObject(s, item.size)
           /\ item.kind = "array" =>
                ReadItem(s, item) =
                  LET n == PeekObjectArraySize(s, item.size) IN
                  IF n.thrown THEN n ELSE ReadObjectArray(n, item.size, n.val)
BY Kinds DEF ReadItem

\* A call leaves a stream that is one, and what was written before as it was.
LEMMA ItemWritten ==
    ASSUME PowersOfBase, NEW s \in Streams, NEW item, Fitting(item)
    PROVE  Wrote(s, WriteItem(s, item))
<1> DEFINE q == WriteItem(s, item)  size == item.size  val == item.val
<1>0. 4 \in Nat /\ 8 \in Nat
  OBVIOUS
<1>1. CASE item.kind = "uint" /\ size \in Nat /\ val[1] \in Nat
  <2>1. q = WriteUInt(s, val[1], size)
    BY <1>1, WriteKinds
  <2> HIDE DEF q, size, val
  <2>2. Wrote(s, WriteUInt(s, val[1], size))
    BY <1>1, WritesNumber
  <2> QED BY <2>1, <2>2, Zenon DEF q
<1>2. CASE item.kind = "string" /\ val \in Seq(ByteSet) /\ Len(val) < Base ^ 4 - 1
  <2>1. q = WriteString(s, val)
    BY <1>2, WriteKinds
  <2> DEFINE n == Len(val)
  <2>2. n \in Nat /\ ~ (n >= Base ^ 4 - 1)
    <3> DEFINE b == Base ^ 4
    <3>1. b \in Nat
      BY <1>0, Zenon DEF PowersOfBase
    <3>2. n \in Nat /\ n < b - 1
      BY <1>2, LenProperties
    <3> HIDE DEF b, n
    <3>3. ~ (n >= b - 1)
      BY <3>1, <3>2
    <3> QED BY <3>2, <3>3, Zenon DEF b
  <2>3. WriteString(s, val) = WriteBytes(WriteUInt(s, n, 4), val)
    BY <2>2, Zenon DEF WriteString
  <2> HIDE DEF q, val, n
  <2>4. Wrote(s, WriteBytes(WriteUInt(s, n, 4), val))
    BY <1>0, <1>2, <2>2, WritesTwo
  <2> QED BY <2>1, <2>3, <2>4, Zenon DEF q
<1>3. CASE item.kind = "object" /\ val \in Seq(ByteSet)
  <2>1. q = WriteObject(s, val)
    BY <1>3, WriteKinds
  <2> DEFINE n == Len(val)
  <2>2. n \in Nat
    BY <1>3, LenProperties
  <2>3. WriteObject(s, val) = WriteBytes(WriteUInt(s, n, 4), val)
    BY Zenon DEF WriteObject
  <2> HIDE DEF q, val, n
  <2>4. Wrote(s, WriteBytes(WriteUInt(s, n, 4), val))
    BY <1>0, <1>3, <2>2, WritesTwo
  <2> QED BY <2>1, <2>3, <2>4, Zenon DEF q
<1>4. CASE item.kind = "array" /\ val \in Seq(ByteSet) /\ size \in Nat \ {0}
  <2>1. q = WriteObjectArray(s, size, val)
    BY <1>4, WriteKinds
  <2> DEFINE x == WriteUInt(s, size, 4)  n == Len(val) \div size
  <2>2. n \in Nat
    <3>1. Len(val) \in Nat
      BY <1>4, LenProperties
    <3> HIDE DEF size
    <3> QED BY <1>4, <3>1, DivIs
  <2>3. q = WriteBytes(WriteUInt(x, n, 8), val)
    BY <2>1, Zenon DEF WriteObjectArray
  <2> HIDE DEF q, val, n, size
  <2>4. Wrote(s, x)
    BY <1>0, <1>4, WritesNumber
  <2>5. x \in Streams
    BY <2>4, Zenon DEF Wrote
  <2> HIDE DEF x
  <2>6. Wrote(x, WriteBytes(WriteUInt(x, n, 8), val))
    BY <1>0, <1>4, <2>2, <2>5, WritesTwo
  <2>7. Wrote(s, WriteBytes(WriteUInt(x, n, 8), val))
    BY <2>4, <2>6, WroteMore
  <2> QED BY <2>3, <2>7, Zenon DEF q
<1> QED BY <1>1, <1>2, <1>3, <1>4, Zenon DEF Fitting

LEMMA SeekType ==
    ASSUME NEW s \in Streams
    PROVE  LET q == SeekRelative(s, -12) IN q \in Streams /\ q.val = s.val /\ q.thrown = s.thrown
<1> DEFINE o == Clamp(s.offset + (-12), 0, Len(s.buf))  q == [s EXCEPT !.offset = o]
<1>1. o \in Nat /\ o <= Len(s.buf)
  BY StreamFields DEF Clamp
<1> HIDE DEF o
<1>2. q \in Streams /\ q.val = s.val /\ q.thrown = s.thrown
  BY <1>1 DEF Streams
<1>3. SeekRelative(s, -12) = IF s.thrown THEN s ELSE q
  BY Zenon DEF SeekRelative, SeekAbsolute, o
<1> HIDE DEF q
<1> QED BY <1>2, <1>3, Zenon

\* A reader may find anything.
LEMMA ItemRead ==
    ASSUME NEW s \in Streams, NEW item, Fitting(item)
    PROVE  ReadItem(s, item) \in Streams
<1> DEFINE q == ReadItem(s, item)  size == item.size
<1>0. 4 \in Nat /\ 8 \in Nat
  OBVIOUS
<1>1. CASE item.kind = "uint" /\ size \in Nat
  <2>1. q = ReadUInt(s, size)
    BY <1>1, ReadKinds
  <2> HIDE DEF q, size
  <2>2. ReadUInt(s, size) \in Streams
    BY <1>1, ReadsNumber
  <2> QED BY <2>1, <2>2, Zenon DEF q
<1> DEFINE r == ReadUInt(s, 4)
<1>2. r \in Streams /\ (~r.thrown => r.val \in Nat)
  BY <1>0, ReadsNumber
<1> HIDE DEF r
<1>3. CASE item.kind = "string"
  <2>1. q = IF r.thrown THEN r ELSE ReadBytes(r, r.val)
    BY <1>3, ReadKinds, Zenon DEF ReadString, r
  <2>2. ASSUME ~r.thrown PROVE ReadBytes(r, r.val) \in Streams
    BY <1>2, <2>2, ReadsBytes
  <2> QED BY <1>2, <2>1, <2>2, Zenon
<1>4. CASE item.kind = "object" /\ size \in Nat
  <2>1. q = IF r.thrown \/ r.val /= size THEN Throw(r) ELSE ReadBytes(r, size)
    BY <1>4, ReadKinds, Zenon DEF ReadObject, r
  <2>2. ReadBytes(r, size) \in Streams /\ Throw(r) \in Streams
    BY <1>2, <1>4, ReadsBytes, ThrownStream, Zenon
  <2> QED BY <2>1, <2>2, Zenon
<1>5. CASE item.kind = "array" /\ size \in Nat
  <2> HIDE DEF size
  <2> DEFINE p == ReadUInt(r, 8)  back == SeekRelative(p, -12)
             n == PeekObjectArraySize(s, size)
  <2>1. p \in Streams
    BY <1>0, <1>2, ReadsNumber
  <2> HIDE DEF p
  <2>2. back \in Streams
    BY <2>1, SeekType
  <2>3. n = IF p.thrown \/ r.val /= size THEN Throw(back) ELSE back
    BY Zenon DEF PeekObjectArraySize, p, r
  <2> HIDE DEF back, n
  <2>4. n \in Streams
    BY <2>2, <2>3, ThrownStream, Zenon
  <2> DEFINE m1 == ReadUInt(n, 4)  m == ReadUInt(m1, 8)  a == ReadObjectArray(n, size, n.val)
  <2>5. m1 \in Streams
    BY <1>0, <2>4, ReadsNumber
  <2> HIDE DEF m1
  <2>6. m \in Streams /\ (~m.thrown => m.val \in Nat)
    BY <1>0, <2>5, ReadsNumber
  <2>7. a = IF m.thrown \/ m1.val /= size \/ m.val > n.val THEN Throw(m)
            ELSE ReadBytes(m, size * m.val)
    BY Zenon DEF ReadObjectArray, m1
  <2> HIDE DEF m, a
  <2>8. ASSUME ~m.thrown PROVE ReadBytes(m, size * m.val) \in Streams
    <3>1. size * m.val \in Nat
      BY <2>6, <2>8, <1>5
    <3> QED BY <3>1, <2>6, ReadsBytes
  <2>9. Throw(m) \in Streams
    BY <2>6, ThrownStream, Zenon
  <2>10. a \in Streams
    BY <2>7, <2>8, <2>9, Zenon
  <2>11. q = IF n.thrown THEN n ELSE a
    BY <1>5, ReadKinds, Zenon DEF n, a, size
  <2> QED BY <2>4, <2>10, <2>11, Zenon
<1> QED BY <1>1, <1>3, <1>4, <1>5 DEF Fitting

\* What was written is read as it was, and what was not is not.
LEMMA ItemMirrors ==
    ASSUME PowersOfBase, NEW item, Fitting(item), NEW w \in Streams, NEW r, NEW bytes,
           Mirrors(w, r, bytes), Agrees(WriteItem(w, item), bytes)
    PROVE  LET q == ReadItem(r, item) IN
           /\ Mirrors(WriteItem(w, item), q, bytes)
           /\ ~q.thrown => q.val = ValueOf(item)
<1> DEFINE x == WriteItem(w, item)  q == ReadItem(r, item)  size == item.size  val == item.val
<1>1. CASE item.kind = "uint" /\ size \in Nat /\ val[1] \in Nat /\ val[1] < Base ^ size
  <2>1. x = WriteUInt(w, val[1], size) /\ q = ReadUInt(r, size) /\ ValueOf(item) = val[1]
    BY <1>1, WriteKinds, ReadKinds, Zenon DEF ValueOf
  <2> HIDE DEF size
  <2> DEFINE v == val[1]  t == ReadUInt(r, size)  y == WriteUInt(w, v, size)
  <2> HIDE DEF v
  <2>2. Agrees(y, bytes) /\ v \in Nat /\ v < Base ^ size
    BY <1>1, <2>1, Zenon DEF v
  <2>3. Mirrors(y, t, bytes) /\ (~t.thrown => t.val = v)
    BY <1>1, <2>2, NumberMirrors
  <2> QED BY <2>1, <2>3, Zenon DEF v
<1>2. CASE item.kind = "string" /\ val \in Seq(ByteSet) /\ Len(val) < Base ^ 4 - 1
  <2>0. item.kind # "uint"
    BY <1>2, Kinds
  <2>1. x = WriteString(w, val) /\ q = ReadString(r) /\ ValueOf(item) = val
    BY <1>2, <2>0, WriteKinds, ReadKinds, Zenon DEF ValueOf
  <2> DEFINE t == ReadString(r)  y == WriteString(w, val)
  <2>2. Agrees(y, bytes)
    BY <2>1, Zenon
  <2> HIDE DEF val
  <2>3. Mirrors(y, t, bytes) /\ (~t.thrown => t.val = val)
    BY <1>2, <2>2, StringMirrors
  <2> QED BY <2>1, <2>3, Zenon
<1>3. CASE item.kind = "object" /\ val \in Seq(ByteSet) /\ Len(val) = size /\ size < Base ^ 4
  <2>0. item.kind # "uint"
    BY <1>3, Kinds
  <2>1. x = WriteObject(w, val) /\ q = ReadObject(r, size) /\ ValueOf(item) = val
    BY <1>3, <2>0, WriteKinds, ReadKinds, Zenon DEF ValueOf
  <2> DEFINE t == ReadObject(r, size)  y == WriteObject(w, val)
  <2>2. Agrees(y, bytes)
    BY <2>1, Zenon
  <2>4. size \in Nat
    BY <1>3, LenProperties
  <2> HIDE DEF val, size
  <2>3. Mirrors(y, t, bytes) /\ (~t.thrown => t.val = val)
    BY <1>3, <2>2, <2>4, ObjectMirrors
  <2> QED BY <2>1, <2>3, Zenon
<1>4. CASE /\ item.kind = "array" /\ val \in Seq(ByteSet)
           /\ size \in Nat \ {0} /\ size < Base ^ 4
           /\ \E count \in Nat : Len(val) = size * count /\ count < Base ^ 8
  <2>0. item.kind # "uint"
    BY <1>4, Kinds
  <2> DEFINE n == PeekObjectArraySize(r, size)
             t == IF n.thrown THEN n ELSE ReadObjectArray(n, size, n.val)
             y == WriteObjectArray(w, size, val)
  <2>1. x = y /\ q = t /\ ValueOf(item) = val
    BY <1>4, <2>0, WriteKinds, ReadKinds, Zenon DEF ValueOf
  <2>2. Agrees(y, bytes)
    BY <2>1, Zenon
  <2> HIDE DEF val, size
  <2>5. PICK count \in Nat : Len(val) = size * count /\ count < Base ^ 8
    BY <1>4, Zenon
  <2>3. Mirrors(y, t, bytes) /\ (~t.thrown => t.val = val)
    BY <1>4, <2>2, <2>5, ArrayMirrors
  <2> HIDE DEF t, y
  <2> QED BY <2>1, <2>3, Zenon
<1> QED BY <1>1, <1>2, <1>3, <1>4, Zenon DEF Fitting

-----------------------------------------------------------------------------
(* The streams before and after each item. *)

Logs == Seq(Streams) \ {<<>>}

IsStepper(D, C) == D \in [Streams -> [C -> Streams]]

Logging(D, C) == [log \in Logs |-> [c \in C |-> Append(log, D[Last(log)][c])]]

\* A log of the calls of D.
Logged(log, D, s, items) ==
    /\ log \in Seq(Streams) /\ Len(log) = Len(items) + 1 /\ log[1] = s
    /\ \A k \in 1..Len(items) : log[k + 1] = D[log[k]][items[k]]

LEMMA LogFacts ==
    ASSUME NEW log \in Logs
    PROVE  /\ log \in Seq(Streams) /\ Len(log) \in Nat \ {0}
           /\ Last(log) = log[Len(log)] /\ Last(log) \in Streams
<1>1. log \in Seq(Streams) /\ log # <<>>
  BY DEF Logs
<1>2. Len(log) \in Nat \ {0}
  BY <1>1, EmptySeq, LenProperties
<1>3. Last(log) = log[Len(log)]
  BY Zenon DEF Last
<1>4. Len(log) \in 1..Len(log)
  BY <1>2
<1>5. log[Len(log)] \in Streams
  BY <1>1, <1>4, ElementOfSeq
<1> QED BY <1>1, <1>2, <1>3, <1>5

LEMMA LoggedMore ==
    ASSUME NEW log \in Logs, NEW q \in Streams
    PROVE  /\ Append(log, q) \in Logs /\ Len(Append(log, q)) = Len(log) + 1
           /\ Append(log, q)[Len(log) + 1] = q
           /\ \A i \in 1..Len(log) : Append(log, q)[i] = log[i]
<1>1. log \in Seq(Streams)
  BY LogFacts
<1>2. /\ Append(log, q) \in Seq(Streams) /\ Append(log, q) # <<>>
      /\ Len(Append(log, q)) = Len(log) + 1 /\ Append(log, q)[Len(log) + 1] = q
      /\ \A i \in 1..Len(log) : Append(log, q)[i] = log[i]
  BY <1>1, AppendProperties
<1> QED BY <1>2 DEF Logs

LEMMA LogMachine ==
    ASSUME NEW C, NEW D, IsStepper(D, C) PROVE IsMachine(Logging(D, C), Logs, C)
<1>1. ASSUME NEW log \in Logs, NEW c \in C PROVE Append(log, D[Last(log)][c]) \in Logs
  <2>1. Last(log) \in Streams
    BY LogFacts
  <2>2. D[Last(log)][c] \in Streams
    BY <2>1 DEF IsStepper
  <2> QED BY <2>2, LoggedMore
<1> QED BY <1>1 DEF IsMachine, Logging

LEMMA LogsRight ==
    ASSUME NEW C, NEW D, IsStepper(D, C), NEW s \in Streams, NEW items \in Seq(C)
    PROVE  Logged(Run(Logging(D, C), <<s>>, items, Logs), D, s, items)
<1> DEFINE V == Logs  G == Logging(D, C)  base == <<s>>  n == Len(items)
<1>1. IsMachine(G, V, C)
  BY LogMachine
<1>2. base \in V /\ Len(base) = 1 /\ base[1] = s
  <2>1. base \in Seq(Streams) /\ base # <<>>
    OBVIOUS
  <2> QED BY <2>1 DEF Logs
<1> HIDE DEF base
<1>3. PICK f : Traces(f, G, base, items, V) /\ Run(G, base, items, V) = f[Len(items)]
  <2> HIDE DEF V, G
  <2> QED BY <1>1, <1>2, RunTrace
<1>4. n \in Nat /\ f \in [0..n -> V] /\ f[0] = base /\ \A k \in 1..n : f[k] = G[f[k - 1]][items[k]]
  BY <1>3, LenProperties DEF Traces
<1> HIDE DEF V
<1> DEFINE Sofar(k) == /\ Len(f[k]) = k + 1 /\ f[k][1] = s
                      /\ \A i \in 1..k : f[k][i + 1] = D[f[k][i]][items[i]]
           T == {k \in Nat : k <= n => Sofar(k)}
<1>5. 0 \in T
  BY <1>2, <1>4
<1>6. ASSUME NEW k \in T PROVE k + 1 \in T
  <2> SUFFICES ASSUME k + 1 <= n PROVE Sofar(k + 1)
    OBVIOUS
  <2>1. k \in Nat /\ k <= n /\ k + 1 \in 1..n /\ (k + 1) - 1 = k /\ k \in 0..n
    BY <1>4
  <2>2. Sofar(k)
    BY <2>1
  <2> DEFINE g == f[k]  c == items[k + 1]  q == D[Last(g)][c]  h == f[k + 1]
  <2>3. g \in Logs /\ c \in C
    BY <1>4, <2>1, ElementOfSeq DEF V
  <2>4. h = Append(g, q)
    <3>1. h = G[g][c]
      BY <1>4, <2>1
    <3> HIDE DEF g, c, h
    <3>2. G[g][c] = Append(g, q)
      BY <2>3, Zenon DEF Logging
    <3> QED BY <3>1, <3>2, Zenon
  <2>5. Len(g) = k + 1 /\ g[1] = s /\ \A i \in 1..k : g[i + 1] = D[g[i]][items[i]]
    BY <2>2
  <2> HIDE DEF g, h
  <2>6. Last(g) = g[k + 1] /\ Last(g) \in Streams
    BY <2>3, <2>5, LogFacts
  <2>7. q \in Streams
    BY <2>3, <2>6 DEF IsStepper
  <2> HIDE DEF q
  <2>8. Len(h) = k + 2 /\ h[k + 2] = q /\ \A i \in 1..k + 1 : h[i] = g[i]
    <3>1. /\ Len(Append(g, q)) = Len(g) + 1 /\ Append(g, q)[Len(g) + 1] = q
          /\ \A i \in 1..Len(g) : Append(g, q)[i] = g[i]
      BY <2>3, <2>7, LoggedMore
    <3>2. Len(g) + 1 = k + 2
      BY <2>5, <2>1
    <3> QED BY <3>1, <3>2, <2>4, <2>5
  <2>9. ASSUME NEW i \in 1..k + 1 PROVE h[i + 1] = D[h[i]][items[i]]
    <3>1. CASE i = k + 1
      <4>1. h[k + 2] = D[g[k + 1]][items[k + 1]]
        BY <2>6, <2>8, Zenon DEF q
      <4>2. h[k + 1] = g[k + 1] /\ i + 1 = k + 2
        BY <2>1, <2>8, <3>1
      <4> QED BY <4>1, <4>2, <3>1, Zenon
    <3>2. CASE i \in 1..k
      <4> HIDE DEF T
      <4>1. i + 1 \in 1..k + 1 /\ i \in 1..k + 1
        BY <2>1, <3>2
      <4>2. h[i + 1] = g[i + 1] /\ h[i] = g[i] /\ g[i + 1] = D[g[i]][items[i]]
        BY <4>1, <2>5, <2>8, <3>2, Zenon
      <4> QED BY <4>2, Zenon
    <3> QED BY <2>1, <3>1, <3>2
  <2>10. Len(h) = (k + 1) + 1 /\ h[1] = s
    BY <2>1, <2>5, <2>8
  <2> QED BY <2>9, <2>10, Zenon DEF h
<1>7. T = Nat
  <2> HIDE DEF T
  <2>1. T \in SUBSET Nat
    BY DEF T
  <2> QED BY <2>1, <1>5, <1>6, Induction
<1>8. Sofar(n)
  BY <1>4, <1>7
<1>9. f[n] \in Seq(Streams)
  <2>1. f[n] \in Logs
    BY <1>4 DEF V
  <2> QED BY <2>1, LogFacts
<1>10. Run(G, base, items, V) = f[n]
  BY <1>3
<1>11. Logged(f[n], D, s, items)
  BY <1>8, <1>9 DEF Logged
<1> HIDE DEF G
<1> QED BY <1>10, <1>11, Zenon DEF V, base, G

-----------------------------------------------------------------------------
(* What is done to a stream with each item of C. *)
Writing(C) == [q \in Streams |-> [c \in C |-> WriteItem([q EXCEPT !.thrown = FALSE], c)]]

Reading(C) == [q \in Streams |-> [c \in C |-> ReadItem([q EXCEPT !.thrown = FALSE], c)]]

AllFit(C) == \A c \in C : Fitting(c)

LEMMA WritingType == ASSUME PowersOfBase, NEW C, AllFit(C) PROVE IsStepper(Writing(C), C)
<1>1. ASSUME NEW q \in Streams, NEW c \in C PROVE WriteItem([q EXCEPT !.thrown = FALSE], c) \in Streams
  <2>1. PICK s \in Streams : s = [q EXCEPT !.thrown = FALSE]
    BY Restarted, Zenon
  <2>2. WriteItem(s, c) \in Streams
    BY ItemWritten, Zenon DEF Wrote, AllFit
  <2> QED BY <2>1, <2>2, Zenon
<1> QED BY <1>1, Zenon DEF IsStepper, Writing

LEMMA ReadingType == ASSUME NEW C, AllFit(C) PROVE IsStepper(Reading(C), C)
<1>1. ASSUME NEW q \in Streams, NEW c \in C PROVE ReadItem([q EXCEPT !.thrown = FALSE], c) \in Streams
  <2>1. PICK s \in Streams : s = [q EXCEPT !.thrown = FALSE]
    BY Restarted, Zenon
  <2>2. ReadItem(s, c) \in Streams
    BY ItemRead, Zenon DEF AllFit
  <2> QED BY <2>1, <2>2, Zenon
<1> QED BY <1>1, Zenon DEF IsStepper, Reading

LEMMA FirstLog == ASSUME NEW s \in Streams PROVE <<s>> \in Logs
<1>1. <<s>> \in Seq(Streams) /\ <<s>> # <<>>
  OBVIOUS
<1> QED BY <1>1 DEF Logs

LEMMA WritesAreRun ==
    ASSUME PowersOfBase, NEW X, AllFit(X), NEW s \in Streams, NEW items \in Seq(X)
    PROVE  After(s, items, WriteItem) = Run(Logging(Writing(X), X), <<s>>, items, Logs)
<1> DEFINE V == Logs
           C == X
           G == Logging(Writing(X), X)
           base == <<s>>
           Op(log, item) == Append(log, WriteItem([Last(log) EXCEPT !.thrown = FALSE], item))
           Step(g) == [u \in SUBSET DOMAIN items |->
                         IF u = {} THEN base ELSE Op(g[u \ {Max(u)}], items[Max(u)])]
           it == CHOOSE g : g = Step(g)
<1>1. After(s, items, WriteItem) = it[DOMAIN items]
  BY Zenon DEF After, FoldLeft, MapThenFoldSet
<1>2. IsMachine(G, V, C) /\ base \in V /\ items \in Seq(C)
  <2>1. IsStepper(Writing(X), X)
    BY WritingType
  <2>2. IsMachine(Logging(Writing(X), X), Logs, X)
    BY <2>1, LogMachine
  <2> QED BY <2>2, FirstLog
<1>0. ASSUME NEW log \in V, NEW item \in C PROVE G[log][item] = Op(log, item)
  <2>1. Last(log) \in Streams
    BY LogFacts
  <2>2. G[log][item] = Append(log, Writing(X)[Last(log)][item])
    BY Zenon DEF Logging
  <2>3. Writing(X)[Last(log)][item] = WriteItem([Last(log) EXCEPT !.thrown = FALSE], item)
    BY <2>1, Zenon DEF Writing
  <2> QED BY <2>2, <2>3, Zenon
<1> HIDE DEF V, C, G, Op, base
<1>3. PICK h : Iterator(h, G, base, items, V, C)
  BY <1>2, LeftIterator
<1>4. h = Step(h)
  <2>1. ASSUME NEW u \in SUBSET DOMAIN items, u # {} PROVE h[u] = Op(h[u \ {Max(u)}], items[Max(u)])
    BY <1>0, <1>3, <2>1, Zenon DEF Iterator
  <2>2. \A u \in SUBSET (DOMAIN items) :
          h[u] = IF u = {} THEN base ELSE Op(h[u \ {Max(u)}], items[Max(u)])
    BY <2>1, <1>3, Zenon DEF Iterator
  <2>3. h = [u \in SUBSET (DOMAIN items) |-> h[u]]
    BY <1>3, Zenon DEF Iterator
  <2> QED BY <2>2, <2>3, Zenon
<1>5. it = Step(it)
  <2> HIDE DEF Step
  <2> QED BY <1>4
<1> HIDE DEF it
<1>6. Folding(it, G, base, items, V)
  <2>1. it[{}] = base
    <3>1. {} \in SUBSET DOMAIN items
      OBVIOUS
    <3> QED BY <3>1, <1>5, Zenon
  <2>2. ASSUME NEW u \in SUBSET DOMAIN items, u # {}, it[u \ {Max(u)}] \in V
        PROVE  it[u] = G[it[u \ {Max(u)}]][items[Max(u)]]
    <3>1. it[u] = Op(it[u \ {Max(u)}], items[Max(u)])
      BY <1>5, <2>2
    <3> QED BY <3>1, <1>0, <1>3, <2>2, Zenon DEF Iterator
  <2> QED BY <2>1, <2>2 DEF Folding
<1> HIDE DEF Step
<1>7. it[DOMAIN items] = Run(G, base, items, V)
  BY <1>2, <1>6, LeftFolds
<1> QED BY <1>1, <1>7, Zenon DEF G, V, base

LEMMA ReadsAreRun ==
    ASSUME NEW X, AllFit(X), NEW s \in Streams, NEW items \in Seq(X)
    PROVE  After(s, items, ReadItem) = Run(Logging(Reading(X), X), <<s>>, items, Logs)
<1> DEFINE V == Logs
           C == X
           G == Logging(Reading(X), X)
           base == <<s>>
           Op(log, item) == Append(log, ReadItem([Last(log) EXCEPT !.thrown = FALSE], item))
           Step(g) == [u \in SUBSET DOMAIN items |->
                         IF u = {} THEN base ELSE Op(g[u \ {Max(u)}], items[Max(u)])]
           it == CHOOSE g : g = Step(g)
<1>1. After(s, items, ReadItem) = it[DOMAIN items]
  BY Zenon DEF After, FoldLeft, MapThenFoldSet
<1>2. IsMachine(G, V, C) /\ base \in V /\ items \in Seq(C)
  <2>1. IsStepper(Reading(X), X)
    BY ReadingType
  <2>2. IsMachine(Logging(Reading(X), X), Logs, X)
    BY <2>1, LogMachine
  <2> QED BY <2>2, FirstLog
<1>0. ASSUME NEW log \in V, NEW item \in C PROVE G[log][item] = Op(log, item)
  <2>1. Last(log) \in Streams
    BY LogFacts
  <2>2. G[log][item] = Append(log, Reading(X)[Last(log)][item])
    BY Zenon DEF Logging
  <2>3. Reading(X)[Last(log)][item] = ReadItem([Last(log) EXCEPT !.thrown = FALSE], item)
    BY <2>1, Zenon DEF Reading
  <2> QED BY <2>2, <2>3, Zenon
<1> HIDE DEF V, C, G, Op, base
<1>3. PICK h : Iterator(h, G, base, items, V, C)
  BY <1>2, LeftIterator
<1>4. h = Step(h)
  <2>1. ASSUME NEW u \in SUBSET DOMAIN items, u # {} PROVE h[u] = Op(h[u \ {Max(u)}], items[Max(u)])
    BY <1>0, <1>3, <2>1, Zenon DEF Iterator
  <2>2. \A u \in SUBSET (DOMAIN items) :
          h[u] = IF u = {} THEN base ELSE Op(h[u \ {Max(u)}], items[Max(u)])
    BY <2>1, <1>3, Zenon DEF Iterator
  <2>3. h = [u \in SUBSET (DOMAIN items) |-> h[u]]
    BY <1>3, Zenon DEF Iterator
  <2> QED BY <2>2, <2>3, Zenon
<1>5. it = Step(it)
  <2> HIDE DEF Step
  <2> QED BY <1>4
<1> HIDE DEF it
<1>6. Folding(it, G, base, items, V)
  <2>1. it[{}] = base
    <3>1. {} \in SUBSET DOMAIN items
      OBVIOUS
    <3> QED BY <3>1, <1>5, Zenon
  <2>2. ASSUME NEW u \in SUBSET DOMAIN items, u # {}, it[u \ {Max(u)}] \in V
        PROVE  it[u] = G[it[u \ {Max(u)}]][items[Max(u)]]
    <3>1. it[u] = Op(it[u \ {Max(u)}], items[Max(u)])
      BY <1>5, <2>2
    <3> QED BY <3>1, <1>0, <1>3, <2>2, Zenon DEF Iterator
  <2> QED BY <2>1, <2>2 DEF Folding
<1> HIDE DEF Step
<1>7. it[DOMAIN items] = Run(G, base, items, V)
  BY <1>2, <1>6, LeftFolds
<1> QED BY <1>1, <1>7, Zenon DEF G, V, base

-----------------------------------------------------------------------------
(* What is read in the end. *)

LEMMA NewStream ==
    ASSUME NEW bytes \in Seq(ByteSet), NEW big \in BOOLEAN
    PROVE  LET s == Stream(bytes, big) IN
           s \in Streams /\ s.buf = bytes /\ s.offset = 0 /\ ~s.thrown
<1> DEFINE s == Stream(bytes, big)
<1>1. 0 \in StreamVals /\ 0 \in Nat /\ FALSE \in BOOLEAN
  BY DEF StreamVals
<1>2. \E t \in BOOLEAN, z \in StreamVals, o \in Nat : t = FALSE /\ z = 0 /\ o = 0
  BY <1>1
<1>3. PICK t \in BOOLEAN, z \in StreamVals, o \in Nat : t = FALSE /\ z = 0 /\ o = 0
  BY <1>2
<1> DEFINE q == [buf |-> bytes, offset |-> o, big |-> big, val |-> z, thrown |-> t]
<1>4. q = s
  BY <1>3 DEF Stream
<1>5. 0 <= Len(bytes)
  BY LenProperties
<1>6. q \in Streams /\ q.buf = bytes /\ q.offset = o /\ q.thrown = t
  BY <1>3, <1>5 DEF Streams
<1> HIDE DEF q, s
<1> QED BY <1>3, <1>4, <1>6 DEF s

LEMMA StepWrites ==
    ASSUME PowersOfBase, NEW X, AllFit(X), NEW q \in Streams, NEW c \in X
    PROVE  Wrote(q, Writing(X)[q][c])
<1>1. PICK s \in Streams : s = [q EXCEPT !.thrown = FALSE] /\ s.buf = q.buf /\ s.offset = q.offset /\ s.big = q.big
  BY Restarted, Zenon
<1>2. Writing(X)[q][c] = WriteItem(s, c)
  BY <1>1, Zenon DEF Writing
<1>3. Wrote(s, WriteItem(s, c))
  BY ItemWritten, Zenon DEF AllFit
<1>4. Wrote(q, WriteItem(s, c))
  BY <1>1, <1>3, Zenon DEF Wrote, Later
<1> QED BY <1>2, <1>4, Zenon

LEMMA StepMirrors ==
    ASSUME PowersOfBase, NEW X, AllFit(X), NEW w \in Streams, NEW r, NEW bytes, NEW c \in X,
           Mirrors(w, r, bytes), Agrees(Writing(X)[w][c], bytes)
    PROVE  LET x == Writing(X)[w][c]  q == Reading(X)[r][c] IN
           Mirrors(x, q, bytes) /\ (~q.thrown => q.val = ValueOf(c))
<1>1. PICK s \in Streams : s = [w EXCEPT !.thrown = FALSE] /\ ~s.thrown /\ s.buf = w.buf /\ s.offset = w.offset
  BY Restarted, Zenon
<1>2. Writing(X)[w][c] = WriteItem(s, c)
  BY <1>1, Zenon DEF Writing
<1>3. r \in Streams
  BY Zenon DEF Mirrors
<1>4. PICK t \in Streams : t = [r EXCEPT !.thrown = FALSE] /\ ~t.thrown /\ t.buf = r.buf /\ t.offset = r.offset
  BY <1>3, Restarted, Zenon
<1>5. Reading(X)[r][c] = ReadItem(t, c)
  BY <1>3, <1>4, Zenon DEF Reading
<1>6. Mirrors(s, t, bytes)
  BY <1>1, <1>4, Zenon DEF Mirrors
<1>7. Agrees(WriteItem(s, c), bytes) /\ Fitting(c)
  BY <1>2, Zenon DEF AllFit
<1> DEFINE x == WriteItem(s, c)  q == ReadItem(t, c)
<1>8. Mirrors(x, q, bytes) /\ (~q.thrown => q.val = ValueOf(c))
  BY <1>6, <1>7, ItemMirrors
<1> HIDE DEF x, q
<1> QED BY <1>2, <1>5, <1>8, Zenon DEF x, q

\* All calls have the same results.
SameResults(g, h, bytes, items) ==
    \A k \in 1..Len(items) : /\ Mirrors(g[k + 1], h[k + 1], bytes)
                             /\ ~h[k + 1].thrown => h[k + 1].val = ValueOf(items[k])

LEMMA LogsMirror ==
    ASSUME PowersOfBase, NEW X, AllFit(X), NEW items \in Seq(X), NEW s \in Streams, NEW t,
           NEW g, Logged(g, Writing(X), s, items), NEW h, Logged(h, Reading(X), t, items),
           Mirrors(s, t, Last(g).buf)
    PROVE  SameResults(g, h, Last(g).buf, items)
<1> DEFINE n == Len(items)  bytes == Last(g).buf  W == Writing(X)  R == Reading(X)
<1>1. /\ n \in Nat /\ g \in Seq(Streams) /\ Len(g) = n + 1 /\ g[1] = s
      /\ \A k \in 1..n : g[k + 1] = W[g[k]][items[k]]
  BY LenProperties, Zenon DEF Logged
<1>2. h[1] = t /\ \A k \in 1..n : h[k + 1] = R[h[k]][items[k]]
  BY Zenon DEF Logged
<1>3. bytes = g[n + 1].buf
  <2>1. Last(g) = g[n + 1]
    BY <1>1, Zenon DEF Last
  <2> QED BY <2>1, Zenon
<1>4. \A k \in 1..n : items[k] \in X
  BY ElementOfSeq
<1>5. \A k \in 1..n + 1 : g[k] \in Streams
  BY <1>1, ElementOfSeq
<1> HIDE DEF n, bytes, W, R
<1>6. ASSUME NEW k \in 1..n PROVE Wrote(g[k], g[k + 1]) /\ k \in 1..n + 1
  <2>1. k \in 1..n + 1
    BY <1>1
  <2>2. g[k] \in Streams /\ items[k] \in X
    BY <2>1, <1>4, <1>5
  <2>3. Wrote(g[k], W[g[k]][items[k]])
    BY <2>2, StepWrites DEF W
  <2> QED BY <1>1, <2>1, <2>3, Zenon
<1> DEFINE T == {j \in Nat : j <= n => Agrees(g[n + 1 - j], bytes)}
<1>7. 0 \in T
  <2>1. n + 1 \in 1..n + 1 /\ n + 1 - 0 = n + 1
    BY <1>1
  <2>2. g[n + 1] \in Streams
    BY <2>1, <1>5
  <2>3. Agrees(g[n + 1], bytes)
    BY <2>2, <1>3, StreamFields DEF Agrees
  <2> QED BY <2>1, <2>3
<1>8. ASSUME NEW j \in T PROVE j + 1 \in T
  <2> SUFFICES ASSUME j + 1 <= n PROVE Agrees(g[n + 1 - (j + 1)], bytes)
    OBVIOUS
  <2>0. j \in Nat /\ (j <= n => Agrees(g[n + 1 - j], bytes))
    OBVIOUS
  <2> HIDE DEF T
  <2> DEFINE k == n - j
  <2>1. n + 1 - (j + 1) = k /\ n + 1 - j = k + 1 /\ k \in 1..n /\ j <= n
    BY <1>1, <2>0
  <2> HIDE DEF k
  <2>2. Agrees(g[k + 1], bytes)
    BY <2>0, <2>1, Zenon
  <2>3. g[k] \in Streams /\ Wrote(g[k], g[k + 1])
    BY <2>1, <1>5, <1>6
  <2>4. Agrees(g[k], bytes)
    BY <2>2, <2>3, AgreesBefore
  <2> QED BY <2>1, <2>4, Zenon
<1>9. T = Nat
  <2> HIDE DEF T
  <2>1. T \in SUBSET Nat
    BY DEF T
  <2> QED BY <2>1, <1>7, <1>8, Induction
<1>10. ASSUME NEW k \in 1..n PROVE Agrees(g[k + 1], bytes)
  <2>1. n - k \in Nat /\ n - k <= n /\ n + 1 - (n - k) = k + 1
    BY <1>1
  <2>2. n - k \in T
    BY <2>1, <1>9, Zenon
  <2>3. Agrees(g[n + 1 - (n - k)], bytes)
    BY <2>1, <2>2
  <2> QED BY <2>1, <2>3, Zenon
<1> HIDE DEF T
<1>11. ASSUME NEW k \in 1..n, Mirrors(g[k], h[k], bytes)
       PROVE  Mirrors(g[k + 1], h[k + 1], bytes)
              /\ (~h[k + 1].thrown => h[k + 1].val = ValueOf(items[k]))
  <2> DEFINE w == g[k]  r == h[k]  c == items[k]
  <2>1. w \in Streams /\ c \in X
    BY <1>4, <1>5, <1>6
  <2>2. g[k + 1] = W[w][c] /\ h[k + 1] = R[r][c]
    BY <1>1, <1>2, Zenon
  <2>3. Agrees(W[w][c], bytes)
    BY <1>10, <2>2, Zenon
  <2> HIDE DEF w, r, c
  <2>4. Mirrors(W[w][c], R[r][c], bytes) /\ (~R[r][c].thrown => R[r][c].val = ValueOf(c))
    <3>1. Mirrors(w, r, bytes)
      BY <1>11, Zenon DEF w, r
    <3> QED BY <2>1, <2>3, <3>1, StepMirrors DEF W, R
  <2> QED BY <2>2, <2>4, Zenon DEF c
<1> DEFINE U == {k \in Nat : k <= n => Mirrors(g[k + 1], h[k + 1], bytes)}
<1>12. 0 \in U
  <2>1. Mirrors(g[1], h[1], bytes)
    BY <1>1, <1>2, Zenon DEF bytes
  <2>2. 0 + 1 = 1
    OBVIOUS
  <2> QED BY <2>1, <2>2
<1>13. ASSUME NEW k \in U PROVE k + 1 \in U
  <2> SUFFICES ASSUME k + 1 <= n PROVE Mirrors(g[(k + 1) + 1], h[(k + 1) + 1], bytes)
    OBVIOUS
  <2>0. k \in Nat /\ (k <= n => Mirrors(g[k + 1], h[k + 1], bytes))
    OBVIOUS
  <2> HIDE DEF U
  <2>1. k + 1 \in 1..n /\ k <= n
    BY <1>1, <2>0
  <2> QED BY <2>0, <2>1, <1>11, Zenon
<1>14. U = Nat
  <2> HIDE DEF U
  <2>1. U \in SUBSET Nat
    BY DEF U
  <2> QED BY <2>1, <1>12, <1>13, Induction
<1>15. ASSUME NEW k \in 1..n PROVE Mirrors(g[k], h[k], bytes)
  <2>1. k - 1 \in Nat /\ k - 1 <= n /\ (k - 1) + 1 = k
    BY <1>1
  <2>2. k - 1 \in U
    BY <2>1, <1>14, Zenon
  <2>3. Mirrors(g[(k - 1) + 1], h[(k - 1) + 1], bytes)
    BY <2>1, <2>2
  <2> QED BY <2>1, <2>3, Zenon
<1>16. \A k \in 1..n : /\ Mirrors(g[k + 1], h[k + 1], bytes)
                       /\ ~h[k + 1].thrown => h[k + 1].val = ValueOf(items[k])
  BY <1>11, <1>15
<1> QED BY <1>16, Zenon DEF n, bytes, SameResults

\* What was written is read, on a platform of either order, whatever the size of the buffer
\* and whatever fits: item by item, with the calls that failed (binary_stream.h).
THEOREM MirrorsRight ==
    ASSUME PowersOfBase, NEW X, AllFit(X), NEW size \in Nat, NEW items \in Seq(X),
           NEW bigWriter \in BOOLEAN, NEW bigReader \in BOOLEAN
    PROVE  ReadsMirrorWritesOf(size, items, bigWriter, bigReader)
<1> DEFINE zeros == [i \in 1..size |-> 0]
           s == Stream(zeros, bigWriter)
           g == After(s, items, WriteItem)
           bytes == Last(g).buf
           t == Stream(bytes, bigReader)
           h == After(t, items, ReadItem)
<1>1. zeros \in Seq(ByteSet)
  BY BaseAssumption DEF ByteSet
<1> HIDE DEF zeros
<1>2. s \in Streams /\ s.offset = 0 /\ ~s.thrown
  BY <1>1, NewStream
<1> HIDE DEF s
<1>3. Logged(g, Writing(X), s, items)
  <2>1. IsStepper(Writing(X), X)
    BY WritingType
  <2> HIDE DEF g
  <2>2. Logged(Run(Logging(Writing(X), X), <<s>>, items, Logs), Writing(X), s, items)
    BY <1>2, <2>1, LogsRight
  <2>3. g = Run(Logging(Writing(X), X), <<s>>, items, Logs)
    BY <1>2, WritesAreRun, Zenon DEF g
  <2> QED BY <2>2, <2>3, Zenon
<1> HIDE DEF g
<1>4. bytes \in Seq(ByteSet)
  <2>1. g \in Seq(Streams) /\ Len(g) = Len(items) + 1 /\ Len(items) \in Nat
    BY <1>3, LenProperties, Zenon DEF Logged
  <2>2. g[Len(g)] \in Streams
    BY <2>1, ElementOfSeq
  <2>3. Last(g) \in Streams
    BY <2>2, Zenon DEF Last
  <2> QED BY <2>3, StreamFields
<1> HIDE DEF bytes
<1>5. t \in Streams /\ t.buf = bytes /\ t.offset = 0 /\ ~t.thrown
  BY <1>4, NewStream
<1> HIDE DEF t
<1>6. Logged(h, Reading(X), t, items)
  <2>1. IsStepper(Reading(X), X)
    BY ReadingType
  <2> HIDE DEF h
  <2>2. Logged(Run(Logging(Reading(X), X), <<t>>, items, Logs), Reading(X), t, items)
    BY <1>5, <2>1, LogsRight
  <2>3. h = Run(Logging(Reading(X), X), <<t>>, items, Logs)
    BY <1>5, ReadsAreRun, Zenon DEF h
  <2> QED BY <2>2, <2>3, Zenon
<1> HIDE DEF h
<1>7. Mirrors(s, t, bytes)
  BY <1>2, <1>5, Zenon DEF Mirrors
<1>8. SameResults(g, h, bytes, items)
  <2>1. s \in Streams /\ Mirrors(s, t, Last(g).buf)
    BY <1>2, <1>7, Zenon DEF bytes
  <2>2. SameResults(g, h, Last(g).buf, items)
    BY <1>3, <1>6, <2>1, LogsMirror
  <2> QED BY <2>2, Zenon DEF bytes
<1>9. DOMAIN items = 1..Len(items)
  BY LenProperties
<1>10. \A k \in DOMAIN items : /\ h[k + 1].thrown <=> g[k + 1].thrown
                               /\ h[k + 1].offset = g[k + 1].offset
                               /\ ~h[k + 1].thrown => h[k + 1].val = ValueOf(items[k])
  BY <1>8, <1>9, Zenon DEF Mirrors, SameResults
<1> QED BY <1>10, Zenon DEF ReadsMirrorWritesOf, zeros, s, g, bytes, t, h

-----------------------------------------------------------------------------
(* Items that fit. *)

LEMMA ItemParts ==
    ASSUME NEW kind, NEW size, NEW val
    PROVE  LET item == StreamItem(kind, size, val) IN
           item.kind = kind /\ item.size = size /\ item.val = val
BY DEF StreamItem

LEMMA FitsNumber ==
    ASSUME NEW size \in Nat, NEW val, val[1] \in Nat, val[1] < Base ^ size
    PROVE  Fitting(StreamItem("uint", size, val))
<1> DEFINE item == StreamItem("uint", size, val)
<1>1. item.kind = "uint" /\ item.size = size /\ item.val = val
  BY ItemParts
<1> HIDE DEF item
<1>2. Fitting(item)
  BY <1>1 DEF Fitting
<1> QED BY <1>2 DEF item

LEMMA FitsString ==
    ASSUME NEW size, NEW val \in Seq(ByteSet), Len(val) < Base ^ 4 - 1
    PROVE  Fitting(StreamItem("string", size, val))
<1> DEFINE item == StreamItem("string", size, val)
<1>1. item.kind = "string" /\ item.size = size /\ item.val = val
  BY ItemParts
<1> HIDE DEF item
<1>2. Fitting(item)
  BY <1>1 DEF Fitting
<1> QED BY <1>2 DEF item

LEMMA FitsObject ==
    ASSUME NEW size, NEW val \in Seq(ByteSet), Len(val) = size, size < Base ^ 4
    PROVE  Fitting(StreamItem("object", size, val))
<1> DEFINE item == StreamItem("object", size, val)
<1>1. item.kind = "object" /\ item.size = size /\ item.val = val
  BY ItemParts
<1> HIDE DEF item
<1>2. Fitting(item)
  BY <1>1 DEF Fitting
<1> QED BY <1>2 DEF item

LEMMA FitsArray ==
    ASSUME NEW size \in Nat \ {0}, NEW val \in Seq(ByteSet), NEW count \in Nat,
           Len(val) = size * count, size < Base ^ 4, count < Base ^ 8
    PROVE  Fitting(StreamItem("array", size, val))
<1> DEFINE item == StreamItem("array", size, val)
<1>1. item.kind = "array" /\ item.size = size /\ item.val = val
  BY ItemParts
<1> HIDE DEF item
<1>2. Fitting(item)
  BY <1>1 DEF Fitting
<1> QED BY <1>2 DEF item
-----------------------------------------------------------------------------
(* Where bytes lie in a buffer: what a write puts there, a read finds there. *)

\* The bytes lie behind the first so many of the buffer.
Holds(buf, place, bytes) ==
    /\ place + Len(bytes) <= Len(buf)
    /\ \A i \in 1..Len(bytes) : buf[place + i] = bytes[i]

\* The buffers differ only between two places.
Outside(buf, new, low, high) ==
    /\ new \in Seq(ByteSet) /\ Len(new) = Len(buf)
    /\ \A i \in 1..Len(buf) : i <= low \/ i > high => new[i] = buf[i]

LEMMA HeldOutside ==
    ASSUME NEW buf \in Seq(ByteSet), NEW new, NEW low \in Nat, NEW high \in Nat,
           NEW place \in Nat, NEW bytes \in Seq(ByteSet),
           Outside(buf, new, low, high), Holds(buf, place, bytes),
           place + Len(bytes) <= low \/ place >= high
    PROVE  Holds(new, place, bytes)
<1>1. Len(bytes) \in Nat /\ Len(buf) \in Nat
  BY LenProperties
<1>2. \A i \in 1..Len(bytes) : place + i \in 1..Len(buf) /\ (place + i <= low \/ place + i > high)
  BY <1>1 DEF Holds
<1> QED BY <1>1, <1>2 DEF Holds, Outside

LEMMA OutsideTwice ==
    ASSUME NEW buf \in Seq(ByteSet), NEW new, NEW last, NEW low \in Nat, NEW middle \in Nat,
           NEW high \in Nat, low <= middle, middle <= high,
           Outside(buf, new, low, middle), Outside(new, last, middle, high)
    PROVE  Outside(buf, last, low, high)
<1>1. Len(buf) \in Nat
  BY LenProperties
<1> QED BY <1>1 DEF Outside

TwoParts(u, s, t) ==
    /\ Len(u) = Len(s) + Len(t)
    /\ \A i \in 1..Len(s) : u[i] = s[i]
    /\ \A i \in 1..Len(t) : u[Len(s) + i] = t[i]

LEMMA JoinParts ==
    ASSUME NEW C, NEW s \in Seq(C), NEW t \in Seq(C)
    PROVE  (s \o t) \in Seq(C) /\ TwoParts(s \o t, s, t)
<1>1. (s \o t) \in Seq(C) /\ Len(s \o t) = Len(s) + Len(t)
  OBVIOUS
<1>2. \A i \in 1..Len(s) : (s \o t)[i] = s[i]
  OBVIOUS
<1>3. \A i \in 1..Len(t) : (s \o t)[Len(s) + i] = t[i]
  OBVIOUS
<1> QED BY <1>1, <1>2, <1>3, Zenon DEF TwoParts

\* A write that fits.
LEMMA PutBytes ==
    ASSUME NEW s \in Streams, ~s.thrown, NEW bytes \in Seq(ByteSet),
           s.offset + Len(bytes) <= Len(s.buf)
    PROVE  LET q == WriteBytes(s, bytes) IN
           /\ q \in Streams /\ ~q.thrown /\ q.big = s.big /\ q.offset = s.offset + Len(bytes)
           /\ Holds(q.buf, s.offset, bytes) /\ Outside(s.buf, q.buf, s.offset, q.offset)
<1> DEFINE b == s.buf  o == s.offset  size == Len(bytes)  q == WriteBytes(s, bytes)
           p == SubSeq(b, 1, o)  t == SubSeq(b, o + size + 1, Len(b))  pm == p \o bytes  new == pm \o t
<1>0. b \in Seq(ByteSet) /\ o \in Nat /\ Len(b) \in Nat /\ size \in Nat /\ o + size <= Len(b)
  BY StreamFields, LenProperties
<1>1. q = [s EXCEPT !.buf = new, !.offset = o + size]
  <2>1. Fits(s, size)
    BY Zenon DEF Fits
  <2> QED BY <2>1, Zenon DEF WriteBytes
<1>2. p \in Seq(ByteSet) /\ Len(p) = o /\ \A i \in 1..o : p[i] = b[i]
  <2> HIDE DEF b, o
  <2> QED BY <1>0
<1>3. t \in Seq(ByteSet) /\ Len(t) = Len(b) - (o + size)
      /\ \A i \in 1..Len(b) - (o + size) : t[i] = b[o + size + i]
  <2> HIDE DEF b, o, size
  <2> QED BY <1>0
<1> HIDE DEF p, t
<1>4. PICK u \in Seq(ByteSet) : u = pm /\ TwoParts(u, p, bytes)
  <2>1. p \in Seq(ByteSet)
    BY <1>2
  <2> QED BY <2>1, JoinParts, Zenon
<1> HIDE DEF pm
<1>5. PICK v \in Seq(ByteSet) : v = new /\ TwoParts(v, u, t)
  <2>1. t \in Seq(ByteSet)
    BY <1>3
  <2> QED BY <1>4, <2>1, JoinParts, Zenon
<1> HIDE DEF new
<1>6. Len(v) = Len(b) /\ Len(u) = o + size /\ Len(t) = Len(b) - (o + size) /\ Len(p) = o
  <2> HIDE DEF b, o
  <2> QED BY <1>0, <1>2, <1>3, <1>4, <1>5 DEF TwoParts
<1> HIDE DEF b, o, size
<1>7. Holds(v, o, bytes)
  <2>1. \A i \in 1..size : o + i \in 1..o + size
    BY <1>0
  <2>2. \A i \in 1..size : v[o + i] = bytes[i]
    BY <1>4, <1>5, <1>6, <2>1 DEF size, TwoParts
  <2> QED BY <1>0, <1>6, <2>2 DEF Holds, size
<1>8. Outside(b, v, o, o + size)
  <2>1. ASSUME NEW i \in 1..Len(b), i <= o PROVE v[i] = b[i]
    <3>1. i \in 1..o /\ i \in 1..o + size
      BY <1>0, <2>1
    <3> QED BY <3>1, <1>2, <1>4, <1>5, <1>6 DEF TwoParts
  <2>2. ASSUME NEW i \in 1..Len(b), i > o + size PROVE v[i] = b[i]
    <3> DEFINE j == i - (o + size)
    <3>1. j \in 1..Len(b) - (o + size) /\ o + size + j = i
      BY <1>0, <2>2
    <3> HIDE DEF j
    <3>2. v[o + size + j] = t[j] /\ t[j] = b[o + size + j]
      BY <3>1, <1>3, <1>5, <1>6 DEF TwoParts
    <3> QED BY <3>1, <3>2
  <2> QED BY <1>0, <1>5, <1>6, <2>1, <2>2 DEF Outside
<1>9. q \in Streams /\ q.thrown = s.thrown /\ q.offset = o + size /\ q.buf = v /\ q.big = s.big
  <2> DEFINE e == o + size
  <2>1. v \in Seq(ByteSet) /\ e \in Nat /\ e <= Len(v)
    BY <1>0, <1>6
  <2>2. q = [s EXCEPT !.buf = v, !.offset = e]
    BY <1>1, <1>5, Zenon
  <2> HIDE DEF e, q
  <2> QED BY <2>1, <2>2 DEF Streams, e
<1> QED BY <1>7, <1>8, <1>9, Zenon DEF o, b, size

LEMMA PutNumber ==
    ASSUME PowersOfBase, NEW s \in Streams, ~s.thrown, NEW n \in Nat, NEW size \in Nat,
           s.offset + size <= Len(s.buf)
    PROVE  LET q == WriteUInt(s, n, size) IN
           /\ q \in Streams /\ ~q.thrown /\ q.big = s.big /\ q.offset = s.offset + size
           /\ Holds(q.buf, s.offset, Digits(n, size)) /\ Outside(s.buf, q.buf, s.offset, q.offset)
<1> DEFINE ds == Digits(n, size)
<1>1. ds \in Seq(ByteSet) /\ Len(ds) = size
  BY DigitsType
<1>2. WriteUInt(s, n, size) = WriteBytes(s, ds)
  BY WritesNumber
<1> HIDE DEF ds
<1>3. s.offset + Len(ds) <= Len(s.buf)
  BY <1>1
<1> DEFINE q == WriteBytes(s, ds)
<1>4. /\ q \in Streams /\ ~q.thrown /\ q.big = s.big /\ q.offset = s.offset + Len(ds)
      /\ Holds(q.buf, s.offset, ds) /\ Outside(s.buf, q.buf, s.offset, q.offset)
  BY <1>1, <1>3, PutBytes
<1> QED BY <1>1, <1>2, <1>4, Zenon DEF ds

\* A text lies behind its length.
HoldsText(buf, place, str) == Holds(buf, place, Digits(Len(str), 4)) /\ Holds(buf, place + 4, str)

LEMMA TextHeldOutside ==
    ASSUME PowersOfBase, NEW buf \in Seq(ByteSet), NEW new, NEW low \in Nat, NEW high \in Nat,
           NEW place \in Nat, NEW str \in Seq(ByteSet),
           Outside(buf, new, low, high), HoldsText(buf, place, str),
           place + 4 + Len(str) <= low \/ place >= high
    PROVE  HoldsText(new, place, str)
<1> DEFINE ds == Digits(Len(str), 4)
<1>0. Len(str) \in Nat /\ 4 \in Nat /\ place + 4 \in Nat
  BY LenProperties
<1>1. ds \in Seq(ByteSet) /\ Len(ds) = 4
  BY <1>0, DigitsType
<1> HIDE DEF ds
<1>2. Holds(buf, place, ds) /\ Holds(buf, place + 4, str)
  BY Zenon DEF HoldsText, ds
<1>3. place + Len(ds) <= low \/ place >= high
  BY <1>0, <1>1
<1>4. place + 4 + Len(str) <= low \/ place + 4 >= high
  BY <1>0
<1>5. Holds(new, place, ds)
  BY <1>1, <1>2, <1>3, HeldOutside
<1>6. Holds(new, place + 4, str)
  BY <1>0, <1>2, <1>4, HeldOutside
<1> QED BY <1>5, <1>6, Zenon DEF HoldsText, ds

LEMMA PutString ==
    ASSUME PowersOfBase, NEW s \in Streams, ~s.thrown, NEW str \in Seq(ByteSet),
           Len(str) < Base ^ 4 - 1, s.offset + 4 + Len(str) <= Len(s.buf)
    PROVE  LET q == WriteString(s, str) IN
           /\ q \in Streams /\ ~q.thrown /\ q.big = s.big /\ q.offset = s.offset + 4 + Len(str)
           /\ HoldsText(q.buf, s.offset, str) /\ Outside(s.buf, q.buf, s.offset, q.offset)
<1> DEFINE n == Len(str)  o == s.offset
           x == WriteUInt(s, n, 4)  y == WriteBytes(x, str)  ds == Digits(n, 4)
<1>0. n \in Nat /\ 4 \in Nat /\ o \in Nat /\ s.buf \in Seq(ByteSet) /\ Len(s.buf) \in Nat
  BY LenProperties, StreamFields
<1>1. ~ (n >= Base ^ 4 - 1)
  <2> DEFINE b == Base ^ 4
  <2>1. b \in Nat /\ n < b - 1
    BY Zenon, <1>0 DEF PowersOfBase
  <2> HIDE DEF b, n
  <2> QED BY <2>1, <1>0 DEF b
<1>2. WriteString(s, str) = y
  BY <1>1, Zenon DEF WriteString
<1>3. o + 4 <= Len(s.buf)
  BY <1>0
<1>4. /\ x \in Streams /\ ~x.thrown /\ x.big = s.big /\ x.offset = o + 4
      /\ Holds(x.buf, o, ds) /\ Outside(s.buf, x.buf, o, x.offset)
  BY <1>0, <1>3, PutNumber
<1>5. ds \in Seq(ByteSet) /\ Len(ds) = 4
  BY <1>0, DigitsType
<1> HIDE DEF x, ds, n
<1>6. x.offset + Len(str) <= Len(x.buf)
  BY <1>0, <1>4 DEF Outside
<1>7. /\ y \in Streams /\ ~y.thrown /\ y.big = x.big /\ y.offset = x.offset + Len(str)
      /\ Holds(y.buf, x.offset, str) /\ Outside(x.buf, y.buf, x.offset, y.offset)
  BY <1>4, <1>6, PutBytes
<1> HIDE DEF y
<1>8. x.offset \in Nat /\ y.offset \in Nat /\ x.buf \in Seq(ByteSet) /\ o <= x.offset /\ x.offset <= y.offset
  BY <1>0, <1>4, <1>7, StreamFields, LenProperties DEF n
<1>9. Holds(y.buf, o, ds)
  <2>1. o + Len(ds) <= x.offset
    BY <1>0, <1>4, <1>5
  <2> QED BY <1>0, <1>4, <1>5, <1>7, <1>8, <2>1, HeldOutside
<1>10. Outside(s.buf, y.buf, o, y.offset)
  BY <1>0, <1>4, <1>7, <1>8, OutsideTwice
<1>11. HoldsText(y.buf, o, str)
  BY <1>4, <1>7, <1>9, Zenon DEF HoldsText, ds, n
<1> QED BY <1>2, <1>4, <1>7, <1>10, <1>11, Zenon

\* What lies there is read.
LEMMA GetBytes ==
    ASSUME NEW s \in Streams, ~s.thrown, NEW bytes \in Seq(ByteSet), Holds(s.buf, s.offset, bytes)
    PROVE  LET q == ReadBytes(s, Len(bytes)) IN
           /\ q \in Streams /\ ~q.thrown /\ q.buf = s.buf /\ q.big = s.big
           /\ q.offset = s.offset + Len(bytes) /\ q.val = bytes
<1> DEFINE o == s.offset  b == s.buf  size == Len(bytes)  piece == SubSeq(b, o + 1, o + size)
<1>0. size \in Nat /\ o \in Nat /\ b \in Seq(ByteSet) /\ Len(b) \in Nat
  BY LenProperties, StreamFields
<1>1. o + size <= Len(b) /\ \A i \in 1..size : b[o + i] = bytes[i]
  BY Zenon DEF Holds
<1>2. PICK q \in Streams :
         /\ q = ReadBytes(s, size)
         /\ q.buf = s.buf /\ q.big = s.big
         /\ s.thrown \/ ~Fits(s, size) => q.thrown /\ q.offset = s.offset
         /\ ~s.thrown /\ Fits(s, size) =>
              /\ ~q.thrown /\ q.offset = s.offset + size
              /\ q.val = piece
  BY <1>0, ReadSome, Zenon
<1>3. Fits(s, size)
  BY <1>1, Zenon DEF Fits
<1>4. piece = bytes
  <2>1. piece \in Seq(ByteSet) /\ Len(piece) = size /\ \A i \in 1..size : piece[i] = b[o + i]
    <3> HIDE DEF o, b, size
    <3> QED BY <1>0, <1>1
  <2> HIDE DEF piece
  <2> QED BY <1>1, <2>1, SeqEqual, Zenon DEF size
<1> QED BY <1>2, <1>3, <1>4, Zenon

LEMMA GetNumber ==
    ASSUME PowersOfBase, NEW n \in Nat, NEW size \in Nat, n < Base ^ size,
           NEW s \in Streams, ~s.thrown, Holds(s.buf, s.offset, Digits(n, size))
    PROVE  LET q == ReadUInt(s, size) IN
           /\ q \in Streams /\ ~q.thrown /\ q.buf = s.buf /\ q.big = s.big
           /\ q.offset = s.offset + size /\ q.val = n
<1> DEFINE ds == Digits(n, size)  q == ReadUInt(s, size)  p == ReadBytes(s, size)
<1>1. ds \in Seq(ByteSet) /\ Len(ds) = size /\ NumberOf(ds) = n
  BY DigitsType, NumberOfDigits
<1>2. Holds(s.buf, s.offset, ds)
  OBVIOUS
<1> HIDE DEF ds
<1>3. p \in Streams /\ ~p.thrown /\ p.offset = s.offset + size /\ p.val = ds
  <2> DEFINE t == ReadBytes(s, Len(ds))
  <2>1. t \in Streams /\ ~t.thrown /\ t.offset = s.offset + Len(ds) /\ t.val = ds
    BY <1>1, <1>2, GetBytes
  <2> HIDE DEF t
  <2>2. t = p
    BY <1>1, Zenon DEF t
  <2> HIDE DEF p
  <2> QED BY <1>1, <2>1, <2>2
<1>4. /\ q \in Streams /\ q.buf = s.buf /\ q.big = s.big /\ q.offset = p.offset
      /\ q.thrown = p.thrown
      /\ ~q.thrown => q.val \in Nat /\ q.val = NumberOf(p.val)
  BY ReadsNumber, Zenon
<1> HIDE DEF q, p
<1> QED BY <1>1, <1>3, <1>4, Zenon DEF q

LEMMA GetString ==
    ASSUME PowersOfBase, NEW str \in Seq(ByteSet), Len(str) < Base ^ 4,
           NEW s \in Streams, ~s.thrown, HoldsText(s.buf, s.offset, str)
    PROVE  LET q == ReadString(s) IN
           /\ q \in Streams /\ ~q.thrown /\ q.buf = s.buf /\ q.big = s.big
           /\ q.offset = s.offset + 4 + Len(str) /\ q.val = str
<1> DEFINE n == Len(str)  r == ReadUInt(s, 4)  q == ReadBytes(r, Len(str))
<1>0. n \in Nat /\ 4 \in Nat
  BY LenProperties
<1>1. Holds(s.buf, s.offset, Digits(n, 4)) /\ Holds(s.buf, s.offset + 4, str)
  BY Zenon DEF HoldsText
<1>2. r \in Streams /\ ~r.thrown /\ r.buf = s.buf /\ r.big = s.big /\ r.offset = s.offset + 4 /\ r.val = n
  BY <1>0, <1>1, GetNumber
<1>3. ReadString(s) = q
  BY <1>2, Zenon DEF ReadString
<1> HIDE DEF r, n
<1>4. Holds(r.buf, r.offset, str)
  BY <1>1, <1>2, Zenon
<1>5. /\ q \in Streams /\ ~q.thrown /\ q.buf = r.buf /\ q.big = r.big
      /\ q.offset = r.offset + Len(str) /\ q.val = str
  BY <1>2, <1>4, GetBytes
<1> HIDE DEF q
<1> QED BY <1>2, <1>3, <1>5, Zenon

LEMMA Sought ==
    ASSUME NEW s \in Streams, ~s.thrown, NEW place \in Nat, place <= Len(s.buf)
    PROVE  LET q == SeekAbsolute(s, place) IN
           q \in Streams /\ ~q.thrown /\ q.buf = s.buf /\ q.big = s.big /\ q.offset = place
<1> DEFINE q == [s EXCEPT !.offset = place]
<1>1. Clamp(place, 0, Len(s.buf)) = place
  BY StreamFields DEF Clamp
<1>2. SeekAbsolute(s, place) = q
  BY <1>1, Zenon DEF SeekAbsolute
<1>3. q \in Streams /\ q.thrown = s.thrown /\ q.buf = s.buf /\ q.big = s.big /\ q.offset = place
  BY DEF Streams
<1> HIDE DEF q
<1> QED BY <1>2, <1>3, Zenon

-----------------------------------------------------------------------------
(* The messages of the host. *)

Preamble == Len(Magic) + 4

\* A buffer with the magic and the opcode in their places.
Started(buf, opcode) == Holds(buf, 0, Magic) /\ Holds(buf, Preamble, Digits(opcode, 1))

LEMMA PreambleType ==
    /\ Magic \in Seq(ByteSet) /\ Len(Magic) \in Nat /\ Preamble \in Nat
    /\ Preamble = Len(Magic) + 4 /\ BufferSize \in Nat
    /\ MaxPayloadSize \in Nat /\ Preamble + 5 + MaxPayloadSize <= BufferSize
<1>1. Magic \in Seq(ByteSet) /\ Len(Magic) \in Nat
  BY ProtocolAssumption, LenProperties DEF ByteSet
<1> QED BY <1>1, ProtocolAssumption DEF Preamble

LEMMA StartedOutside ==
    ASSUME PowersOfBase, NEW buf \in Seq(ByteSet), NEW new, NEW low \in Nat, NEW high \in Nat,
           NEW opcode \in Nat, Outside(buf, new, low, high), Started(buf, opcode),
           low >= Preamble + 1 \/ (low >= Len(Magic) /\ high <= Preamble)
    PROVE  Started(new, opcode)
<1> DEFINE ds == Digits(opcode, 1)
<1>0. Magic \in Seq(ByteSet) /\ Len(Magic) \in Nat /\ Preamble \in Nat /\ Preamble = Len(Magic) + 4
  BY PreambleType
<1>1. 1 \in Nat /\ 0 \in Nat
  OBVIOUS
<1>2. ds \in Seq(ByteSet) /\ Len(ds) = 1
  BY <1>1, DigitsType
<1> HIDE DEF ds
<1>3. Holds(buf, 0, Magic) /\ Holds(buf, Preamble, ds)
  BY Zenon DEF Started, ds
<1>4. 0 + Len(Magic) <= low /\ (Preamble + Len(ds) <= low \/ Preamble >= high)
  BY <1>0, <1>2
<1>5. Holds(new, 0, Magic)
  BY <1>0, <1>1, <1>3, <1>4, HeldOutside
<1>6. Holds(new, Preamble, ds)
  BY <1>0, <1>2, <1>3, <1>4, HeldOutside
<1> QED BY <1>5, <1>6, Zenon DEF Started, ds

LEMMA Prepared ==
    ASSUME PowersOfBase, NEW opcode \in Nat
    PROVE  LET q == PrepareSendBuffer(opcode) IN
           /\ q \in Streams /\ ~q.thrown /\ q.offset = Preamble + 1 /\ Len(q.buf) = BufferSize
           /\ Started(q.buf, opcode)
<1> DEFINE zeros == [i \in 1..BufferSize |-> 0]
           s == Stream(zeros, BigHost)  w == WriteBytes(s, Magic)
           x == WriteUInt(w, 0, 4)  q == WriteUInt(x, opcode, 1)
           ds == Digits(opcode, 1)
<1>0. /\ Magic \in Seq(ByteSet) /\ Len(Magic) \in Nat /\ Preamble \in Nat
      /\ Preamble = Len(Magic) + 4 /\ BufferSize \in Nat /\ Preamble + 5 <= BufferSize
      /\ BigHost \in BOOLEAN /\ 0 \in Nat /\ 1 \in Nat /\ 4 \in Nat
  BY PreambleType, ProtocolAssumption
<1>1. zeros \in Seq(ByteSet) /\ Len(zeros) = BufferSize
  <2>1. 0 \in ByteSet
    BY BaseAssumption DEF ByteSet
  <2> HIDE DEF zeros
  <2>2. zeros \in [1..BufferSize -> ByteSet]
    BY <2>1 DEF zeros
  <2> QED BY <2>2, <1>0
<1> HIDE DEF zeros
<1>2. s \in Streams /\ s.buf = zeros /\ s.offset = 0 /\ ~s.thrown
  BY <1>0, <1>1, NewStream
<1> HIDE DEF s
<1>3. s.offset + Len(Magic) <= Len(s.buf)
  BY <1>0, <1>1, <1>2
<1>4. /\ w \in Streams /\ ~w.thrown /\ w.offset = s.offset + Len(Magic)
      /\ Holds(w.buf, s.offset, Magic) /\ Outside(s.buf, w.buf, s.offset, w.offset)
  BY <1>0, <1>2, <1>3, PutBytes
<1> HIDE DEF w
<1>5. w.offset = Len(Magic) /\ Holds(w.buf, 0, Magic) /\ Len(w.buf) = BufferSize /\ w.buf \in Seq(ByteSet)
  BY <1>0, <1>1, <1>2, <1>4 DEF Outside
<1>6. w.offset + 4 <= Len(w.buf)
  BY <1>0, <1>5
<1>7. /\ x \in Streams /\ ~x.thrown /\ x.offset = w.offset + 4
      /\ Outside(w.buf, x.buf, w.offset, x.offset)
  BY <1>0, <1>4, <1>6, PutNumber
<1> HIDE DEF x
<1>8. x.offset = Preamble /\ Len(x.buf) = BufferSize /\ x.buf \in Seq(ByteSet)
  BY <1>0, <1>5, <1>7 DEF Outside
<1>9. Holds(x.buf, 0, Magic)
  <2>1. 0 + Len(Magic) <= w.offset /\ w.offset \in Nat /\ x.offset \in Nat
    BY <1>0, <1>5, <1>8
  <2> QED BY <1>0, <1>5, <1>7, <2>1, HeldOutside
<1>10. x.offset + 1 <= Len(x.buf)
  BY <1>0, <1>8
<1>11. /\ q \in Streams /\ ~q.thrown /\ q.offset = x.offset + 1
       /\ Holds(q.buf, x.offset, ds) /\ Outside(x.buf, q.buf, x.offset, q.offset)
  BY <1>0, <1>7, <1>10, PutNumber
<1> HIDE DEF q, ds
<1>12. q.offset = Preamble + 1 /\ Len(q.buf) = BufferSize /\ q.offset \in Nat
  BY <1>0, <1>8, <1>11 DEF Outside
<1>13. Holds(q.buf, 0, Magic)
  <2>1. 0 + Len(Magic) <= x.offset /\ x.offset \in Nat
    BY <1>0, <1>8
  <2> QED BY <1>0, <1>8, <1>9, <1>11, <1>12, <2>1, HeldOutside
<1>14. Started(q.buf, opcode)
  BY <1>8, <1>11, <1>13, Zenon DEF Started, ds
<1>15. PrepareSendBuffer(opcode) = q
  BY Zenon DEF PrepareSendBuffer, q, x, w, s, zeros
<1> QED BY <1>11, <1>12, <1>14, <1>15, Zenon

\* What lies behind the size is sent as it lies there.
KeepsBehind(s, bytes) ==
    \A place \in Nat, str \in Seq(ByteSet) :
        place >= Preamble /\ place + Len(str) <= s.offset /\ Holds(s.buf, place, str)
            => Holds(bytes, place, str)

\* What sendBuffer() sends: the size is in its place, and everything else stays.
LEMMA Sent ==
    ASSUME PowersOfBase, NEW s \in Streams, ~s.thrown, s.offset >= Preamble + 1,
           NEW opcode \in Nat, Started(s.buf, opcode)
    PROVE  LET bytes == SendBuffer(s) IN
           /\ bytes \in Seq(ByteSet) /\ Len(bytes) = s.offset /\ Started(bytes, opcode)
           /\ Holds(bytes, Len(Magic), Digits(s.offset - Preamble, 4)) /\ KeepsBehind(s, bytes)
<1> DEFINE M == Len(Magic)  n == s.offset - Preamble  e == s.offset
           p == SeekAbsolute(s, M)  q == WriteUInt(p, PayloadSize(s), 4)
           bytes == SubSeq(q.buf, 1, e)  ds == Digits(n, 4)  os == Digits(opcode, 1)
<1>0. /\ Magic \in Seq(ByteSet) /\ M \in Nat /\ Preamble \in Nat /\ Preamble = M + 4
      /\ e \in Nat /\ s.buf \in Seq(ByteSet) /\ Len(s.buf) \in Nat /\ e <= Len(s.buf)
      /\ 0 \in Nat /\ 1 \in Nat /\ 4 \in Nat
  BY PreambleType, StreamFields
<1>1. n \in Nat /\ PayloadSize(s) = n /\ M <= Len(s.buf) /\ e >= Preamble + 1
  BY <1>0 DEF PayloadSize
<1> HIDE DEF M, n, e
<1>2. p \in Streams /\ ~p.thrown /\ p.buf = s.buf /\ p.offset = M
  BY <1>0, <1>1, Sought
<1> HIDE DEF p
<1>3. p.offset + 4 <= Len(p.buf)
  BY <1>0, <1>1, <1>2
<1>4. q \in Streams /\ ~q.thrown /\ Holds(q.buf, M, ds) /\ Outside(s.buf, q.buf, M, M + 4)
  <2> DEFINE y == WriteUInt(p, n, 4)
  <2>1. /\ y \in Streams /\ ~y.thrown /\ y.offset = p.offset + 4
        /\ Holds(y.buf, p.offset, Digits(n, 4)) /\ Outside(p.buf, y.buf, p.offset, y.offset)
    BY <1>0, <1>1, <1>2, <1>3, PutNumber
  <2> QED BY <1>1, <1>2, <2>1, Zenon
<1>5. ds \in Seq(ByteSet) /\ Len(ds) = 4 /\ os \in Seq(ByteSet) /\ Len(os) = 1
  BY <1>0, <1>1, DigitsType
<1> HIDE DEF q, ds, os
<1>6. q.buf \in Seq(ByteSet) /\ Len(q.buf) = Len(s.buf)
  BY <1>4, Zenon DEF Outside
<1>7. bytes \in Seq(ByteSet) /\ Len(bytes) = e /\ \A i \in 1..e : bytes[i] = q.buf[i]
  BY <1>0, <1>6
<1> HIDE DEF bytes
<1>8. ASSUME NEW place \in Nat, NEW str \in Seq(ByteSet), place + Len(str) <= e, Holds(q.buf, place, str)
      PROVE  Holds(bytes, place, str)
  <2>1. Len(str) \in Nat
    BY LenProperties
  <2>2. \A i \in 1..Len(str) : place + i \in 1..e
    BY <1>0, <1>8, <2>1
  <2> QED BY <1>7, <1>8, <2>2 DEF Holds
<1>9. ASSUME NEW place \in Nat, NEW str \in Seq(ByteSet), place + Len(str) <= e, Holds(s.buf, place, str),
             place + Len(str) <= M \/ place >= Preamble
      PROVE  Holds(bytes, place, str)
  <2>1. M + 4 \in Nat /\ (place + Len(str) <= M \/ place >= M + 4)
    BY <1>0, <1>9
  <2>2. Holds(q.buf, place, str)
    BY <1>0, <1>4, <1>9, <2>1, HeldOutside
  <2> QED BY <1>8, <1>9, <2>2
<1>10. Holds(bytes, M, ds)
  <2>1. M + Len(ds) <= e
    BY <1>0, <1>1, <1>5
  <2> QED BY <1>0, <1>4, <1>5, <1>8, <2>1
<1>11. Started(bytes, opcode)
  <2>1. Holds(s.buf, 0, Magic) /\ Holds(s.buf, Preamble, os)
    BY Zenon DEF Started, os
  <2>2. 0 + Len(Magic) <= e /\ 0 + Len(Magic) <= M /\ Preamble + Len(os) <= e
    BY <1>0, <1>1, <1>5 DEF M
  <2>3. Holds(bytes, 0, Magic)
    BY <1>0, <1>9, <2>1, <2>2
  <2>4. Preamble >= Preamble
    BY <1>0
  <2>5. Holds(bytes, Preamble, os)
    BY <1>0, <1>5, <1>9, <2>1, <2>2, <2>4
  <2> QED BY <2>3, <2>5, Zenon DEF Started, os
<1>12. KeepsBehind(s, bytes)
  BY <1>9 DEF KeepsBehind, e
<1>13. SendBuffer(s) = bytes
  BY Zenon DEF SendBuffer, bytes, q, p, M, e
<1> QED BY <1>7, <1>10, <1>11, <1>12, <1>13, Zenon DEF ds, n, e, M

\* What the other end finds in such a message.
LEMMA Opened ==
    ASSUME PowersOfBase, NEW bytes \in Seq(ByteSet), NEW big \in BOOLEAN, NEW opcode \in Nat,
           opcode < Base ^ 1, Started(bytes, opcode), NEW n \in Nat, n < Base ^ 4,
           Len(bytes) = Preamble + n, Holds(bytes, Len(Magic), Digits(n, 4))
    PROVE  /\ Framed(bytes, big) /\ Header(bytes, big).val = n
           /\ LET q == Body(bytes, big) IN
              q \in Streams /\ ~q.thrown /\ q.buf = bytes /\ q.offset = Preamble + 1 /\ q.val = opcode
<1> DEFINE s == Stream(bytes, big)  r == ReadBytes(s, Len(Magic))  h == ReadUInt(r, 4)
           q == ReadUInt(h, 1)
<1>0. /\ Magic \in Seq(ByteSet) /\ Len(Magic) \in Nat /\ Preamble \in Nat
      /\ Preamble = Len(Magic) + 4 /\ 1 \in Nat /\ 4 \in Nat /\ Len(bytes) \in Nat
  BY PreambleType, LenProperties
<1>1. s \in Streams /\ s.buf = bytes /\ s.offset = 0 /\ ~s.thrown
  BY NewStream
<1> HIDE DEF s
<1>2. Holds(bytes, 0, Magic) /\ Holds(bytes, Preamble, Digits(opcode, 1))
  BY Zenon DEF Started
<1>3. r \in Streams /\ ~r.thrown /\ r.buf = bytes /\ r.offset = Len(Magic)
  <2>1. Holds(s.buf, s.offset, Magic)
    BY <1>1, <1>2, Zenon
  <2>2. /\ r \in Streams /\ ~r.thrown /\ r.buf = s.buf /\ r.offset = s.offset + Len(Magic)
    BY <1>0, <1>1, <2>1, GetBytes
  <2> HIDE DEF r
  <2> QED BY <1>0, <1>1, <2>2
<1> HIDE DEF r
<1>4. h \in Streams /\ ~h.thrown /\ h.buf = bytes /\ h.offset = Preamble /\ h.val = n
  <2>1. Holds(r.buf, r.offset, Digits(n, 4))
    BY <1>3, Zenon
  <2>2. /\ h \in Streams /\ ~h.thrown /\ h.buf = r.buf /\ h.offset = r.offset + 4 /\ h.val = n
    BY <1>0, <1>3, <2>1, GetNumber
  <2> HIDE DEF h
  <2> QED BY <1>0, <1>3, <2>2
<1> HIDE DEF h
<1>5. q \in Streams /\ ~q.thrown /\ q.buf = bytes /\ q.offset = Preamble + 1 /\ q.val = opcode
  <2>1. Holds(h.buf, h.offset, Digits(opcode, 1))
    BY <1>2, <1>4, Zenon
  <2>2. /\ q \in Streams /\ ~q.thrown /\ q.buf = h.buf /\ q.offset = h.offset + 1 /\ q.val = opcode
    BY <1>0, <1>4, <2>1, GetNumber
  <2> HIDE DEF q
  <2> QED BY <1>0, <1>4, <2>2
<1> HIDE DEF q
<1>6. Header(bytes, big) = h /\ Body(bytes, big) = q
  BY Zenon DEF Header, Body, q, h, r, s
<1>7. IsPrefix(Magic, bytes)
  <2> DEFINE m == SubSeq(Magic, 1, Len(Magic))  b == SubSeq(bytes, 1, Len(Magic))
  <2>1. Len(Magic) <= Len(bytes) /\ \A i \in 1..Len(Magic) : bytes[0 + i] = Magic[i]
    BY <1>0, <1>2 DEF Holds
  <2>2. m \in Seq(ByteSet) /\ Len(m) = Len(Magic) /\ \A i \in 1..Len(Magic) : m[i] = Magic[i]
    BY <1>0
  <2>3. b \in Seq(ByteSet) /\ Len(b) = Len(Magic) /\ \A i \in 1..Len(Magic) : b[i] = bytes[i]
    BY <1>0, <2>1
  <2> HIDE DEF m, b
  <2>4. \A i \in 1..Len(Magic) : b[i] = m[i]
    <3>1. \A i \in 1..Len(Magic) : 0 + i = i
      BY <1>0
    <3> QED BY <2>1, <2>2, <2>3, <3>1
  <2>5. m = b
    BY <2>2, <2>3, <2>4, SeqEqual, Zenon
  <2> QED BY <2>1, <2>5, Zenon DEF IsPrefix, m, b
<1>8. h.val = Len(bytes) - h.offset
  BY <1>0, <1>4
<1> QED BY <1>4, <1>5, <1>6, <1>7, <1>8, Zenon DEF Framed
-----------------------------------------------------------------------------
(* A line of output. *)

\* More was written, and nothing failed.
Puts(s, q) ==
    /\ s \in Streams /\ q \in Streams /\ ~s.thrown /\ ~q.thrown /\ s.offset <= q.offset
    /\ Outside(s.buf, q.buf, s.offset, q.offset)

LEMMA PutsFacts ==
    ASSUME NEW s, NEW q, Puts(s, q)
    PROVE  /\ s.offset \in Nat /\ q.offset \in Nat /\ s.buf \in Seq(ByteSet) /\ q.buf \in Seq(ByteSet)
           /\ Len(q.buf) = Len(s.buf) /\ Len(s.buf) \in Nat /\ s.offset <= q.offset
           /\ q.offset <= Len(q.buf)
BY StreamFields DEF Puts, Outside

LEMMA PutsTwice ==
    ASSUME NEW s, NEW q, NEW t, Puts(s, q), Puts(q, t) PROVE Puts(s, t)
<1>1. /\ s.offset \in Nat /\ q.offset \in Nat /\ t.offset \in Nat /\ s.buf \in Seq(ByteSet)
      /\ s.offset <= q.offset /\ q.offset <= t.offset
  BY PutsFacts
<1>2. Outside(s.buf, q.buf, s.offset, q.offset) /\ Outside(q.buf, t.buf, q.offset, t.offset)
  BY Zenon DEF Puts
<1>3. Outside(s.buf, t.buf, s.offset, t.offset)
  BY <1>1, <1>2, OutsideTwice
<1>4. s.offset <= t.offset
  BY <1>1
<1> QED BY <1>3, <1>4, Zenon DEF Puts

LEMMA PutsKeep ==
    ASSUME NEW s, NEW q, Puts(s, q), NEW place \in Nat, NEW bytes \in Seq(ByteSet),
           Holds(s.buf, place, bytes), place + Len(bytes) <= s.offset
    PROVE  Holds(q.buf, place, bytes)
<1>1. s.offset \in Nat /\ q.offset \in Nat /\ s.buf \in Seq(ByteSet)
  BY PutsFacts
<1>2. Outside(s.buf, q.buf, s.offset, q.offset)
  BY Zenon DEF Puts
<1> QED BY <1>1, <1>2, HeldOutside

LEMMA PutsKeepText ==
    ASSUME PowersOfBase, NEW s, NEW q, Puts(s, q), NEW place \in Nat, NEW str \in Seq(ByteSet),
           HoldsText(s.buf, place, str), place + 4 + Len(str) <= s.offset
    PROVE  HoldsText(q.buf, place, str)
<1>1. s.offset \in Nat /\ q.offset \in Nat /\ s.buf \in Seq(ByteSet)
  BY PutsFacts
<1>2. Outside(s.buf, q.buf, s.offset, q.offset)
  BY Zenon DEF Puts
<1> QED BY <1>1, <1>2, TextHeldOutside

LEMMA PutsKeepStart ==
    ASSUME PowersOfBase, NEW s, NEW q, Puts(s, q), NEW opcode \in Nat, Started(s.buf, opcode),
           s.offset >= Preamble + 1
    PROVE  Started(q.buf, opcode)
<1>1. s.offset \in Nat /\ q.offset \in Nat /\ s.buf \in Seq(ByteSet)
  BY PutsFacts
<1>2. Outside(s.buf, q.buf, s.offset, q.offset)
  BY Zenon DEF Puts
<1> QED BY <1>1, <1>2, StartedOutside

LEMMA NumberPuts ==
    ASSUME PowersOfBase, NEW s \in Streams, ~s.thrown, NEW n \in Nat, NEW size \in Nat,
           s.offset + size <= Len(s.buf)
    PROVE  LET q == WriteUInt(s, n, size) IN
           /\ q \in Streams /\ ~q.thrown /\ q.offset = s.offset + size
           /\ Holds(q.buf, s.offset, Digits(n, size)) /\ Puts(s, q)
<1> DEFINE q == WriteUInt(s, n, size)
<1>1. /\ q \in Streams /\ ~q.thrown /\ q.offset = s.offset + size
      /\ Holds(q.buf, s.offset, Digits(n, size)) /\ Outside(s.buf, q.buf, s.offset, q.offset)
  BY PutNumber
<1> HIDE DEF q
<1>2. s.offset <= q.offset
  BY <1>1, StreamFields
<1> QED BY <1>1, <1>2, Zenon DEF Puts, q

LEMMA StringPuts ==
    ASSUME PowersOfBase, NEW s \in Streams, ~s.thrown, NEW str \in Seq(ByteSet),
           Len(str) < Base ^ 4 - 1, s.offset + 4 + Len(str) <= Len(s.buf)
    PROVE  LET q == WriteString(s, str) IN
           /\ q \in Streams /\ ~q.thrown /\ q.offset = s.offset + 4 + Len(str)
           /\ HoldsText(q.buf, s.offset, str) /\ Puts(s, q)
<1> DEFINE q == WriteString(s, str)
<1>1. /\ q \in Streams /\ ~q.thrown /\ q.offset = s.offset + 4 + Len(str)
      /\ HoldsText(q.buf, s.offset, str) /\ Outside(s.buf, q.buf, s.offset, q.offset)
  BY PutString
<1> HIDE DEF q
<1>2. s.offset <= q.offset
  BY <1>1, StreamFields, LenProperties
<1> QED BY <1>1, <1>2, Zenon DEF Puts, q

\* A write that has not failed has found its place.
LEMMA NumberPut ==
    ASSUME PowersOfBase, NEW s \in Streams, NEW n \in Nat, NEW size \in Nat
    PROVE  LET q == WriteUInt(s, n, size) IN
           /\ q \in Streams /\ Len(q.buf) = Len(s.buf)
           /\ ~q.thrown => ~s.thrown /\ q.offset = s.offset + size
<1> DEFINE ds == Digits(n, size)
<1>1. ds \in Seq(ByteSet) /\ Len(ds) = size
  BY DigitsType
<1>2. WriteUInt(s, n, size) = WriteBytes(s, ds)
  BY WritesNumber
<1> HIDE DEF ds
<1>3. PICK q \in Streams :
         /\ q = WriteBytes(s, ds)
         /\ q.big = s.big /\ Later(s, q)
         /\ s.thrown \/ ~Fits(s, Len(ds)) => q.thrown /\ q.offset = s.offset
         /\ ~s.thrown /\ Fits(s, Len(ds)) =>
              /\ ~q.thrown /\ q.offset = s.offset + Len(ds)
              /\ SubSeq(q.buf, s.offset + 1, s.offset + Len(ds)) = ds
  BY <1>1, WriteSome, Zenon
<1>4. Len(q.buf) = Len(s.buf)
  BY <1>3, Zenon DEF Later
<1>5. ~q.thrown => ~s.thrown /\ q.offset = s.offset + size
  BY <1>1, <1>3, Zenon
<1> QED BY <1>2, <1>3, <1>4, <1>5, Zenon

LEMMA BytesPut ==
    ASSUME NEW s \in Streams, NEW bytes \in Seq(ByteSet)
    PROVE  LET q == WriteBytes(s, bytes) IN
           /\ q \in Streams /\ Len(q.buf) = Len(s.buf)
           /\ ~q.thrown => ~s.thrown /\ q.offset = s.offset + Len(bytes)
<1>3. PICK q \in Streams :
         /\ q = WriteBytes(s, bytes)
         /\ q.big = s.big /\ Later(s, q)
         /\ s.thrown \/ ~Fits(s, Len(bytes)) => q.thrown /\ q.offset = s.offset
         /\ ~s.thrown /\ Fits(s, Len(bytes)) =>
              /\ ~q.thrown /\ q.offset = s.offset + Len(bytes)
              /\ SubSeq(q.buf, s.offset + 1, s.offset + Len(bytes)) = bytes
  BY WriteSome, Zenon
<1>4. Len(q.buf) = Len(s.buf)
  BY <1>3, Zenon DEF Later
<1> QED BY <1>3, <1>4, Zenon

LEMMA StringPut ==
    ASSUME PowersOfBase, NEW s \in Streams, NEW str \in Seq(ByteSet)
    PROVE  LET q == WriteString(s, str) IN
           /\ q \in Streams /\ Len(q.buf) = Len(s.buf)
           /\ ~q.thrown => ~s.thrown /\ q.offset = s.offset + 4 + Len(str)
<1> DEFINE n == Len(str)  x == WriteUInt(s, n, 4)  y == WriteBytes(x, str)  q == WriteString(s, str)
<1>0. n \in Nat /\ 4 \in Nat
  BY LenProperties
<1>1. x \in Streams /\ Len(x.buf) = Len(s.buf) /\ (~x.thrown => ~s.thrown /\ x.offset = s.offset + 4)
  BY <1>0, NumberPut
<1> HIDE DEF x
<1>2. y \in Streams /\ Len(y.buf) = Len(x.buf)
      /\ (~y.thrown => ~x.thrown /\ y.offset = x.offset + Len(str))
  BY <1>1, BytesPut
<1> HIDE DEF y
<1>3. CASE n >= Base ^ 4 - 1
  <2>1. q = Throw(s)
    BY <1>3, Zenon DEF WriteString
  <2>2. PICK t \in Streams : t = Throw(s) /\ t.thrown /\ t.buf = s.buf
    BY ThrownStream, Zenon
  <2> HIDE DEF q
  <2> QED BY <2>1, <2>2, Zenon DEF q
<1>4. CASE ~ (n >= Base ^ 4 - 1)
  <2>1. q = y
    BY <1>4, Zenon DEF WriteString, y, x
  <2>2. ~y.thrown => ~s.thrown /\ y.offset = s.offset + 4 + Len(str)
    BY <1>1, <1>2, Zenon
  <2> QED BY <2>1, <2>2, <1>1, <1>2, Zenon
<1> QED BY <1>3, <1>4

OutputMessages == [type : Nat, color : Nat, time : Nat, tag : Seq(ByteSet), text : Seq(ByteSet)]

\* The bytes of a line in the buffer.
LineSize(msg) == Preamble + 11 + (4 + Len(msg.tag)) + (4 + Len(msg.text))

LineHeld(bytes, msg) ==
    /\ Holds(bytes, Preamble + 1, Digits(msg.type, 1))
    /\ Holds(bytes, Preamble + 2, Digits(msg.color, 1))
    /\ Holds(bytes, Preamble + 3, Digits(msg.time, 8))
    /\ HoldsText(bytes, Preamble + 11, msg.tag)
    /\ HoldsText(bytes, Preamble + 15 + Len(msg.tag), msg.text)

\* The calls of the line, one after the other.
TypeOf(msg) == WriteUInt(PrepareSendBuffer(Opcode.PRINT), msg.type, 1)
TimeOf(msg) == WriteUInt(WriteUInt(TypeOf(msg), msg.color, 1), msg.time, 8)
TextOf(msg) == WriteString(WriteString(TimeOf(msg), msg.tag), msg.text)

LEMMA MessageFacts ==
    ASSUME NEW msg \in OutputMessages
    PROVE  /\ msg.type \in Nat /\ msg.color \in Nat /\ msg.time \in Nat
           /\ msg.tag \in Seq(ByteSet) /\ msg.text \in Seq(ByteSet)
           /\ Len(msg.tag) \in Nat /\ Len(msg.text) \in Nat
BY LenProperties DEF OutputMessages

LEMMA LinePut ==
    ASSUME PowersOfBase, NEW msg \in OutputMessages, ~TextOf(msg).thrown
    PROVE  LineSize(msg) <= BufferSize
<1> DEFINE p == PrepareSendBuffer(Opcode.PRINT)  a == WriteUInt(p, msg.type, 1)
           b == WriteUInt(a, msg.color, 1)  c == WriteUInt(b, msg.time, 8)
           d == WriteString(c, msg.tag)  e == WriteString(d, msg.text)
           t == Len(msg.tag)  x == Len(msg.text)
<1>0. /\ msg.type \in Nat /\ msg.color \in Nat /\ msg.time \in Nat
      /\ msg.tag \in Seq(ByteSet) /\ msg.text \in Seq(ByteSet)
      /\ t \in Nat /\ x \in Nat /\ 1 \in Nat /\ 8 \in Nat
      /\ Preamble \in Nat /\ BufferSize \in Nat
  BY MessageFacts, PreambleType
<1> HIDE DEF t, x
<1>1. p \in Streams /\ p.offset = Preamble + 1 /\ Len(p.buf) = BufferSize
  <2>1. Opcode.PRINT \in Nat
    BY DEF Opcode
  <2> QED BY <2>1, Prepared
<1> HIDE DEF p
<1>2. a \in Streams /\ Len(a.buf) = Len(p.buf) /\ (~a.thrown => ~p.thrown /\ a.offset = p.offset + 1)
  BY <1>0, <1>1, NumberPut
<1> HIDE DEF a
<1>3. b \in Streams /\ Len(b.buf) = Len(a.buf) /\ (~b.thrown => ~a.thrown /\ b.offset = a.offset + 1)
  BY <1>0, <1>2, NumberPut
<1> HIDE DEF b
<1>4. c \in Streams /\ Len(c.buf) = Len(b.buf) /\ (~c.thrown => ~b.thrown /\ c.offset = b.offset + 8)
  BY <1>0, <1>3, NumberPut
<1> HIDE DEF c
<1>5. d \in Streams /\ Len(d.buf) = Len(c.buf)
      /\ (~d.thrown => ~c.thrown /\ d.offset = c.offset + 4 + t)
  BY <1>0, <1>4, StringPut DEF t, x
<1> HIDE DEF d
<1>6. e \in Streams /\ Len(e.buf) = Len(d.buf)
      /\ (~e.thrown => ~d.thrown /\ e.offset = d.offset + 4 + x)
  BY <1>0, <1>5, StringPut DEF t, x
<1> HIDE DEF e
<1>7. ~e.thrown
  BY Zenon DEF e, d, c, b, a, p, TextOf, TimeOf, TypeOf
<1>8. e.offset <= Len(e.buf)
  BY <1>6, StreamFields
<1>9. Len(e.buf) = BufferSize
  BY <1>1, <1>2, <1>3, <1>4, <1>5, <1>6, Zenon
<1>10. a.offset = Preamble + 2 /\ b.offset = Preamble + 3
  BY <1>0, <1>1, <1>2, <1>3, <1>4, <1>5, <1>6, <1>7
<1>11. c.offset = Preamble + 11
  BY <1>0, <1>10, <1>4, <1>5, <1>6, <1>7
<1>12. e.offset = Preamble + 11 + (4 + t) + (4 + x)
  BY <1>0, <1>11, <1>5, <1>6, <1>7
<1>13. e.offset = LineSize(msg)
  BY <1>12, Zenon DEF LineSize, t, x
<1> QED BY <1>8, <1>9, <1>13, Zenon

LEMMA LineWritten ==
    ASSUME PowersOfBase, NEW msg \in OutputMessages, LineSize(msg) <= BufferSize
    PROVE  LET q == TextOf(msg) IN
           /\ q \in Streams /\ ~q.thrown /\ q.offset = LineSize(msg)
           /\ Started(q.buf, Opcode.PRINT) /\ LineHeld(q.buf, msg)
<1> DEFINE p == PrepareSendBuffer(Opcode.PRINT)  a == WriteUInt(p, msg.type, 1)
           b == WriteUInt(a, msg.color, 1)  c == WriteUInt(b, msg.time, 8)
           d == WriteString(c, msg.tag)  e == WriteString(d, msg.text)
           ty == Digits(msg.type, 1)  co == Digits(msg.color, 1)  ti == Digits(msg.time, 8)
           t == Len(msg.tag)  x == Len(msg.text)  P == Preamble  L == LineSize(msg)
<1>0. /\ msg.type \in Nat /\ msg.color \in Nat /\ msg.time \in Nat
      /\ msg.tag \in Seq(ByteSet) /\ msg.text \in Seq(ByteSet)
      /\ t \in Nat /\ x \in Nat /\ 1 \in Nat /\ 8 \in Nat
      /\ P \in Nat /\ BufferSize \in Nat /\ L <= BufferSize
  BY MessageFacts, PreambleType, Zenon
<1>s. L = P + 11 + (4 + t) + (4 + x)
  BY Zenon DEF LineSize
<1> HIDE DEF t, x, P, L
<1>r. P + 15 + t + (4 + x) <= BufferSize /\ L = P + 15 + t + (4 + x)
  BY <1>0, <1>s
<1>d. /\ ty \in Seq(ByteSet) /\ Len(ty) = 1 /\ co \in Seq(ByteSet) /\ Len(co) = 1
       /\ ti \in Seq(ByteSet) /\ Len(ti) = 8
  BY <1>0, <1>r, DigitsType
<1>f. t < Base ^ 4 - 1 /\ x < Base ^ 4 - 1
  <2> DEFINE B == Base ^ 4
  <2>1. B \in Nat /\ BufferSize + 1 < B
    BY Zenon, ProtocolAssumption DEF PowersOfBase
  <2> HIDE DEF B
  <2>2. t < B - 1 /\ x < B - 1
    BY <1>0, <1>r, <2>1
  <2> QED BY <2>2, Zenon DEF B
<1>o. Opcode.PRINT \in Nat
  BY DEF Opcode
<1>1. /\ p \in Streams /\ ~p.thrown /\ p.offset = P + 1 /\ Len(p.buf) = BufferSize
      /\ Started(p.buf, Opcode.PRINT)
  BY <1>o, Prepared DEF P
<1> HIDE DEF p
<1>2. /\ a \in Streams /\ ~a.thrown /\ a.offset = p.offset + 1
      /\ Holds(a.buf, p.offset, ty) /\ Puts(p, a)
  <2>1. p.offset + 1 <= Len(p.buf)
    BY <1>0, <1>r, <1>1
  <2> QED BY <1>0, <1>1, <2>1, NumberPuts
<1> HIDE DEF a, ty
<1>3. a.offset = P + 2 /\ Len(a.buf) = BufferSize
  BY <1>0, <1>r, <1>1, <1>2, PutsFacts
<1>4. /\ b \in Streams /\ ~b.thrown /\ b.offset = a.offset + 1
      /\ Holds(b.buf, a.offset, co) /\ Puts(a, b)
  <2>1. a.offset + 1 <= Len(a.buf)
    BY <1>0, <1>r, <1>3
  <2> QED BY <1>0, <1>2, <2>1, NumberPuts
<1> HIDE DEF b, co
<1>5. b.offset = P + 3 /\ Len(b.buf) = BufferSize
  BY <1>0, <1>r, <1>3, <1>4, PutsFacts
<1>6. /\ c \in Streams /\ ~c.thrown /\ c.offset = b.offset + 8
      /\ Holds(c.buf, b.offset, ti) /\ Puts(b, c)
  <2>1. b.offset + 8 <= Len(b.buf)
    BY <1>0, <1>r, <1>5
  <2> QED BY <1>0, <1>4, <2>1, NumberPuts
<1> HIDE DEF c, ti
<1>7. c.offset = P + 11 /\ Len(c.buf) = BufferSize
  BY <1>0, <1>r, <1>5, <1>6, PutsFacts
<1>8. /\ d \in Streams /\ ~d.thrown /\ d.offset = c.offset + 4 + t
      /\ HoldsText(d.buf, c.offset, msg.tag) /\ Puts(c, d)
  <2>1. c.offset + 4 + t <= Len(c.buf)
    BY <1>0, <1>r, <1>7
  <2> QED BY <1>0, <1>f, <1>6, <2>1, StringPuts DEF t, x
<1> HIDE DEF d
<1>9. d.offset = P + 15 + t /\ Len(d.buf) = BufferSize
  BY <1>0, <1>r, <1>7, <1>8, PutsFacts
<1>10. /\ e \in Streams /\ ~e.thrown /\ e.offset = d.offset + 4 + x
       /\ HoldsText(e.buf, d.offset, msg.text) /\ Puts(d, e)
  <2>1. d.offset + 4 + x <= Len(d.buf)
    BY <1>0, <1>r, <1>9
  <2> QED BY <1>0, <1>f, <1>8, <2>1, StringPuts DEF t, x
<1> HIDE DEF e
<1>11. Puts(c, e) /\ Puts(b, e) /\ Puts(a, e) /\ Puts(p, e)
  <2>1. Puts(c, e)
    BY <1>8, <1>10, PutsTwice
  <2>2. Puts(b, e)
    BY <1>6, <2>1, PutsTwice
  <2>3. Puts(a, e)
    BY <1>4, <2>2, PutsTwice
  <2>4. Puts(p, e)
    BY <1>2, <2>3, PutsTwice
  <2> QED BY <2>1, <2>2, <2>3, <2>4
<1>12. Started(e.buf, Opcode.PRINT)
  <2>1. p.offset >= P + 1
    BY <1>0, <1>r, <1>1
  <2> QED BY <1>o, <1>1, <1>11, <2>1, PutsKeepStart DEF P
<1>13. Holds(e.buf, P + 1, ty)
  <2>1. Holds(a.buf, P + 1, ty) /\ P + 1 \in Nat /\ P + 1 + Len(ty) <= a.offset
    BY <1>0, <1>r, <1>d, <1>1, <1>2, <1>3
  <2> QED BY <1>d, <1>11, <2>1, PutsKeep
<1>14. Holds(e.buf, P + 2, co)
  <2>1. Holds(b.buf, P + 2, co) /\ P + 2 \in Nat /\ P + 2 + Len(co) <= b.offset
    BY <1>0, <1>r, <1>d, <1>3, <1>4, <1>5
  <2> QED BY <1>d, <1>11, <2>1, PutsKeep
<1>15. Holds(e.buf, P + 3, ti)
  <2>1. Holds(c.buf, P + 3, ti) /\ P + 3 \in Nat /\ P + 3 + Len(ti) <= c.offset
    BY <1>0, <1>r, <1>d, <1>5, <1>6, <1>7
  <2> QED BY <1>d, <1>11, <2>1, PutsKeep
<1>16. HoldsText(e.buf, P + 11, msg.tag)
  <2>1. HoldsText(d.buf, P + 11, msg.tag) /\ P + 11 \in Nat
        /\ P + 11 + 4 + t <= d.offset
    BY <1>0, <1>r, <1>7, <1>8, <1>9
  <2> QED BY <1>0, <1>10, <2>1, PutsKeepText DEF t
<1>17. HoldsText(e.buf, P + 15 + t, msg.text)
  BY <1>9, <1>10, Zenon
<1>18. LineHeld(e.buf, msg)
  BY <1>13, <1>14, <1>15, <1>16, <1>17, Zenon DEF LineHeld, P, t, ty, co, ti
<1>19. e.offset = L
  BY <1>0, <1>r, <1>9, <1>10
<1>20. TextOf(msg) = e
  BY Zenon DEF e, d, c, b, a, p, TextOf, TimeOf, TypeOf
<1> QED BY <1>10, <1>12, <1>18, <1>19, <1>20, Zenon DEF L

\* A line whose numbers have a place in the message.
LineOfSize(msg) ==
    /\ msg \in OutputMessages /\ msg.type < Base ^ 1 /\ msg.color < Base ^ 1 /\ msg.time < Base ^ 8
    /\ LineSize(msg) <= BufferSize

LEMMA LineRead ==
    ASSUME PowersOfBase, NEW msg, LineOfSize(msg), NEW bytes \in Seq(ByteSet), LineHeld(bytes, msg),
           NEW s \in Streams, ~s.thrown, s.buf = bytes, s.offset = Preamble + 1
    PROVE  LET type == ReadUInt(s, 1)  color == ReadUInt(type, 1)  time == ReadUInt(color, 8)
               tag == ReadString(time)  text == ReadString(tag) IN
           [type |-> type.val, color |-> color.val, time |-> time.val, tag |-> tag.val,
            text |-> text.val] = msg
<1> DEFINE a == ReadUInt(s, 1)  b == ReadUInt(a, 1)  c == ReadUInt(b, 8)
           d == ReadString(c)  e == ReadString(d)
           t == Len(msg.tag)  x == Len(msg.text)  P == Preamble
<1>1. /\ msg.type \in Nat /\ msg.color \in Nat /\ msg.time \in Nat
      /\ msg.tag \in Seq(ByteSet) /\ msg.text \in Seq(ByteSet)
      /\ t \in Nat /\ x \in Nat /\ 1 \in Nat /\ 8 \in Nat
      /\ P \in Nat /\ BufferSize \in Nat
  BY MessageFacts, PreambleType, Zenon DEF LineOfSize
<1>2. msg.type < Base ^ 1 /\ msg.color < Base ^ 1 /\ msg.time < Base ^ 8
  BY Zenon DEF LineOfSize
<1>3. P + 11 + (4 + t) + (4 + x) <= BufferSize
  BY Zenon DEF LineSize, LineOfSize
<1> HIDE DEF t, x, P
<1>4. t < Base ^ 4 /\ x < Base ^ 4
  <2> DEFINE B == Base ^ 4
  <2>1. B \in Nat /\ BufferSize + 1 < B
    BY Zenon, ProtocolAssumption DEF PowersOfBase
  <2> HIDE DEF B
  <2>2. t < B /\ x < B
    BY <1>1, <1>3, <2>1
  <2> QED BY <2>2, Zenon DEF B
<1>5. /\ Holds(bytes, P + 1, Digits(msg.type, 1)) /\ Holds(bytes, P + 2, Digits(msg.color, 1))
      /\ Holds(bytes, P + 3, Digits(msg.time, 8)) /\ HoldsText(bytes, P + 11, msg.tag)
      /\ HoldsText(bytes, P + 15 + t, msg.text)
  BY Zenon DEF LineHeld, P, t
<1>6. s.offset = P + 1
  BY DEF P
<1>7. a \in Streams /\ ~a.thrown /\ a.buf = bytes /\ a.offset = P + 2 /\ a.val = msg.type
  <2>1. Holds(s.buf, s.offset, Digits(msg.type, 1))
    BY <1>5, <1>6, Zenon
  <2>2. a \in Streams /\ ~a.thrown /\ a.buf = s.buf /\ a.offset = s.offset + 1 /\ a.val = msg.type
    BY <1>1, <1>2, <2>1, GetNumber
  <2> HIDE DEF a
  <2> QED BY <1>1, <1>6, <2>2
<1> HIDE DEF a
<1>8. b \in Streams /\ ~b.thrown /\ b.buf = bytes /\ b.offset = P + 3 /\ b.val = msg.color
  <2>1. Holds(a.buf, a.offset, Digits(msg.color, 1))
    BY <1>5, <1>7, Zenon
  <2>2. b \in Streams /\ ~b.thrown /\ b.buf = a.buf /\ b.offset = a.offset + 1 /\ b.val = msg.color
    BY <1>1, <1>2, <1>7, <2>1, GetNumber
  <2> HIDE DEF b
  <2> QED BY <1>1, <1>7, <2>2
<1> HIDE DEF b
<1>9. c \in Streams /\ ~c.thrown /\ c.buf = bytes /\ c.offset = P + 11 /\ c.val = msg.time
  <2>1. Holds(b.buf, b.offset, Digits(msg.time, 8))
    BY <1>5, <1>8, Zenon
  <2>2. c \in Streams /\ ~c.thrown /\ c.buf = b.buf /\ c.offset = b.offset + 8 /\ c.val = msg.time
    BY <1>1, <1>2, <1>8, <2>1, GetNumber
  <2> HIDE DEF c
  <2> QED BY <1>1, <1>8, <2>2
<1> HIDE DEF c
<1>10. d \in Streams /\ ~d.thrown /\ d.buf = bytes /\ d.offset = P + 15 + t /\ d.val = msg.tag
  <2>1. HoldsText(c.buf, c.offset, msg.tag)
    BY <1>5, <1>9, Zenon
  <2>2. d \in Streams /\ ~d.thrown /\ d.buf = c.buf /\ d.offset = c.offset + 4 + t /\ d.val = msg.tag
    BY <1>1, <1>4, <1>9, <2>1, GetString DEF t
  <2> HIDE DEF d
  <2> QED BY <1>1, <1>9, <2>2
<1> HIDE DEF d
<1>11. e.val = msg.text
  <2>1. HoldsText(d.buf, d.offset, msg.text)
    BY <1>5, <1>10, Zenon
  <2> QED BY <1>1, <1>4, <1>10, <2>1, GetString DEF x
<1> HIDE DEF e
<1>12. msg = [type |-> msg.type, color |-> msg.color, time |-> msg.time, tag |-> msg.tag,
              text |-> msg.text]
  BY DEF OutputMessages, LineOfSize
<1> QED BY <1>7, <1>8, <1>9, <1>10, <1>11, <1>12, Zenon DEF a, b, c, d, e

LEMMA LineSent ==
    ASSUME PowersOfBase, NEW msg, LineOfSize(msg)
    PROVE  LET bytes == SendBuffer(TextOf(msg)) IN
           /\ bytes \in Seq(ByteSet) /\ Len(bytes) = LineSize(msg)
           /\ Started(bytes, Opcode.PRINT) /\ LineHeld(bytes, msg)
           /\ Holds(bytes, Len(Magic), Digits(LineSize(msg) - Preamble, 4))
<1> DEFINE q == TextOf(msg)  bytes == SendBuffer(q)  L == LineSize(msg)
           t == Len(msg.tag)  x == Len(msg.text)  P == Preamble
           ty == Digits(msg.type, 1)  co == Digits(msg.color, 1)  ti == Digits(msg.time, 8)
           dt == Digits(t, 4)  dx == Digits(x, 4)
<1>1. /\ msg.type \in Nat /\ msg.color \in Nat /\ msg.time \in Nat
      /\ msg.tag \in Seq(ByteSet) /\ msg.text \in Seq(ByteSet)
      /\ t \in Nat /\ x \in Nat /\ P \in Nat
  BY MessageFacts, PreambleType, Zenon DEF LineOfSize
<1>2. L = P + 11 + (4 + t) + (4 + x)
  BY Zenon DEF LineSize
<1>3. /\ q \in Streams /\ ~q.thrown /\ q.offset = L
      /\ Started(q.buf, Opcode.PRINT) /\ LineHeld(q.buf, msg)
  BY LineWritten DEF LineOfSize
<1> HIDE DEF q, L, t, x, P
<1>4. /\ ty \in Seq(ByteSet) /\ Len(ty) = 1 /\ co \in Seq(ByteSet) /\ Len(co) = 1
      /\ ti \in Seq(ByteSet) /\ Len(ti) = 8 /\ dt \in Seq(ByteSet) /\ Len(dt) = 4
      /\ dx \in Seq(ByteSet) /\ Len(dx) = 4
  BY <1>1, DigitsType
<1> HIDE DEF ty, co, ti, dt, dx
<1>5. Opcode.PRINT \in Nat /\ q.offset >= P + 1
  BY <1>1, <1>2, <1>3 DEF Opcode
<1>6. /\ bytes \in Seq(ByteSet) /\ Len(bytes) = q.offset /\ Started(bytes, Opcode.PRINT)
      /\ Holds(bytes, Len(Magic), Digits(q.offset - P, 4)) /\ KeepsBehind(q, bytes)
  BY <1>3, <1>5, Sent DEF P
<1> HIDE DEF bytes
<1>7. /\ Holds(q.buf, P + 1, ty) /\ Holds(q.buf, P + 2, co) /\ Holds(q.buf, P + 3, ti)
      /\ Holds(q.buf, P + 11, dt) /\ Holds(q.buf, P + 11 + 4, msg.tag)
      /\ Holds(q.buf, P + 15 + t, dx) /\ Holds(q.buf, P + 15 + t + 4, msg.text)
  BY <1>3, Zenon DEF LineHeld, HoldsText, P, t, x, ty, co, ti, dt, dx
<1>8. ASSUME NEW place \in Nat, NEW str \in Seq(ByteSet), place >= P, place + Len(str) <= L,
             Holds(q.buf, place, str)
      PROVE  Holds(bytes, place, str)
  BY <1>3, <1>6, <1>8, Zenon DEF KeepsBehind, P
<1>9. Len(msg.tag) = t /\ Len(msg.text) = x
  BY DEF t, x
<1>10. Holds(bytes, P + 1, ty)
  <2>1. P + 1 \in Nat /\ P + 1 >= P /\ P + 1 + Len(ty) <= L
    BY <1>1, <1>2, <1>4
  <2> QED BY <1>4, <1>7, <1>8, <2>1
<1>11. Holds(bytes, P + 2, co)
  <2>1. P + 2 \in Nat /\ P + 2 >= P /\ P + 2 + Len(co) <= L
    BY <1>1, <1>2, <1>4
  <2> QED BY <1>4, <1>7, <1>8, <2>1
<1>12. Holds(bytes, P + 3, ti)
  <2>1. P + 3 \in Nat /\ P + 3 >= P /\ P + 3 + Len(ti) <= L
    BY <1>1, <1>2, <1>4
  <2> QED BY <1>4, <1>7, <1>8, <2>1
<1>13. Holds(bytes, P + 11, dt)
  <2>1. P + 11 \in Nat /\ P + 11 >= P /\ P + 11 + Len(dt) <= L
    BY <1>1, <1>2, <1>4
  <2> QED BY <1>4, <1>7, <1>8, <2>1
<1>14. Holds(bytes, P + 11 + 4, msg.tag)
  <2>1. P + 11 + 4 \in Nat /\ P + 11 + 4 >= P /\ P + 11 + 4 + Len(msg.tag) <= L
    BY <1>1, <1>2, <1>9
  <2> QED BY <1>1, <1>7, <1>8, <2>1
<1>15. Holds(bytes, P + 15 + t, dx)
  <2>1. P + 15 + t \in Nat /\ P + 15 + t >= P /\ P + 15 + t + Len(dx) <= L
    BY <1>1, <1>2, <1>4
  <2> QED BY <1>4, <1>7, <1>8, <2>1
<1>16. Holds(bytes, P + 15 + t + 4, msg.text)
  <2>1. P + 15 + t + 4 \in Nat /\ P + 15 + t + 4 >= P /\ P + 15 + t + 4 + Len(msg.text) <= L
    BY <1>1, <1>2, <1>9
  <2> QED BY <1>1, <1>7, <1>8, <2>1
<1>17. LineHeld(bytes, msg)
  BY <1>10, <1>11, <1>12, <1>13, <1>14, <1>15, <1>16, Zenon
     DEF LineHeld, HoldsText, P, t, x, ty, co, ti, dt, dx
<1> QED BY <1>3, <1>6, <1>17, Zenon DEF bytes, q, L, P

\* ExtconHost::sendPrintMsg (extcon_host.cpp): a line of output whose payload is within the
\* limit is sent as a datagram within it, from which it is read back on a platform of either
\* order.
THEOREM PrintRight ==
    ASSUME PowersOfBase, NEW msg \in OutputMessages, msg.type < Base ^ 1, msg.color < Base ^ 1,
           msg.time < Base ^ 8, 1 < Base ^ 1, NEW big \in BOOLEAN
    PROVE  PrintReceived(msg, big)
<1> DEFINE q == TextOf(msg)  bytes == SendBuffer(q)  L == LineSize(msg)  n == L - Preamble
           t == Len(msg.tag)  x == Len(msg.text)
<1>1. PrintMessage(msg) = [thrown |-> q.thrown, bytes |-> bytes]
  BY Zenon DEF PrintMessage, TextOf, TimeOf, TypeOf
<1>2. PrintMessage(msg).thrown = q.thrown /\ PrintMessage(msg).bytes = bytes
  BY <1>1
<1>3. /\ t \in Nat /\ x \in Nat /\ Len(Magic) \in Nat /\ MaxPayloadSize \in Nat
      /\ Preamble \in Nat /\ BufferSize \in Nat /\ Preamble + 5 + MaxPayloadSize <= BufferSize
  BY MessageFacts, PreambleType
<1>4. L = Preamble + 11 + (4 + t) + (4 + x) /\ PrintPayload(msg) = 19 + t + x
  BY Zenon DEF LineSize, PrintPayload
<1> SUFFICES ASSUME PrintPayload(msg) <= MaxPayloadSize
             PROVE  /\ ~q.thrown /\ PrintReceived(msg, big)
  BY Zenon DEF PrintReceived
<1> HIDE DEF L, q, t, x
<1>5. /\ L \in Nat /\ n \in Nat /\ L = Preamble + n /\ n <= MaxPayloadSize /\ L <= BufferSize
  BY <1>3, <1>4
<1>6. ~q.thrown /\ LineOfSize(msg)
  <2>1. ~q.thrown
    BY <1>5, LineWritten, Zenon DEF L, q
  <2> QED BY <1>5, <2>1, LinePut, Zenon DEF LineOfSize, L, q
<1>7. /\ bytes \in Seq(ByteSet) /\ Len(bytes) = L
      /\ Started(bytes, Opcode.PRINT) /\ LineHeld(bytes, msg)
      /\ Holds(bytes, Len(Magic), Digits(n, 4))
  BY <1>6, LineSent, Zenon DEF L, q
<1> HIDE DEF bytes
<1>8. Opcode.PRINT \in Nat /\ Opcode.PRINT < Base ^ 1
  BY DEF Opcode
<1>9. n < Base ^ 4
  <2> DEFINE B == Base ^ 4
  <2>1. B \in Nat /\ BufferSize + 1 < B
    BY Zenon, ProtocolAssumption DEF PowersOfBase
  <2> HIDE DEF B, n
  <2>2. n < B
    BY <1>3, <1>5, <2>1
  <2> QED BY <2>2, Zenon DEF B
<1> HIDE DEF n
<1>10. Len(bytes) = Preamble + n
  BY <1>5, <1>7, Zenon
<1> DEFINE s == Body(bytes, big)
<1>11. /\ Framed(bytes, big) /\ Header(bytes, big).val = n
       /\ s \in Streams /\ ~s.thrown /\ s.buf = bytes /\ s.offset = Preamble + 1
       /\ s.val = Opcode.PRINT
  BY <1>5, <1>7, <1>8, <1>9, <1>10, Opened
<1> HIDE DEF s
<1> DEFINE a == ReadUInt(s, 1)  b == ReadUInt(a, 1)  c == ReadUInt(b, 8)
           d == ReadString(c)  e == ReadString(d)
<1>12. [type |-> a.val, color |-> b.val, time |-> c.val, tag |-> d.val, text |-> e.val] = msg
  BY <1>6, <1>7, <1>11, LineRead
<1> HIDE DEF a, b, c, d, e
<1>13. /\ Framed(bytes, big) /\ Body(bytes, big).val = Opcode.PRINT
       /\ Header(bytes, big).val <= MaxPayloadSize
  BY <1>5, <1>11, Zenon DEF s
<1> QED BY <1>2, <1>6, <1>12, <1>13, Zenon DEF PrintReceived, a, b, c, d, e, s
-----------------------------------------------------------------------------
(* A message of the list of the commands. *)

NameSeqs == Seq(Seq(ByteSet))

FillStates == [s : Streams, size : Nat, count : Nat, full : BOOLEAN]

FillStart == [s |-> WriteUInt(PrepareSendBuffer(Opcode.CMD_LIST), 0, 4),
              size |-> 0, count |-> 0, full |-> FALSE]

FillStep(m, name) ==
    LET size == 4 + Len(name) IN
    IF m.full \/ m.size + size > MaxPayloadSize THEN [m EXCEPT !.full = TRUE]
    ELSE [m EXCEPT !.s = WriteString(@, name), !.size = @ + size, !.count = @ + 1]

Filling == [m \in FillStates |-> [name \in Seq(ByteSet) |-> FillStep(m, name)]]

LEMMA WroteString ==
    ASSUME PowersOfBase, NEW s \in Streams, NEW str \in Seq(ByteSet)
    PROVE  WriteString(s, str) \in Streams
BY StringPut

LEMMA FillFields ==
    ASSUME NEW m \in FillStates
    PROVE  m.s \in Streams /\ m.size \in Nat /\ m.count \in Nat /\ m.full \in BOOLEAN
BY DEF FillStates

\* What a step of the loop makes of the message.
LEMMA FillSteps ==
    ASSUME PowersOfBase, NEW m \in FillStates, NEW name \in Seq(ByteSet)
    PROVE  LET q == FillStep(m, name) IN
           /\ q \in FillStates
           /\ IF m.full \/ m.size + (4 + Len(name)) > MaxPayloadSize
              THEN q.s = m.s /\ q.size = m.size /\ q.count = m.count /\ q.full
              ELSE /\ q.s = WriteString(m.s, name) /\ q.size = m.size + (4 + Len(name))
                   /\ q.count = m.count + 1 /\ ~q.full
<1> DEFINE w == WriteString(m.s, name)  size == 4 + Len(name)
           v == m.size + size  c == m.count + 1
           full == [m EXCEPT !.full = TRUE]
           more == [m EXCEPT !.s = w, !.size = v, !.count = c]
<1>1. m.s \in Streams /\ m.size \in Nat /\ m.count \in Nat /\ m.full \in BOOLEAN
      /\ size \in Nat /\ v \in Nat /\ c \in Nat
  BY FillFields, LenProperties
<1>2. w \in Streams
  BY <1>1, WroteString
<1>3. FillStep(m, name) = IF m.full \/ v > MaxPayloadSize THEN full ELSE more
  BY Zenon DEF FillStep
<1> HIDE DEF w, v, c
<1>4. full \in FillStates /\ full.s = m.s /\ full.size = m.size /\ full.count = m.count /\ full.full = TRUE
  BY DEF FillStates
<1>5. more \in FillStates /\ more.s = w /\ more.size = v /\ more.count = c /\ more.full = m.full
  BY <1>1, <1>2 DEF FillStates
<1> HIDE DEF full, more
<1>6. CASE m.full \/ v > MaxPayloadSize
  BY <1>3, <1>4, <1>6, Zenon DEF v, size
<1>7. CASE ~ (m.full \/ v > MaxPayloadSize)
  BY <1>3, <1>5, <1>7, Zenon DEF v, w, c, size
<1> QED BY <1>6, <1>7

LEMMA FillMachine ==
    ASSUME PowersOfBase
    PROVE  IsMachine(Filling, FillStates, Seq(ByteSet)) /\ FillStart \in FillStates
<1>1. \A m \in FillStates, name \in Seq(ByteSet) : FillStep(m, name) \in FillStates
  BY FillSteps
<1>2. IsMachine(Filling, FillStates, Seq(ByteSet))
  BY <1>1 DEF IsMachine, Filling
<1>3. FillStart \in FillStates
  <2> DEFINE p == PrepareSendBuffer(Opcode.CMD_LIST)  q == WriteUInt(p, 0, 4)
  <2>1. Opcode.CMD_LIST \in Nat /\ 0 \in Nat /\ 4 \in Nat
    BY DEF Opcode
  <2>2. p \in Streams
    BY <2>1, Prepared
  <2> HIDE DEF p
  <2>3. q \in Streams
    BY <2>1, <2>2, NumberPut
  <2> HIDE DEF q
  <2>4. FillStart = [s |-> q, size |-> 0, count |-> 0, full |-> FALSE]
    BY Zenon DEF FillStart, q, p
  <2> QED BY <2>1, <2>3, <2>4 DEF FillStates
<1> QED BY <1>2, <1>3

LEMMA FillIsRun ==
    ASSUME PowersOfBase, NEW seq \in NameSeqs
    PROVE  Fill(seq) = Run(Filling, FillStart, seq, FillStates)
<1> DEFINE V == FillStates
           C == Seq(ByteSet)
           G == Filling
           base == FillStart
           Op(m, name) == FillStep(m, name)
           Step(g) == [u \in SUBSET DOMAIN seq |->
                         IF u = {} THEN base ELSE Op(g[u \ {Max(u)}], seq[Max(u)])]
           it == CHOOSE g : g = Step(g)
<1>1. Fill(seq) = it[DOMAIN seq]
  BY Zenon DEF Fill, FillStart, FillStep, FoldLeft, MapThenFoldSet
<1>2. IsMachine(G, V, C) /\ base \in V /\ seq \in Seq(C)
  BY FillMachine DEF NameSeqs
<1>0. ASSUME NEW m \in V, NEW name \in C PROVE G[m][name] = Op(m, name)
  BY DEF Filling
<1> HIDE DEF V, C, G, Op, base
<1>3. PICK h : Iterator(h, G, base, seq, V, C)
  BY <1>2, LeftIterator
<1>4. h = Step(h)
  <2>1. ASSUME NEW u \in SUBSET DOMAIN seq, u # {} PROVE h[u] = Op(h[u \ {Max(u)}], seq[Max(u)])
    BY <1>0, <1>3, <2>1, Zenon DEF Iterator
  <2>2. \A u \in SUBSET (DOMAIN seq) :
          h[u] = IF u = {} THEN base ELSE Op(h[u \ {Max(u)}], seq[Max(u)])
    BY <2>1, <1>3, Zenon DEF Iterator
  <2>3. h = [u \in SUBSET (DOMAIN seq) |-> h[u]]
    BY <1>3, Zenon DEF Iterator
  <2> QED BY <2>2, <2>3, Zenon
<1>5. it = Step(it)
  <2> HIDE DEF Step
  <2> QED BY <1>4
<1> HIDE DEF it
<1>6. Folding(it, G, base, seq, V)
  <2>1. it[{}] = base
    <3>1. {} \in SUBSET DOMAIN seq
      OBVIOUS
    <3> QED BY <3>1, <1>5, Zenon
  <2>2. ASSUME NEW u \in SUBSET DOMAIN seq, u # {}, it[u \ {Max(u)}] \in V
        PROVE  it[u] = G[it[u \ {Max(u)}]][seq[Max(u)]]
    <3>1. it[u] = Op(it[u \ {Max(u)}], seq[Max(u)])
      BY <1>5, <2>2
    <3> QED BY <3>1, <1>0, <1>3, <2>2, Zenon DEF Iterator
  <2> QED BY <2>1, <2>2 DEF Folding
<1> HIDE DEF Step
<1>7. it[DOMAIN seq] = Run(G, base, seq, V)
  BY <1>2, <1>6, LeftFolds
<1> QED BY <1>1, <1>7 DEF G, V, base

LEMMA FillLaws ==
    ASSUME PowersOfBase
    PROVE  /\ Fill(<<>>) = FillStart
           /\ \A names \in NameSeqs : Fill(names) \in FillStates
           /\ \A names \in NameSeqs, name \in Seq(ByteSet) :
                Fill(Append(names, name)) = FillStep(Fill(names), name)
<1> DEFINE V == FillStates  C == Seq(ByteSet)  G == Filling  base == FillStart
<1>0. IsMachine(G, V, C) /\ base \in V
  BY FillMachine
<1>1. Fill(<<>>) = base
  <2>1. <<>> \in NameSeqs
    BY EmptySeq DEF NameSeqs
  <2> HIDE DEF V, C, G, base
  <2>2. Run(G, base, <<>>, V) = base
    BY <1>0, RunEmpty, Zenon
  <2> QED BY <2>1, <2>2, FillIsRun, Zenon DEF G, V, base
<1>2. ASSUME NEW names \in NameSeqs PROVE Fill(names) \in V
  <2>1. names \in Seq(C)
    BY DEF NameSeqs
  <2> HIDE DEF V, C, G, base
  <2>2. Run(G, base, names, V) \in V
    BY <1>0, <2>1, RunType
  <2> QED BY <2>2, FillIsRun DEF G, V, base
<1>3. ASSUME NEW names \in NameSeqs, NEW name \in Seq(ByteSet)
      PROVE  Fill(Append(names, name)) = FillStep(Fill(names), name)
  <2>1. Append(names, name) \in NameSeqs /\ names \in Seq(C) /\ name \in C
    BY AppendProperties DEF NameSeqs
  <2>2. Run(G, base, Append(names, name), V) = G[Run(G, base, names, V)][name]
    <3> HIDE DEF V, C, G, base
    <3> QED BY <1>0, <2>1, RunAppend
  <2>3. Fill(Append(names, name)) = G[Fill(names)][name]
    BY <2>1, <2>2, FillIsRun, Zenon DEF G, V, base
  <2>4. \A m \in V : G[m][name] = FillStep(m, name)
    BY DEF Filling
  <2> QED BY <1>2, <2>3, <2>4, Zenon
<1> QED BY <1>1, <1>2, <1>3, Zenon

\* The first so many of the names lie one behind the other: f has where each of them ends.
NamesHeld(buf, f, names, count, end) ==
    /\ f \in [0..count -> Nat] /\ f[0] = Preamble + 5 /\ f[count] = end
    /\ \A c \in 1..count :
         /\ HoldsText(buf, f[c - 1], names[c]) /\ f[c] = f[c - 1] + 4 + Len(names[c])
         /\ f[c] <= end /\ f[c - 1] >= Preamble + 5

LEMMA NamesMore ==
    ASSUME NEW buf, NEW f, NEW names \in NameSeqs, NEW count \in 0..Len(names), NEW end,
           NamesHeld(buf, f, names, count, end), NEW name \in Seq(ByteSet)
    PROVE  NamesHeld(buf, f, Append(names, name), count, end)
<1>1. \A c \in 1..Len(names) : Append(names, name)[c] = names[c]
  BY AppendProperties DEF NameSeqs
<1>2. Len(names) \in Nat
  BY LenProperties DEF NameSeqs
<1>3. \A c \in 1..count : c \in 1..Len(names)
  BY <1>2
<1>4. \A c \in 1..count : Append(names, name)[c] = names[c]
  BY <1>1, <1>3, Zenon
<1> QED BY <1>4, Zenon DEF NamesHeld

LEMMA NamesKept ==
    ASSUME NEW buf, NEW new, NEW f, NEW names \in NameSeqs, NEW count \in 0..Len(names), NEW end,
           NamesHeld(buf, f, names, count, end),
           \A place \in Nat, str \in Seq(ByteSet) :
              place >= Preamble + 5 /\ place + 4 + Len(str) <= end /\ HoldsText(buf, place, str)
                  => HoldsText(new, place, str)
    PROVE  NamesHeld(new, f, names, count, end)
<1>1. Len(names) \in Nat /\ \A c \in 1..Len(names) : names[c] \in Seq(ByteSet)
  BY LenProperties, ElementOfSeq DEF NameSeqs
<1>2. ASSUME NEW c \in 1..count PROVE HoldsText(new, f[c - 1], names[c])
  <2>1. c \in 1..Len(names) /\ c - 1 \in 0..count
    BY <1>1
  <2>2. f \in [0..count -> Nat] /\ HoldsText(buf, f[c - 1], names[c])
        /\ f[c] = f[c - 1] + 4 + Len(names[c]) /\ f[c] <= end /\ f[c - 1] >= Preamble + 5
    BY Zenon DEF NamesHeld
  <2>3. names[c] \in Seq(ByteSet) /\ f[c - 1] \in Nat
    BY <1>1, <2>1, <2>2
  <2>4. f[c - 1] + 4 + Len(names[c]) <= end
    BY <2>2, Zenon
  <2> QED BY <2>2, <2>3, <2>4, Zenon
<1> QED BY <1>2, Zenon DEF NamesHeld

LEMMA NamesGrow ==
    ASSUME PowersOfBase, NEW s, NEW q, Puts(s, q), NEW names \in NameSeqs, NEW name \in Seq(ByteSet),
           NEW f, NEW count, count = Len(names),
           NamesHeld(s.buf, f, names, count, s.offset), s.offset >= Preamble + 5,
           HoldsText(q.buf, s.offset, name), q.offset = s.offset + 4 + Len(name)
    PROVE  \E g : NamesHeld(q.buf, g, Append(names, name), count + 1, q.offset)
<1> DEFINE g == [k \in 0..count + 1 |-> IF k <= count THEN f[k] ELSE q.offset]
           more == Append(names, name)
<1>1. /\ count \in Nat /\ \A c \in 1..count : names[c] \in Seq(ByteSet)
      /\ Preamble \in Nat
  BY LenProperties, ElementOfSeq, PreambleType DEF NameSeqs
<1>2. s.offset \in Nat /\ q.offset \in Nat /\ s.offset <= q.offset
  BY PutsFacts
<1>3. /\ more \in NameSeqs /\ Len(more) = count + 1 /\ more[count + 1] = name
      /\ \A c \in 1..count : more[c] = names[c]
  BY AppendProperties DEF NameSeqs
<1>4. f \in [0..count -> Nat] /\ f[0] = Preamble + 5 /\ f[count] = s.offset
  BY Zenon DEF NamesHeld
<1> HIDE DEF more
<1>5. g \in [0..count + 1 -> Nat] /\ \A k \in 0..count : g[k] = f[k]
  BY <1>1, <1>2, <1>4
<1>6. g[count + 1] = q.offset
  BY <1>1
<1> HIDE DEF g
<1>7. g[0] = Preamble + 5 /\ g[count] = s.offset
  BY <1>1, <1>4, <1>5
<1>8. ASSUME NEW c \in 1..count
      PROVE  /\ HoldsText(q.buf, g[c - 1], more[c]) /\ g[c] = g[c - 1] + 4 + Len(more[c])
             /\ g[c] <= q.offset /\ g[c - 1] >= Preamble + 5
  <2>1. /\ HoldsText(s.buf, f[c - 1], names[c]) /\ f[c] = f[c - 1] + 4 + Len(names[c])
        /\ f[c] <= s.offset /\ f[c - 1] >= Preamble + 5
    BY Zenon DEF NamesHeld
  <2>2. c \in 0..count /\ c - 1 \in 0..count
    BY <1>1
  <2>3. g[c] = f[c] /\ g[c - 1] = f[c - 1] /\ f[c] \in Nat /\ f[c - 1] \in Nat
    BY <1>4, <1>5, <2>2
  <2>4. names[c] \in Seq(ByteSet) /\ more[c] = names[c]
    BY <1>1, <1>3
  <2>5. f[c - 1] + 4 + Len(names[c]) <= s.offset
    BY <2>1, Zenon
  <2>6. HoldsText(q.buf, f[c - 1], names[c])
    BY <2>1, <2>3, <2>4, <2>5, PutsKeepText
  <2>7. f[c] <= q.offset
    BY <1>2, <2>1, <2>3
  <2> QED BY <2>1, <2>3, <2>4, <2>6, <2>7, Zenon
<1>9. ASSUME NEW c \in 1..count + 1
      PROVE  /\ HoldsText(q.buf, g[c - 1], more[c]) /\ g[c] = g[c - 1] + 4 + Len(more[c])
             /\ g[c] <= q.offset /\ g[c - 1] >= Preamble + 5
  <2>1. CASE c \in 1..count
    BY <1>8, <2>1, Zenon
  <2>2. CASE c = count + 1
    <3>1. c - 1 = count
      BY <1>1, <2>2
    <3>2. g[c - 1] = s.offset /\ g[c] = q.offset /\ more[c] = name
      BY <1>3, <1>6, <1>7, <2>2, <3>1, Zenon
    <3>3. g[c] <= q.offset
      BY <1>2, <3>2
    <3> QED BY <3>2, <3>3, Zenon
  <2>3. c \in 1..count \/ c = count + 1
    BY <1>1
  <2> QED BY <2>1, <2>2, <2>3
<1>10. NamesHeld(q.buf, g, more, count + 1, q.offset)
  BY <1>5, <1>6, <1>7, <1>9, Zenon DEF NamesHeld
<1> QED BY <1>10, Zenon DEF more

\* What a message holds while the names are put into it.
Filled(m, names) ==
    /\ m \in FillStates /\ ~m.s.thrown /\ Len(m.s.buf) = BufferSize
    /\ m.s.offset = Preamble + 5 + m.size /\ m.size <= MaxPayloadSize /\ m.count <= m.size
    /\ Started(m.s.buf, Opcode.CMD_LIST)
    /\ m.count \in 0..Len(names) /\ (~m.full => m.count = Len(names))
    /\ \E f : NamesHeld(m.s.buf, f, names, m.count, m.s.offset)
    /\ \A c \in 1..m.count : Fit(names[c])
    /\ m.count = 0 => m.size = 0 /\ (names # <<>> => ~Fit(names[1])) /\ (names = <<>> => ~m.full)

LEMMA FilledStart == ASSUME PowersOfBase PROVE Filled(FillStart, <<>>)
<1> DEFINE p == PrepareSendBuffer(Opcode.CMD_LIST)  q == WriteUInt(p, 0, 4)
           f == [k \in 0..0 |-> Preamble + 5]
<1>0. /\ Preamble \in Nat /\ BufferSize \in Nat /\ MaxPayloadSize \in Nat
      /\ Preamble + 5 + MaxPayloadSize <= BufferSize
  BY PreambleType
<1>1. Opcode.CMD_LIST \in Nat /\ 0 \in Nat /\ 4 \in Nat
  BY DEF Opcode
<1>2. /\ p \in Streams /\ ~p.thrown /\ p.offset = Preamble + 1 /\ Len(p.buf) = BufferSize
      /\ Started(p.buf, Opcode.CMD_LIST)
  BY <1>1, Prepared
<1> HIDE DEF p
<1>3. p.offset + 4 <= Len(p.buf) /\ p.offset >= Preamble + 1
  BY <1>0, <1>2
<1>4. q \in Streams /\ ~q.thrown /\ q.offset = p.offset + 4 /\ Puts(p, q)
  BY <1>1, <1>2, <1>3, NumberPuts
<1> HIDE DEF q
<1>5. q.offset = Preamble + 5 /\ Len(q.buf) = BufferSize
  BY <1>0, <1>2, <1>4, PutsFacts
<1>6. Started(q.buf, Opcode.CMD_LIST)
  BY <1>1, <1>2, <1>3, <1>4, PutsKeepStart
<1>7. NamesHeld(q.buf, f, <<>>, 0, q.offset)
  BY <1>0, <1>5 DEF NamesHeld
<1> HIDE DEF f
<1> DEFINE m == [s |-> q, size |-> 0, count |-> 0, full |-> FALSE]
<1>8. m \in FillStates /\ m = FillStart /\ m.s = q /\ m.size = 0 /\ m.count = 0 /\ m.full = FALSE
  <2>1. m = FillStart
    BY Zenon DEF FillStart, q, p
  <2>2. m \in FillStates /\ m.s = q /\ m.size = 0 /\ m.count = 0 /\ m.full = FALSE
    BY <1>4 DEF FillStates
  <2> QED BY <2>1, <2>2
<1> HIDE DEF m
<1>9. Len(<<>>) = 0
  BY EmptySeq
<1>10. /\ m.s.offset = Preamble + 5 + m.size /\ m.size <= MaxPayloadSize /\ m.count <= m.size
       /\ m.count \in 0..0 /\ 1..m.count = {} /\ m.count <= m.size
  BY <1>0, <1>5, <1>8
<1> QED BY <1>4, <1>5, <1>6, <1>7, <1>8, <1>9, <1>10, Zenon DEF Filled

LEMMA FilledMore ==
    ASSUME PowersOfBase, NEW m, NEW names \in NameSeqs, Filled(m, names), NEW name \in Seq(ByteSet)
    PROVE  Filled(FillStep(m, name), Append(names, name))
<1> DEFINE q == FillStep(m, name)  more == Append(names, name)  size == 4 + Len(name)  N == Len(names)
<1>0. /\ Preamble \in Nat /\ BufferSize \in Nat /\ MaxPayloadSize \in Nat
      /\ Preamble + 5 + MaxPayloadSize <= BufferSize
  BY PreambleType
<1>1. N \in Nat /\ size \in Nat /\ Len(name) \in Nat
  BY LenProperties DEF NameSeqs
<1>2. /\ more \in NameSeqs /\ Len(more) = N + 1 /\ more[N + 1] = name /\ more # <<>>
      /\ \A c \in 1..N : more[c] = names[c]
  BY AppendProperties DEF NameSeqs
<1>3. /\ m \in FillStates /\ ~m.s.thrown /\ Len(m.s.buf) = BufferSize
      /\ m.s.offset = Preamble + 5 + m.size /\ m.size <= MaxPayloadSize /\ m.count <= m.size
      /\ Started(m.s.buf, Opcode.CMD_LIST)
      /\ m.count \in 0..N /\ (~m.full => m.count = N)
      /\ \A c \in 1..m.count : Fit(names[c])
      /\ m.count = 0 => m.size = 0 /\ (names # <<>> => ~Fit(names[1])) /\ (names = <<>> => ~m.full)
  BY Zenon DEF Filled
<1>4. m.s \in Streams /\ m.size \in Nat /\ m.count \in Nat /\ m.full \in BOOLEAN
  BY <1>3, FillFields
<1>5. PICK f : NamesHeld(m.s.buf, f, names, m.count, m.s.offset)
  BY Zenon DEF Filled
<1>6. /\ q \in FillStates
      /\ IF m.full \/ m.size + size > MaxPayloadSize
         THEN q.s = m.s /\ q.size = m.size /\ q.count = m.count /\ q.full
         ELSE /\ q.s = WriteString(m.s, name) /\ q.size = m.size + size
              /\ q.count = m.count + 1 /\ ~q.full
  BY <1>3, FillSteps
<1>7. Fit(name) <=> size <= MaxPayloadSize
  BY Zenon DEF Fit
<1> HIDE DEF q, more, size, N
<1>8. CASE m.full \/ m.size + size > MaxPayloadSize
  <2>1. q.s = m.s /\ q.size = m.size /\ q.count = m.count /\ q.full
    BY <1>6, <1>8, Zenon
  <2>2. NamesHeld(m.s.buf, f, more, m.count, m.s.offset)
    BY <1>3, <1>5, NamesMore DEF more, N
  <2>3. m.count \in 0..N + 1
    BY <1>1, <1>3
  <2>4. ASSUME NEW c \in 1..m.count PROVE Fit(more[c])
    <3>1. c \in 1..N
      BY <1>1, <1>3
    <3>2. more[c] = names[c] /\ Fit(names[c])
      BY <1>2, <1>3, <3>1, Zenon
    <3> QED BY <3>2, Zenon
  <2>5. ASSUME m.count = 0 PROVE m.size = 0 /\ ~Fit(more[1])
    <3>1. CASE names = <<>>
      <4>1. N = 0 /\ ~m.full
        BY <1>3, <2>5, <3>1, EmptySeq DEF N
      <4>2. more[1] = name /\ size > MaxPayloadSize
        BY <1>2, <1>3, <1>8, <1>1, <2>5, <4>1
      <4> QED BY <1>0, <1>1, <1>3, <1>7, <2>5, <4>2
    <3>2. CASE names # <<>>
      <4>1. N # 0
        BY <3>2, EmptySeq DEF N, NameSeqs
      <4>2. 1 \in 1..N
        BY <4>1, <1>1
      <4> QED BY <1>2, <1>3, <2>5, <3>2, <4>2, Zenon
    <3> QED BY <3>1, <3>2
  <2>6. /\ ~q.s.thrown /\ Len(q.s.buf) = BufferSize /\ Started(q.s.buf, Opcode.CMD_LIST)
        /\ q.s.offset = Preamble + 5 + q.size /\ q.size <= MaxPayloadSize /\ q.count <= q.size
    BY <1>3, <2>1, Zenon
  <2>7. q.count \in 0..Len(more) /\ q.full
    BY <1>2, <2>1, <2>3, Zenon
  <2>8. NamesHeld(q.s.buf, f, more, q.count, q.s.offset)
    BY <2>1, <2>2, Zenon
  <2>9. \A c \in 1..q.count : Fit(more[c])
    BY <2>1, <2>4, Zenon
  <2>10. q.count = 0 => q.size = 0 /\ ~Fit(more[1])
    BY <2>1, <2>5, Zenon
  <2>11. Filled(q, more)
    BY <1>2, <1>6, <2>6, <2>7, <2>8, <2>9, <2>10, Zenon DEF Filled
  <2> QED BY <2>11, Zenon DEF q, more
<1>9. CASE ~ (m.full \/ m.size + size > MaxPayloadSize)
  <2>1. q.s = WriteString(m.s, name) /\ q.size = m.size + size /\ q.count = m.count + 1 /\ ~q.full
    BY <1>6, <1>9, Zenon
  <2>2. m.count = N /\ m.size + size <= MaxPayloadSize
    BY <1>0, <1>1, <1>3, <1>4, <1>9
  <2>3. m.s.offset + size <= BufferSize /\ Len(name) + 4 = size /\ m.s.offset \in Nat
    BY <1>0, <1>1, <1>3, <1>4, <2>2 DEF size
  <2>4. Len(name) < Base ^ 4 - 1
    <3> DEFINE B == Base ^ 4
    <3>1. B \in Nat /\ BufferSize + 1 < B
      BY Zenon, ProtocolAssumption DEF PowersOfBase
    <3> HIDE DEF B
    <3>2. Len(name) < B - 1
      BY <1>0, <1>1, <2>3, <3>1
    <3> QED BY <3>2, Zenon DEF B
  <2>5. /\ q.s \in Streams /\ ~q.s.thrown /\ q.s.offset = m.s.offset + 4 + Len(name)
        /\ HoldsText(q.s.buf, m.s.offset, name) /\ Puts(m.s, q.s)
    <3>1. m.s.offset + 4 + Len(name) <= Len(m.s.buf)
      BY <1>1, <1>3, <2>3
    <3>2. m.s \in Streams /\ ~m.s.thrown
      BY <1>3, <1>4
    <3> QED BY <2>1, <2>4, <3>1, <3>2, StringPuts
  <2>6. Len(q.s.buf) = BufferSize
    BY <1>3, <2>5, PutsFacts
  <2>7. q.s.offset = Preamble + 5 + q.size /\ q.size <= MaxPayloadSize /\ q.count <= q.size
    <3>1. q.s.offset = Preamble + 5 + q.size
      BY <1>0, <1>1, <1>3, <1>4, <2>1, <2>3, <2>5
    <3>2. q.size <= MaxPayloadSize /\ q.count <= q.size
      BY <1>1, <1>3, <1>4, <2>1, <2>2, <2>3
    <3> QED BY <3>1, <3>2
  <2>8. m.s.offset >= Preamble + 5 /\ m.s.offset >= Preamble + 1 /\ Opcode.CMD_LIST \in Nat
    BY <1>0, <1>3, <1>4 DEF Opcode
  <2>9. Started(q.s.buf, Opcode.CMD_LIST)
    BY <1>3, <2>5, <2>8, PutsKeepStart
  <2>10. \E g : NamesHeld(q.s.buf, g, more, q.count, q.s.offset)
    <3>1. \E g : NamesHeld(q.s.buf, g, more, m.count + 1, q.s.offset)
      BY <1>5, <2>2, <2>5, <2>8, NamesGrow DEF more, N
    <3> QED BY <3>1, <2>1, Zenon
  <2>11. q.count = Len(more) /\ q.count \in 0..Len(more) /\ q.count # 0
    BY <1>1, <1>2, <2>1, <2>2
  <2>12. ASSUME NEW c \in 1..q.count PROVE Fit(more[c])
    <3>1. CASE c \in 1..N
      <4>1. more[c] = names[c] /\ Fit(names[c])
        BY <1>2, <1>3, <2>2, <3>1, Zenon
      <4> QED BY <4>1, Zenon
    <3>2. CASE c = N + 1
      <4>1. size <= MaxPayloadSize
        BY <1>0, <1>1, <1>4, <2>2
      <4> QED BY <1>2, <1>7, <3>2, <4>1, Zenon
    <3>3. c \in 1..N \/ c = N + 1
      BY <1>1, <2>1, <2>2
    <3> QED BY <3>1, <3>2, <3>3
  <2>13. Filled(q, more)
    BY <1>6, <2>5, <2>6, <2>7, <2>9, <2>10, <2>11, <2>12, Zenon DEF Filled
  <2> QED BY <2>13, Zenon DEF q, more
<1> QED BY <1>8, <1>9

\* Each message is filled as far as it can be.
LEMMA FilledRight ==
    ASSUME PowersOfBase, NEW names \in NameSeqs
    PROVE  Filled(Fill(names), names)
<1> DEFINE C == Seq(ByteSet)
           T == {ns \in Seq(C) : Filled(Fill(ns), ns)}
<1>1. <<>> \in T
  BY FillLaws, FilledStart, EmptySeq, Zenon
<1>2. ASSUME NEW ns \in T, NEW name \in C PROVE Append(ns, name) \in T
  <2>1. ns \in NameSeqs /\ Filled(Fill(ns), ns)
    BY DEF NameSeqs
  <2>2. Fill(Append(ns, name)) = FillStep(Fill(ns), name)
    BY <2>1, FillLaws, Zenon
  <2>3. Filled(FillStep(Fill(ns), name), Append(ns, name))
    BY <2>1, FilledMore
  <2>4. Append(ns, name) \in Seq(C)
    BY <2>1, AppendProperties DEF NameSeqs
  <2> QED BY <2>2, <2>3, <2>4, Zenon
<1>3. T \in SUBSET Seq(C)
  OBVIOUS
<1> HIDE DEF T, C
<1>4. T = Seq(C)
  BY <1>1, <1>2, <1>3, SeqInduction
<1>5. names \in T
  BY <1>4, Zenon DEF NameSeqs, C
<1> QED BY <1>5 DEF T

\* The places of so many names, each with its length.
SumOf(names) == 4 * Len(names) + Len(FlattenSeq(names))

LEMMA SumMore ==
    /\ SumOf(<<>>) = 0
    /\ \A names \in NameSeqs, name \in Seq(ByteSet) :
         /\ SumOf(names) \in Nat /\ Append(names, name) \in NameSeqs
         /\ SumOf(Append(names, name)) = SumOf(names) + (4 + Len(name))
<1>1. FlattenSeq(<<>>) = <<>> /\ Len(<<>>) = 0
  BY FlatLaws, EmptySeq, Zenon
<1>2. SumOf(<<>>) = 0
  <2> DEFINE a == Len(<<>>)
  <2>1. SumOf(<<>>) = 4 * a + a /\ a = 0
    BY <1>1, Zenon DEF SumOf
  <2> HIDE DEF a
  <2> QED BY <2>1
<1>3. ASSUME NEW names \in NameSeqs, NEW name \in Seq(ByteSet)
      PROVE  /\ SumOf(names) \in Nat /\ Append(names, name) \in NameSeqs
             /\ SumOf(Append(names, name)) = SumOf(names) + (4 + Len(name))
  <2> DEFINE more == Append(names, name)  flat == FlattenSeq(names)
             a == Len(names)  b == Len(flat)  c == Len(name)
  <2>1. more \in NameSeqs /\ Len(more) = a + 1 /\ names \in Seq(Seq(ByteSet))
    BY AppendProperties DEF NameSeqs
  <2>2. flat \in Seq(ByteSet) /\ FlattenSeq(more) = flat \o name
    BY <2>1, FlatLaws, Zenon
  <2> HIDE DEF more, flat
  <2>3. Len(flat \o name) = b + c
    BY <2>2, ConcatProperties
  <2>4. a \in Nat /\ b \in Nat /\ c \in Nat
    BY <2>1, <2>2, LenProperties
  <2> HIDE DEF a, b, c
  <2>5. SumOf(names) = 4 * a + b /\ SumOf(more) = 4 * (a + 1) + (b + c)
    BY <2>1, <2>2, <2>3, Zenon DEF SumOf, a, b, flat
  <2>6. SumOf(names) \in Nat /\ SumOf(more) = SumOf(names) + (4 + c)
    BY <2>4, <2>5
  <2> QED BY <2>1, <2>6, Zenon DEF more, c
<1> QED BY <1>2, <1>3, Zenon

\* A message is full only if the names have more places than the limit.
LEMMA FillSize ==
    ASSUME PowersOfBase, NEW names \in NameSeqs
    PROVE  IF Fill(names).full THEN SumOf(names) > MaxPayloadSize
           ELSE Fill(names).size = SumOf(names)
<1> DEFINE C == Seq(ByteSet)
           Sized(ns) == IF Fill(ns).full THEN SumOf(ns) > MaxPayloadSize
                        ELSE Fill(ns).size = SumOf(ns)
           T == {ns \in Seq(C) : Sized(ns)}
<1>0. MaxPayloadSize \in Nat
  BY PreambleType
<1>1. <<>> \in T
  <2>1. Fill(<<>>) = FillStart /\ SumOf(<<>>) = 0
    BY FillLaws, SumMore, Zenon
  <2>2. FillStart.full = FALSE /\ FillStart.size = 0
    BY DEF FillStart
  <2>3. Sized(<<>>)
    BY <2>1, <2>2, Zenon
  <2>4. <<>> \in Seq(C)
    BY EmptySeq
  <2> HIDE DEF Sized, C
  <2> QED BY <2>3, <2>4
<1>2. ASSUME NEW ns \in T, NEW name \in C PROVE Append(ns, name) \in T
  <2> DEFINE m == Fill(ns)  q == FillStep(m, name)  size == 4 + Len(name)  more == Append(ns, name)
             u == SumOf(ns)  w == SumOf(more)
  <2>1. ns \in NameSeqs /\ Sized(ns) /\ name \in Seq(ByteSet)
    BY DEF NameSeqs
  <2>2. m \in FillStates /\ Fill(more) = q
    BY <2>1, FillLaws, Zenon
  <2>3. u \in Nat /\ w = u + size /\ more \in NameSeqs
    BY <2>1, SumMore, Zenon
  <2>4. IF m.full THEN u > MaxPayloadSize ELSE m.size = u
    BY <2>1, Zenon
  <2> HIDE DEF m
  <2>5. /\ m.full \in BOOLEAN /\ m.size \in Nat
        /\ IF m.full \/ m.size + size > MaxPayloadSize THEN q.full
           ELSE q.size = m.size + size /\ ~q.full
    BY <2>1, <2>2, FillSteps, FillFields
  <2>6. size \in Nat
    BY <2>1, LenProperties
  <2> HIDE DEF q, u, w, size, more
  <2>7. IF q.full THEN w > MaxPayloadSize ELSE q.size = w
    <3>1. CASE m.full
      BY <1>0, <2>3, <2>4, <2>5, <2>6, <3>1
    <3>2. CASE ~m.full /\ m.size + size > MaxPayloadSize
      BY <1>0, <2>3, <2>4, <2>5, <2>6, <3>2
    <3>3. CASE ~m.full /\ ~(m.size + size > MaxPayloadSize)
      BY <1>0, <2>3, <2>4, <2>5, <2>6, <3>3
    <3> QED BY <3>1, <3>2, <3>3
  <2>8. Sized(more)
    BY <2>2, <2>7, Zenon DEF w
  <2>9. more \in Seq(C)
    BY <2>3 DEF NameSeqs
  <2> HIDE DEF Sized, C
  <2>10. more \in T
    BY <2>8, <2>9
  <2> QED BY <2>10, Zenon DEF more
<1>3. T \in SUBSET Seq(C)
  OBVIOUS
<1> HIDE DEF T, C
<1>4. T = Seq(C)
  BY <1>1, <1>2, <1>3, SeqInduction
<1>5. names \in T
  BY <1>4, Zenon DEF NameSeqs, C
<1> QED BY <1>5 DEF T
-----------------------------------------------------------------------------
(* The names are read one behind the other. *)

ReadsText == [s \in Streams |-> [k \in Nat |-> ReadString(s)]]

LEMMA ReadsTextStepper == IsStepper(ReadsText, Nat)
<1>1. ASSUME NEW s \in Streams PROVE ReadString(s) \in Streams
  <2> DEFINE r == ReadUInt(s, 4)
  <2>0. 4 \in Nat
    OBVIOUS
  <2>1. r \in Streams /\ (~r.thrown => r.val \in Nat)
    BY <2>0, ReadsNumber
  <2> HIDE DEF r
  <2>2. ReadString(s) = IF r.thrown THEN r ELSE ReadBytes(r, r.val)
    BY Zenon DEF ReadString, r
  <2>3. CASE r.thrown
    BY <2>1, <2>2, <2>3, Zenon
  <2>4. CASE ~r.thrown
    <3>1. ReadBytes(r, r.val) \in Streams
      BY <2>1, <2>4, ReadsBytes
    <3> QED BY <2>2, <2>4, <3>1, Zenon
  <2> QED BY <2>3, <2>4
<1> QED BY <1>1 DEF IsStepper, ReadsText

ReadTexts(s, seq) == FoldLeft(LAMBDA done, k : Append(done, ReadString(Last(done))), <<s>>, seq)

LEMMA TextsAreRun ==
    ASSUME NEW s \in Streams, NEW seq \in Seq(Nat)
    PROVE  ReadTexts(s, seq) = Run(Logging(ReadsText, Nat), <<s>>, seq, Logs)
<1> DEFINE V == Logs
           C == Nat
           G == Logging(ReadsText, Nat)
           base == <<s>>
           Op(done, k) == Append(done, ReadString(Last(done)))
           Step(g) == [u \in SUBSET DOMAIN seq |->
                         IF u = {} THEN base ELSE Op(g[u \ {Max(u)}], seq[Max(u)])]
           it == CHOOSE g : g = Step(g)
<1>1. ReadTexts(s, seq) = it[DOMAIN seq]
  BY Zenon DEF ReadTexts, FoldLeft, MapThenFoldSet
<1>2. IsMachine(G, V, C) /\ base \in V /\ seq \in Seq(C)
  <2>1. base \in Seq(Streams) /\ base # <<>>
    OBVIOUS
  <2> QED BY <2>1, ReadsTextStepper, LogMachine DEF Logs
<1>0. ASSUME NEW log \in V, NEW k \in C PROVE G[log][k] = Op(log, k)
  <2>1. Last(log) \in Streams
    BY LogFacts
  <2>2. G[log][k] = Append(log, ReadsText[Last(log)][k])
    BY Zenon DEF Logging
  <2>3. \A q \in Streams : ReadsText[q][k] = ReadString(q)
    BY Zenon DEF ReadsText
  <2> QED BY <2>1, <2>2, <2>3, Zenon
<1> HIDE DEF V, C, G, Op, base
<1>3. PICK h : Iterator(h, G, base, seq, V, C)
  BY <1>2, LeftIterator
<1>4. h = Step(h)
  <2>1. ASSUME NEW u \in SUBSET DOMAIN seq, u # {} PROVE h[u] = Op(h[u \ {Max(u)}], seq[Max(u)])
    BY <1>0, <1>3, <2>1, Zenon DEF Iterator
  <2>2. \A u \in SUBSET (DOMAIN seq) :
          h[u] = IF u = {} THEN base ELSE Op(h[u \ {Max(u)}], seq[Max(u)])
    BY <2>1, <1>3, Zenon DEF Iterator
  <2>3. h = [u \in SUBSET (DOMAIN seq) |-> h[u]]
    BY <1>3, Zenon DEF Iterator
  <2> QED BY <2>2, <2>3, Zenon
<1>5. it = Step(it)
  <2> HIDE DEF Step
  <2> QED BY <1>4
<1> HIDE DEF it
<1>6. Folding(it, G, base, seq, V)
  <2>1. it[{}] = base
    <3>1. {} \in SUBSET DOMAIN seq
      OBVIOUS
    <3> QED BY <3>1, <1>5, Zenon
  <2>2. ASSUME NEW u \in SUBSET DOMAIN seq, u # {}, it[u \ {Max(u)}] \in V
        PROVE  it[u] = G[it[u \ {Max(u)}]][seq[Max(u)]]
    <3>1. it[u] = Op(it[u \ {Max(u)}], seq[Max(u)])
      BY <1>5, <2>2
    <3> QED BY <3>1, <1>0, <1>3, <2>2, Zenon DEF Iterator
  <2> QED BY <2>1, <2>2 DEF Folding
<1> HIDE DEF Step
<1>7. it[DOMAIN seq] = Run(G, base, seq, V)
  BY <1>2, <1>6, LeftFolds
<1> QED BY <1>1, <1>7 DEF G, V, base

\* What is read of the names that lie there.
LEMMA TextsRead ==
    ASSUME PowersOfBase, NEW bytes \in Seq(ByteSet), Len(bytes) <= BufferSize,
           NEW names \in NameSeqs, NEW count \in 0..Len(names), NEW f, NEW end, end \in Nat,
           end <= Len(bytes),
           NamesHeld(bytes, f, names, count, end),
           NEW s \in Streams, ~s.thrown, s.buf = bytes, s.offset = Preamble + 5
    PROVE  \A k \in 1..count : ReadTexts(s, [i \in 1..count |-> i])[k + 1].val = names[k]
<1> DEFINE seq == [i \in 1..count |-> i]  log == ReadTexts(s, seq)
<1>0. Len(names) \in Nat /\ Preamble \in Nat /\ Len(bytes) \in Nat /\ BufferSize \in Nat
      /\ \A c \in 1..Len(names) : names[c] \in Seq(ByteSet) /\ Len(names[c]) \in Nat
  BY LenProperties, PreambleType, ElementOfSeq DEF NameSeqs
<1>1. count \in Nat /\ \A k \in 1..count : k \in 1..Len(names)
  BY <1>0
<1>2. seq \in Seq(Nat) /\ Len(seq) = count /\ \A i \in 1..count : seq[i] = i
  BY <1>1
<1> HIDE DEF seq
<1>3. \A k \in 1..count : log[k + 1] = ReadsText[log[k]][seq[k]]
  <2>1. IsStepper(ReadsText, Nat)
    BY ReadsTextStepper
  <2>2. Logged(log, ReadsText, s, seq)
    BY <1>2, <2>1, LogsRight, TextsAreRun, Zenon
  <2> HIDE DEF log
  <2> QED BY <1>2, <2>2, Zenon DEF Logged
<1>4. log[1] = s
  <2>1. IsStepper(ReadsText, Nat)
    BY ReadsTextStepper
  <2>2. Logged(log, ReadsText, s, seq)
    BY <1>2, <2>1, LogsRight, TextsAreRun, Zenon
  <2> HIDE DEF log
  <2> QED BY <1>2, <2>2, Zenon DEF Logged
<1> HIDE DEF log
<1>5. /\ f \in [0..count -> Nat] /\ f[0] = Preamble + 5
      /\ \A c \in 1..count :
           /\ HoldsText(bytes, f[c - 1], names[c]) /\ f[c] = f[c - 1] + 4 + Len(names[c])
           /\ f[c] <= end
  BY Zenon DEF NamesHeld
<1> DEFINE At(k) == log[k + 1] \in Streams /\ ~log[k + 1].thrown /\ log[k + 1].buf = bytes
                    /\ log[k + 1].offset = f[k]
           T == {k \in Nat : k <= count => At(k)}
<1>6. ASSUME NEW k \in 1..count, At(k - 1)
      PROVE  At(k) /\ log[k + 1].val = names[k]
  <2> DEFINE q == log[k]  name == names[k]
  <2>1. (k - 1) + 1 = k /\ k \in 1..Len(names) /\ k - 1 \in 0..count /\ k \in 0..count
    BY <1>1
  <2>2. q \in Streams /\ ~q.thrown /\ q.buf = bytes /\ q.offset = f[k - 1]
    BY <1>6, <2>1
  <2>3. name \in Seq(ByteSet) /\ Len(name) \in Nat
    BY <1>0, <2>1
  <2>4. HoldsText(bytes, f[k - 1], name) /\ f[k] = f[k - 1] + 4 + Len(name) /\ f[k] <= end
    BY <1>5, Zenon
  <2>5. f[k - 1] \in Nat /\ f[k] \in Nat
    BY <1>5, <2>1
  <2>6. Len(name) < Base ^ 4
    <3> DEFINE B == Base ^ 4  n == Len(name)  a == f[k - 1]  b == f[k]
    <3>1. B \in Nat /\ BufferSize + 1 < B
      BY Zenon, ProtocolAssumption DEF PowersOfBase
    <3>2. n \in Nat /\ a \in Nat /\ b \in Nat /\ b = a + 4 + n /\ b <= end
      BY <2>3, <2>4, <2>5, Zenon
    <3> HIDE DEF B, n, a, b
    <3>3. n < B
      BY <1>0, <3>1, <3>2
    <3> QED BY <3>3, Zenon DEF B, n
  <2>7. log[k + 1] = ReadString(q)
    <3>1. log[k + 1] = ReadsText[q][seq[k]] /\ seq[k] \in Nat
      BY <1>2, <1>3
    <3> QED BY <2>2, <3>1, Zenon DEF ReadsText
  <2> HIDE DEF q, name
  <2> DEFINE r == ReadString(q)
  <2>8. HoldsText(q.buf, q.offset, name)
    BY <2>2, <2>4, Zenon
  <2>9. /\ r \in Streams /\ ~r.thrown /\ r.buf = q.buf
        /\ r.offset = q.offset + 4 + Len(name) /\ r.val = name
    BY <2>2, <2>3, <2>6, <2>8, GetString
  <2> HIDE DEF r
  <2>10. r.offset = f[k] /\ log[k + 1] = r
    BY <2>2, <2>4, <2>7, <2>9, Zenon DEF r
  <2> QED BY <2>2, <2>9, <2>10, Zenon DEF name
<1>7. 0 \in T
  BY <1>4, <1>5
<1>8. ASSUME NEW k \in T PROVE k + 1 \in T
  <2> SUFFICES ASSUME k + 1 <= count PROVE At(k + 1)
    OBVIOUS
  <2>1. k + 1 \in 1..count /\ (k + 1) - 1 = k /\ k <= count
    BY <1>1
  <2>2. At((k + 1) - 1)
    <3>1. At(k)
      BY <2>1
    <3> HIDE DEF At
    <3> QED BY <2>1, <3>1
  <2> HIDE DEF At
  <2> QED BY <1>6, <2>1, <2>2
<1>9. \A k \in Nat : k <= count => At(k)
  <2>1. T \in SUBSET Nat
    OBVIOUS
  <2> HIDE DEF T
  <2>2. T = Nat
    BY <1>7, <1>8, <2>1, Induction
  <2> QED BY <2>2 DEF T
<1>10. ASSUME NEW k \in 1..count PROVE log[k + 1].val = names[k]
  <2>1. k - 1 \in Nat /\ k - 1 <= count
    BY <1>1
  <2> HIDE DEF At
  <2>2. At(k - 1)
    BY <1>9, <2>1
  <2> QED BY <1>6, <2>2
<1> QED BY <1>10, Zenon DEF log, seq

LEMMA FilledFacts ==
    ASSUME NEW m, NEW names \in NameSeqs, Filled(m, names)
    PROVE  /\ m.s \in Streams /\ ~m.s.thrown /\ Len(m.s.buf) = BufferSize /\ m.s.buf \in Seq(ByteSet)
           /\ m.s.offset = Preamble + 5 + m.size /\ m.size <= MaxPayloadSize /\ m.count <= m.size
           /\ m.s.offset \in Nat /\ m.s.offset <= BufferSize
           /\ Started(m.s.buf, Opcode.CMD_LIST) /\ m.count \in Nat /\ m.size \in Nat
           /\ m.count \in 0..Len(names) /\ Len(names) \in Nat
<1>1. m \in FillStates
  BY Zenon DEF Filled
<1>2. m.s \in Streams /\ m.size \in Nat /\ m.count \in Nat
  BY <1>1, FillFields
<1>3. m.s.buf \in Seq(ByteSet) /\ m.s.offset \in Nat /\ m.s.offset <= Len(m.s.buf)
  BY <1>2, StreamFields
<1>4. Len(names) \in Nat
  BY LenProperties DEF NameSeqs
<1> QED BY <1>2, <1>3, <1>4, Zenon DEF Filled

\* The number of the names is put into its place.
LEMMA Counted ==
    ASSUME PowersOfBase, NEW m, NEW names \in NameSeqs, Filled(m, names)
    PROVE  LET q == WithCount(m) IN
           /\ q \in Streams /\ ~q.thrown /\ q.offset = m.s.offset /\ Started(q.buf, Opcode.CMD_LIST)
           /\ Holds(q.buf, Preamble + 1, Digits(m.count, 4))
           /\ \E f : NamesHeld(q.buf, f, names, m.count, m.s.offset)
<1> DEFINE P == Preamble  p == SeekAbsolute(m.s, Len(Magic) + 5)  r == WriteUInt(p, m.count, 4)
           q == SeekAbsolute(r, m.s.offset)
<1>0. /\ P \in Nat /\ BufferSize \in Nat /\ MaxPayloadSize \in Nat
      /\ P + 5 + MaxPayloadSize <= BufferSize /\ 4 \in Nat /\ Len(Magic) + 5 = P + 1
      /\ Opcode.CMD_LIST \in Nat
  BY PreambleType DEF Opcode
<1>1. /\ m.s \in Streams /\ ~m.s.thrown /\ Len(m.s.buf) = BufferSize /\ m.s.buf \in Seq(ByteSet)
      /\ m.s.offset = P + 5 + m.size /\ m.s.offset \in Nat /\ m.s.offset <= BufferSize
      /\ Started(m.s.buf, Opcode.CMD_LIST) /\ m.count \in Nat /\ m.size \in Nat
      /\ m.count \in 0..Len(names)
  BY FilledFacts
<1>2. WithCount(m) = q
  BY Zenon DEF WithCount
<1> HIDE DEF P
<1>3. p \in Streams /\ ~p.thrown /\ p.buf = m.s.buf /\ p.offset = P + 1
  <2>1. P + 1 \in Nat /\ P + 1 <= Len(m.s.buf)
    BY <1>0, <1>1
  <2>2. p = SeekAbsolute(m.s, P + 1)
    BY <1>0, Zenon
  <2> HIDE DEF p
  <2> QED BY <1>1, <2>1, <2>2, Sought
<1> HIDE DEF p
<1>4. /\ r \in Streams /\ ~r.thrown /\ r.offset = P + 5
      /\ Holds(r.buf, P + 1, Digits(m.count, 4)) /\ Outside(m.s.buf, r.buf, P + 1, P + 5)
  <2>1. p.offset + 4 <= Len(p.buf)
    BY <1>0, <1>1, <1>3
  <2>2. /\ r \in Streams /\ ~r.thrown /\ r.offset = p.offset + 4
        /\ Holds(r.buf, p.offset, Digits(m.count, 4)) /\ Outside(p.buf, r.buf, p.offset, r.offset)
    BY <1>0, <1>1, <1>3, <2>1, PutNumber
  <2> HIDE DEF r
  <2>3. r.offset = P + 5
    BY <1>0, <1>3, <2>2
  <2> QED BY <1>3, <2>2, <2>3, Zenon
<1> HIDE DEF r
<1>5. Len(r.buf) = BufferSize /\ r.buf \in Seq(ByteSet)
  BY <1>1, <1>4, Zenon DEF Outside
<1>6. q \in Streams /\ ~q.thrown /\ q.buf = r.buf /\ q.offset = m.s.offset
  <2>1. m.s.offset <= Len(r.buf)
    BY <1>1, <1>5, Zenon
  <2> QED BY <1>1, <1>4, <2>1, Sought
<1> HIDE DEF q
<1>7. P + 1 \in Nat /\ P + 5 \in Nat /\ P + 1 >= P + 1
  BY <1>0
<1>8. Started(r.buf, Opcode.CMD_LIST)
  BY <1>0, <1>1, <1>4, <1>7, StartedOutside DEF P
<1>9. PICK f : NamesHeld(m.s.buf, f, names, m.count, m.s.offset)
  BY Zenon DEF Filled
<1>10. ASSUME NEW place \in Nat, NEW str \in Seq(ByteSet), place >= P + 5, HoldsText(m.s.buf, place, str)
       PROVE  HoldsText(r.buf, place, str)
  BY <1>1, <1>4, <1>7, <1>10, TextHeldOutside
<1>11. NamesHeld(r.buf, f, names, m.count, m.s.offset)
  <2>1. \A place \in Nat, str \in Seq(ByteSet) :
           place >= Preamble + 5 /\ place + 4 + Len(str) <= m.s.offset /\ HoldsText(m.s.buf, place, str)
              => HoldsText(r.buf, place, str)
    BY <1>10 DEF P
  <2> QED BY <1>1, <1>9, <2>1, NamesKept
<1> QED BY <1>2, <1>4, <1>6, <1>8, <1>11, Zenon DEF P

\* A message of the list is a datagram with the first names that are left.
LEMMA MessageRight ==
    ASSUME PowersOfBase, Opcode.CMD_LIST < Base ^ 1, NEW names \in NameSeqs, NEW big \in BOOLEAN
    PROVE  LET m == Fill(names)  bytes == SendBuffer(WithCount(m)) IN
           /\ bytes \in Seq(ByteSet) /\ Framed(bytes, big)
           /\ Body(bytes, big).val = Opcode.CMD_LIST /\ Header(bytes, big).val = m.size + 5
           /\ NamesIn(bytes, big) = [k \in 1..m.count |-> names[k]]
<1> DEFINE m == Fill(names)  q == WithCount(m)  bytes == SendBuffer(q)  P == Preamble
           n == m.size + 5  ds == Digits(m.count, 4)  e == m.s.offset
<1>0. /\ P \in Nat /\ BufferSize \in Nat /\ MaxPayloadSize \in Nat
      /\ P + 5 + MaxPayloadSize <= BufferSize /\ 4 \in Nat /\ Opcode.CMD_LIST \in Nat
  BY PreambleType DEF Opcode
<1>1. Filled(m, names)
  BY FilledRight
<1> HIDE DEF m
<1>2. /\ e = P + 5 + m.size /\ e \in Nat /\ e <= BufferSize /\ m.size <= MaxPayloadSize
      /\ m.count <= m.size /\ m.count \in Nat /\ m.size \in Nat /\ m.count \in 0..Len(names)
  BY <1>1, FilledFacts
<1>3. /\ q \in Streams /\ ~q.thrown /\ q.offset = e /\ Started(q.buf, Opcode.CMD_LIST)
      /\ Holds(q.buf, P + 1, ds) /\ \E f : NamesHeld(q.buf, f, names, m.count, e)
  BY <1>1, Counted
<1> HIDE DEF q, P, e
<1>4. PICK f : NamesHeld(q.buf, f, names, m.count, e)
  BY <1>3, Zenon
<1>5. n \in Nat /\ e = P + n /\ e - P = n /\ e >= P + 1 /\ n <= MaxPayloadSize + 5
  <2> DEFINE z == m.size
  <2>1. z \in Nat /\ z <= MaxPayloadSize /\ e = P + 5 + z
    BY <1>2, Zenon
  <2> HIDE DEF z
  <2>2. n = z + 5
    BY DEF z
  <2> HIDE DEF n
  <2> QED BY <1>0, <2>1, <2>2
<1> HIDE DEF n
<1>6. /\ bytes \in Seq(ByteSet) /\ Len(bytes) = e /\ Started(bytes, Opcode.CMD_LIST)
      /\ Holds(bytes, Len(Magic), Digits(n, 4)) /\ KeepsBehind(q, bytes)
  <2>1. q.offset >= Preamble + 1
    BY <1>3, <1>5 DEF P
  <2>2. /\ bytes \in Seq(ByteSet) /\ Len(bytes) = q.offset /\ Started(bytes, Opcode.CMD_LIST)
        /\ Holds(bytes, Len(Magic), Digits(q.offset - Preamble, 4)) /\ KeepsBehind(q, bytes)
    BY <1>0, <1>3, <2>1, Sent
  <2> QED BY <1>3, <1>5, <2>2, Zenon DEF P
<1> HIDE DEF bytes
<1>7. n < Base ^ 4 /\ m.count < Base ^ 4
  <2> DEFINE B == Base ^ 4
  <2>1. B \in Nat /\ BufferSize + 1 < B
    BY Zenon, ProtocolAssumption DEF PowersOfBase
  <2> HIDE DEF B
  <2>2. n < B /\ m.count < B
    BY <1>0, <1>2, <1>5, <2>1
  <2> QED BY <2>2, Zenon DEF B
<1>8. ds \in Seq(ByteSet) /\ Len(ds) = 4
  BY <1>0, <1>2, DigitsType
<1> HIDE DEF ds
<1> DEFINE s == Body(bytes, big)  c == ReadUInt(s, 4)
<1>9. /\ Framed(bytes, big) /\ Header(bytes, big).val = n
      /\ s \in Streams /\ ~s.thrown /\ s.buf = bytes /\ s.offset = P + 1 /\ s.val = Opcode.CMD_LIST
  <2>1. Len(bytes) = Preamble + n
    BY <1>5, <1>6, Zenon DEF P
  <2> QED BY <1>0, <1>5, <1>6, <1>7, <2>1, Opened DEF P
<1> HIDE DEF s
<1>10. ASSUME NEW place \in Nat, NEW str \in Seq(ByteSet), place >= P, place + Len(str) <= e,
              Holds(q.buf, place, str)
       PROVE  Holds(bytes, place, str)
  BY <1>3, <1>6, <1>10, Zenon DEF KeepsBehind, P
<1>11. Holds(bytes, P + 1, ds)
  <2>1. P + 1 \in Nat /\ P + 1 >= P /\ P + 1 + Len(ds) <= e
    BY <1>0, <1>2, <1>5, <1>8
  <2> QED BY <1>3, <1>8, <1>10, <2>1
<1>12. c \in Streams /\ ~c.thrown /\ c.buf = bytes /\ c.offset = P + 5 /\ c.val = m.count
  <2>1. Holds(s.buf, s.offset, Digits(m.count, 4))
    BY <1>9, <1>11, Zenon DEF ds
  <2>2. c \in Streams /\ ~c.thrown /\ c.buf = s.buf /\ c.offset = s.offset + 4 /\ c.val = m.count
    BY <1>0, <1>2, <1>7, <1>9, <2>1, GetNumber
  <2> HIDE DEF c
  <2> QED BY <1>0, <1>9, <2>2
<1> HIDE DEF c
<1>13. ASSUME NEW place \in Nat, NEW str \in Seq(ByteSet), place >= P + 5,
              place + 4 + Len(str) <= e, HoldsText(q.buf, place, str)
       PROVE  HoldsText(bytes, place, str)
  <2> DEFINE dt == Digits(Len(str), 4)
  <2>1. Len(str) \in Nat
    BY LenProperties
  <2>2. dt \in Seq(ByteSet) /\ Len(dt) = 4
    BY <1>0, <2>1, DigitsType
  <2>3. Holds(q.buf, place, dt) /\ Holds(q.buf, place + 4, str)
    BY <1>13, Zenon DEF HoldsText
  <2> HIDE DEF dt
  <2>4. place >= P /\ place + 4 >= P /\ place + 4 \in Nat /\ place + Len(dt) <= e
    BY <1>0, <1>2, <1>13, <2>1, <2>2
  <2>5. Holds(bytes, place, dt)
    BY <1>10, <2>2, <2>3, <2>4
  <2>6. Holds(bytes, place + 4, str)
    BY <1>10, <1>13, <2>3, <2>4
  <2> QED BY <2>5, <2>6, Zenon DEF HoldsText, dt
<1>14. NamesHeld(bytes, f, names, m.count, e)
  <2>1. \A place \in Nat, str \in Seq(ByteSet) :
           place >= Preamble + 5 /\ place + 4 + Len(str) <= e /\ HoldsText(q.buf, place, str)
              => HoldsText(bytes, place, str)
    BY <1>13 DEF P
  <2> QED BY <1>2, <1>4, <2>1, NamesKept
<1> DEFINE reads == ReadTexts(c, [i \in 1..m.count |-> i])
<1>15. \A k \in 1..m.count : reads[k + 1].val = names[k]
  <2>1. e <= Len(bytes) /\ Len(bytes) <= BufferSize /\ c.offset = Preamble + 5
    BY <1>2, <1>6, <1>12 DEF P
  <2> QED BY <1>2, <1>6, <1>12, <1>14, <2>1, TextsRead
<1> HIDE DEF reads
<1>16. NamesIn(bytes, big) = [k \in 1..m.count |-> names[k]]
  <2>1. NamesIn(bytes, big) = [k \in 1..m.count |-> reads[k + 1].val]
    <3>1. NamesIn(bytes, big) =
            [k \in 1..c.val |-> ReadTexts(c, [i \in 1..c.val |-> i])[k + 1].val]
      BY Zenon DEF NamesIn, ReadTexts, c, s
    <3> QED BY <1>12, <3>1, Zenon DEF reads
  <2> QED BY <1>15, <2>1
<1>17. Framed(bytes, big) /\ Body(bytes, big).val = Opcode.CMD_LIST
       /\ Header(bytes, big).val = m.size + 5
  BY <1>9, Zenon DEF s, n
<1> QED BY <1>6, <1>16, <1>17, Zenon DEF bytes, q, m
-----------------------------------------------------------------------------
(* The messages one after the other. *)

\* A sequence with one member more in front.
Leads(u, x, s) ==
    /\ Len(u) = Len(s) + 1 /\ u[1] = x /\ \A i \in 1..Len(s) : u[i + 1] = s[i]

LEMMA Lead ==
    ASSUME NEW C, NEW x \in C, NEW s \in Seq(C)
    PROVE  (<<x>> \o s) \in Seq(C) /\ Leads(<<x>> \o s, x, s)
<1> DEFINE p == <<x>>
<1>1. p \in Seq(C) /\ Len(p) = 1 /\ p[1] = x
  OBVIOUS
<1> HIDE DEF p
<1>2. (p \o s) \in Seq(C) /\ TwoParts(p \o s, p, s)
  BY <1>1, JoinParts, Zenon
<1> DEFINE u == p \o s
<1>3. Len(u) = 1 + Len(s) /\ u[1] = x /\ \A i \in 1..Len(s) : u[1 + i] = s[i]
  BY <1>1, <1>2 DEF TwoParts
<1> HIDE DEF u
<1>4. Len(s) \in Nat
  BY LenProperties
<1>5. Leads(u, x, s)
  BY <1>3, <1>4 DEF Leads
<1> QED BY <1>2, <1>5, Zenon DEF u, p

LEMMA LeadOnly ==
    ASSUME NEW C, NEW x \in C, NEW s \in Seq(C), NEW u \in Seq(C), Leads(u, x, s)
    PROVE  u = <<x>> \o s
<1> DEFINE v == <<x>> \o s  n == Len(s)
<1>1. v \in Seq(C) /\ Leads(v, x, s) /\ n \in Nat
  BY Lead, LenProperties
<1> HIDE DEF v
<1>2. Len(u) = Len(v) /\ Len(u) = n + 1
  BY <1>1 DEF Leads
<1>3. ASSUME NEW i \in 1..Len(u) PROVE u[i] = v[i]
  <2>1. CASE i = 1
    BY <1>1, <2>1 DEF Leads
  <2>2. CASE i # 1
    <3>1. i - 1 \in 1..n /\ (i - 1) + 1 = i
      BY <1>1, <1>2, <2>2
    <3> QED BY <1>1, <3>1 DEF Leads
  <2> QED BY <2>1, <2>2
<1>4. u = v
  BY <1>1, <1>2, <1>3, SeqEqual
<1> QED BY <1>4, Zenon DEF v

LEMMA FlatPrepend ==
    ASSUME NEW S, NEW x \in Seq(S), NEW ss \in Seq(Seq(S))
    PROVE  FlattenSeq(<<x>> \o ss) = x \o FlattenSeq(ss)
<1> DEFINE C == Seq(S)
           Right(us) == FlattenSeq(<<x>> \o us) = x \o FlattenSeq(us)
           T == {us \in Seq(C) : Right(us)}
<1>1. <<>> \in T
  <2>1. <<x>> \o <<>> = Append(<<>>, x) /\ <<>> \in Seq(C)
    BY EmptySeq
  <2>2. FlattenSeq(Append(<<>>, x)) = FlattenSeq(<<>>) \o x /\ FlattenSeq(<<>>) = <<>>
    BY <2>1, FlatLaws, Zenon
  <2>3. <<>> \o x = x /\ x \o <<>> = x
    BY EmptySeq
  <2>4. Right(<<>>)
    BY <2>1, <2>2, <2>3, Zenon
  <2> QED BY <2>1, <2>4
<1>2. ASSUME NEW us \in T, NEW s \in C PROVE Append(us, s) \in T
  <2> DEFINE v == <<x>> \o us  w == <<x>> \o Append(us, s)  a == Append(us, s)  z == Append(v, s)
  <2>1. us \in Seq(C) /\ FlattenSeq(v) = x \o FlattenSeq(us)
    OBVIOUS
  <2>2. a \in Seq(C) /\ v \in Seq(C) /\ Leads(v, x, us) /\ Len(a) = Len(us) + 1
        /\ a[Len(us) + 1] = s /\ \A i \in 1..Len(us) : a[i] = us[i]
    BY <2>1, AppendProperties, Lead
  <2>3. x \in C
    OBVIOUS
  <2> HIDE DEF v, a, C
  <2>4. z \in Seq(C) /\ Len(z) = Len(v) + 1 /\ z[Len(v) + 1] = s /\ \A i \in 1..Len(v) : z[i] = v[i]
    BY <2>2, AppendProperties
  <2>5. Len(us) \in Nat
    BY <2>1, LenProperties
  <2> HIDE DEF z
  <2>6. Leads(z, x, a)
    <3>1. Len(z) = Len(a) + 1 /\ z[1] = x
      BY <2>2, <2>4, <2>5 DEF Leads
    <3>2. ASSUME NEW i \in 1..Len(a) PROVE z[i + 1] = a[i]
      <4>1. CASE i \in 1..Len(us)
        <5>1. i + 1 \in 1..Len(v)
          BY <2>2, <2>5, <4>1 DEF Leads
        <5>2. z[i + 1] = v[i + 1] /\ v[i + 1] = us[i] /\ a[i] = us[i]
          BY <2>2, <2>4, <4>1, <5>1 DEF Leads
        <5> QED BY <5>2
      <4>2. CASE i = Len(us) + 1
        <5>1. i + 1 = Len(v) + 1
          BY <2>2, <4>2 DEF Leads
        <5> QED BY <2>2, <2>4, <4>2, <5>1
      <4>3. i \in 1..Len(us) \/ i = Len(us) + 1
        BY <2>2, <2>5
      <4> QED BY <4>1, <4>2, <4>3, Zenon
    <3> QED BY <3>1, <3>2 DEF Leads
  <2>7. z = <<x>> \o a
    BY <2>2, <2>3, <2>4, <2>6, LeadOnly
  <2>8. FlattenSeq(z) = FlattenSeq(v) \o s
    BY <2>2, FlatLaws, Zenon DEF z, C
  <2>9. FlattenSeq(a) = FlattenSeq(us) \o s
    BY <2>1, FlatLaws, Zenon DEF a, C
  <2>10. FlattenSeq(us) \in Seq(S) /\ s \in Seq(S)
    BY <2>1, FlatLaws, Zenon DEF C
  <2>11. (x \o FlattenSeq(us)) \o s = x \o (FlattenSeq(us) \o s)
    <3> DEFINE p == FlattenSeq(us)
    <3>1. p \in Seq(S) /\ s \in Seq(S) /\ x \in Seq(S)
      BY <2>10
    <3> HIDE DEF p
    <3>2. (x \o p) \o s = x \o (p \o s)
      BY <3>1, ConcatAssociative
    <3> QED BY <3>2, Zenon DEF p
  <2>12. Right(a)
    BY <2>1, <2>7, <2>8, <2>9, <2>11, Zenon
  <2> QED BY <2>2, <2>12 DEF a
<1>3. T \in SUBSET Seq(C)
  OBVIOUS
<1> HIDE DEF T, C
<1>4. T = Seq(C)
  BY <1>1, <1>2, <1>3, SeqInduction
<1> QED BY <1>4 DEF T, C

\* The last so many names.
LastOf(names, left) == SubSeq(names, Len(names) - left + 1, Len(names))

LEMMA LastNames ==
    ASSUME NEW C, NEW names \in Seq(C), NEW left \in 0..Len(names)
    PROVE  /\ LastOf(names, left) \in Seq(C) /\ Len(LastOf(names, left)) = left
           /\ \A i \in 1..left : LastOf(names, left)[i] = names[Len(names) - left + i]
<1> DEFINE N == Len(names)  m == N - left + 1
<1>1. N \in Nat /\ m \in 1..N + 1 /\ left \in Nat /\ left <= N
  BY LenProperties
<1> HIDE DEF N
<1>2. \A i \in m..N : names[i] \in C
  BY <1>1, ElementOfSeq DEF N
<1>3. /\ SubSeq(names, m, N) \in Seq(C)
      /\ Len(SubSeq(names, m, N)) = IF m <= N THEN N - m + 1 ELSE 0
      /\ \A i \in 1..N - m + 1 : SubSeq(names, m, N)[i] = names[m + i - 1]
  BY <1>1, <1>2, SubSeqProperties
<1>4. LastOf(names, left) = SubSeq(names, m, N)
  BY Zenon DEF LastOf, N
<1>5. (IF m <= N THEN N - m + 1 ELSE 0) = left /\ N - m + 1 = left
  BY <1>1
<1>6. \A i \in 1..left : m + i - 1 = N - left + i
  BY <1>1
<1> QED BY <1>3, <1>4, <1>5, <1>6, Zenon DEF N

\* The first names of the last ones, and the others.
LEMMA Pieces ==
    ASSUME NEW C, NEW names \in Seq(C), NEW left \in 1..Len(names), NEW count \in 0..left
    PROVE  [i \in 1..count |-> LastOf(names, left)[i]] \o LastOf(names, left - count)
             = LastOf(names, left)
<1> DEFINE N == Len(names)  a == LastOf(names, left)  b == LastOf(names, left - count)
           f == [i \in 1..count |-> a[i]]  u == f \o b
<1>1. N \in Nat /\ left \in Nat /\ count \in Nat /\ count <= left /\ left <= N
      /\ left \in 0..N /\ left - count \in 0..N
  BY LenProperties
<1>2. a \in Seq(C) /\ Len(a) = left /\ \A i \in 1..left : a[i] = names[N - left + i]
  BY <1>1, LastNames
<1>3. b \in Seq(C) /\ Len(b) = left - count
      /\ \A i \in 1..left - count : b[i] = names[N - (left - count) + i]
  BY <1>1, LastNames
<1> HIDE DEF a, b, N
<1>4. \A i \in 1..count : a[i] \in C
  BY <1>1, <1>2, ElementOfSeq
<1>5. f \in Seq(C) /\ Len(f) = count /\ \A i \in 1..count : f[i] = a[i]
  BY <1>1, <1>4
<1> HIDE DEF f
<1>6. u \in Seq(C) /\ TwoParts(u, f, b)
  BY <1>3, <1>5, JoinParts, Zenon
<1> HIDE DEF u
<1>7. Len(u) = Len(a)
  BY <1>1, <1>2, <1>3, <1>5, <1>6 DEF TwoParts
<1>8. ASSUME NEW i \in 1..Len(u) PROVE u[i] = a[i]
  <2>1. CASE i \in 1..count
    BY <1>5, <1>6, <2>1 DEF TwoParts
  <2>2. CASE i \notin 1..count
    <3> DEFINE j == i - count
    <3>1. j \in 1..left - count /\ count + j = i /\ N - (left - count) + j = N - left + i
          /\ i \in 1..left
      BY <1>1, <1>2, <1>7, <2>2
    <3> HIDE DEF j
    <3>2. u[count + j] = b[j]
      BY <1>3, <1>5, <1>6, <3>1 DEF TwoParts
    <3> QED BY <1>2, <1>3, <3>1, <3>2
  <2> QED BY <2>1, <2>2
<1>9. u = a
  BY <1>2, <1>6, <1>7, <1>8, SeqEqual
<1> QED BY <1>9, Zenon DEF u, f, a, b
-----------------------------------------------------------------------------
(* sendAvailableCommands() as a whole. *)

Sendings == [sent : NameSeqs, ends : BOOLEAN]

FilledOf(names, left) == Fill(LastOf(names, left))
MessageOf(names, left) == SendBuffer(WithCount(FilledOf(names, left)))

SendStep(names, left, rest) ==
    [sent |-> <<MessageOf(names, left)>> \o rest.sent, ends |-> rest.ends]

NoMore == [sent |-> <<>>, ends |-> TRUE]
Never == [sent |-> <<>>, ends |-> FALSE]

ListStep(f, names) ==
    [left \in 0..Len(names) |->
        IF left = 0 THEN NoMore
        ELSE SendStep(names, left, IF FilledOf(names, left).count = 0 THEN Never
                                   ELSE f[left - FilledOf(names, left).count])]
ListOf(names) == CHOOSE f : f = ListStep(f, names)

LEMMA CommandsAreList ==
    ASSUME NEW names PROVE AvailableCommands(names) = ListOf(names)[Len(names)]
BY Zenon DEF AvailableCommands, ListOf, ListStep, NoMore, Never, SendStep, MessageOf, FilledOf, LastOf

LEMMA SendType ==
    ASSUME PowersOfBase, Opcode.CMD_LIST < Base ^ 1, NEW names \in NameSeqs,
           NEW left \in 1..Len(names), NEW rest \in Sendings
    PROVE  /\ SendStep(names, left, rest) \in Sendings /\ NoMore \in Sendings /\ Never \in Sendings
           /\ SendStep(names, left, rest).ends = rest.ends
           /\ Leads(SendStep(names, left, rest).sent, MessageOf(names, left), rest.sent)
           /\ MessageOf(names, left) \in Seq(ByteSet) /\ rest.sent \in NameSeqs
           /\ SendStep(names, left, rest).sent \in NameSeqs
<1> DEFINE x == MessageOf(names, left)  ms == LastOf(names, left)  s == rest.sent  u == <<x>> \o s
           C == Seq(ByteSet)
<1>1. ms \in NameSeqs
  <2>1. left \in 0..Len(names)
    BY LenProperties DEF NameSeqs
  <2> QED BY <2>1, LastNames DEF NameSeqs
<1>2. x \in C
  <2>1. TRUE \in BOOLEAN
    OBVIOUS
  <2> HIDE DEF ms
  <2> QED BY <1>1, <2>1, MessageRight, Zenon DEF MessageOf, FilledOf, ms
<1> HIDE DEF x
<1>3. s \in Seq(C) /\ rest.ends \in BOOLEAN
  BY DEF Sendings, NameSeqs
<1> HIDE DEF s, C
<1>4. u \in Seq(C) /\ Leads(u, x, s)
  BY <1>2, <1>3, Lead, Zenon
<1>5. SendStep(names, left, rest) = [sent |-> u, ends |-> rest.ends]
  BY Zenon DEF SendStep, u, x, s
<1> HIDE DEF u
<1>6. <<>> \in Seq(C)
  BY EmptySeq
<1>7. NoMore \in Sendings /\ Never \in Sendings
  BY <1>6 DEF NoMore, Never, Sendings, NameSeqs, C
<1>8. u \in NameSeqs /\ s \in NameSeqs
  BY <1>3, <1>4, Zenon DEF NameSeqs, C
<1> DEFINE v == [sent |-> u, ends |-> rest.ends]
<1>9. v \in Sendings /\ v.sent = u /\ v.ends = rest.ends
  BY <1>3, <1>8 DEF Sendings
<1> HIDE DEF v
<1> QED BY <1>2, <1>4, <1>5, <1>7, <1>8, <1>9, Zenon DEF v, x, s, C

LEMMA FilledCount ==
    ASSUME PowersOfBase, NEW names \in NameSeqs, NEW left \in 1..Len(names)
    PROVE  /\ LastOf(names, left) \in NameSeqs /\ Filled(FilledOf(names, left), LastOf(names, left))
           /\ FilledOf(names, left).count \in 0..left
           /\ Len(names) \in Nat /\ Len(LastOf(names, left)) = left
           /\ \A i \in 1..left : LastOf(names, left)[i] = names[Len(names) - left + i]
<1> DEFINE ms == LastOf(names, left)  m == FilledOf(names, left)
<1>1. Len(names) \in Nat
  BY LenProperties DEF NameSeqs
<1>2. left \in 0..Len(names)
  BY <1>1
<1>3. ms \in NameSeqs /\ Len(ms) = left
      /\ \A i \in 1..left : ms[i] = names[Len(names) - left + i]
  BY <1>2, LastNames DEF NameSeqs
<1> HIDE DEF ms
<1>4. Filled(m, ms)
  BY <1>3, FilledRight, Zenon DEF FilledOf, ms
<1>5. m.count \in 0..Len(ms)
  BY <1>4, Zenon DEF Filled
<1> QED BY <1>1, <1>3, <1>4, <1>5, Zenon DEF ms

\* The recursion is well-founded: a message that is followed by others has a name.
LEMMA ListIs ==
    ASSUME PowersOfBase, Opcode.CMD_LIST < Base ^ 1, NEW names \in NameSeqs
    PROVE  /\ ListOf(names) \in [0..Len(names) -> Sendings] /\ ListOf(names)[0] = NoMore
           /\ \A left \in 1..Len(names) :
                ListOf(names)[left] =
                  SendStep(names, left, IF FilledOf(names, left).count = 0 THEN Never
                                        ELSE ListOf(names)[left - FilledOf(names, left).count])
<1> DEFINE N == Len(names)
           V == Sendings
           Count(k) == FilledOf(names, k).count
           prev == [k \in 1..N |-> IF Count(k) = 0 THEN 0 ELSE k - Count(k)]
           G == [k \in 1..N |-> [v \in V |-> SendStep(names, k, IF Count(k) = 0 THEN Never ELSE v)]]
           Given(f, k) == SendStep(names, k, IF Count(k) = 0 THEN Never ELSE f[k - Count(k)])
           f == ListOf(names)
<1>1. N \in Nat /\ \A k \in 1..N : Count(k) \in 0..k
  BY FilledCount, LenProperties DEF NameSeqs
<1>2. ASSUME NEW k \in 1..N, NEW v \in V PROVE SendStep(names, k, v) \in V /\ Never \in V /\ NoMore \in V
  BY SendType
<1>a. NoMore \in V /\ Never \in V
  <2>1. <<>> \in NameSeqs
    BY EmptySeq DEF NameSeqs
  <2> QED BY <2>1 DEF NoMore, Never, Sendings
<1> HIDE DEF Count, N, V
<1>3. IsStep(G, prev, V, N)
  <2>1. ASSUME NEW k \in 1..N PROVE prev[k] \in Nat /\ prev[k] < k
    BY <1>1
  <2>2. ASSUME NEW k \in 1..N, NEW v \in V
        PROVE  SendStep(names, k, IF Count(k) = 0 THEN Never ELSE v) \in V
    BY <1>2, <1>a
  <2>3. G \in [1..N -> [V -> V]]
    BY <2>2
  <2>4. prev \in [1..N -> Nat]
    BY <2>1
  <2> HIDE DEF G, prev
  <2> QED BY <2>1, <2>3, <2>4 DEF IsStep
<1>4. PICK h : Follows(h, G, prev, V, NoMore, N)
  <2> DEFINE a == NoMore
  <2>1. a \in V /\ N \in Nat
    BY <1>1, <1>a
  <2> HIDE DEF a, G, prev
  <2>2. \E h : Follows(h, G, prev, V, a, N)
    BY <1>3, <2>1, Recursion
  <2> QED BY <2>2 DEF a
<1>5. h \in [0..N -> V] /\ h[0] = NoMore /\ \A k \in 1..N : h[k] = G[k][h[prev[k]]]
  BY <1>4 DEF Follows
<1>6. ASSUME NEW k \in 1..N PROVE h[k] = Given(h, k)
  <2>1. prev[k] \in 0..N /\ prev[k] = IF Count(k) = 0 THEN 0 ELSE k - Count(k)
    BY <1>1
  <2>2. h[prev[k]] \in V
    BY <1>5, <2>1
  <2>3. G[k][h[prev[k]]] = SendStep(names, k, IF Count(k) = 0 THEN Never ELSE h[prev[k]])
    BY <2>2
  <2>4. h[k] = SendStep(names, k, IF Count(k) = 0 THEN Never ELSE h[prev[k]])
    BY <1>5, <2>3
  <2> HIDE DEF prev, G
  <2>5. CASE Count(k) = 0
    BY <2>4, <2>5, Zenon
  <2>6. CASE Count(k) # 0
    <3>1. prev[k] = k - Count(k)
      BY <2>1, <2>6
    <3> QED BY <2>4, <2>6, <3>1, Zenon
  <2> QED BY <2>5, <2>6
<1>7. h = ListStep(h, names)
  <2>1. ASSUME NEW k \in 0..N PROVE h[k] = IF k = 0 THEN NoMore ELSE Given(h, k)
    <3>1. CASE k = 0
      BY <1>5, <3>1, Zenon
    <3>2. CASE k # 0
      <4>1. k \in 1..N
        BY <1>1, <3>2
      <4> QED BY <1>6, <3>2, <4>1, Zenon
    <3> QED BY <3>1, <3>2
  <2>2. h = [k \in 0..N |-> h[k]]
    BY <1>5
  <2> HIDE DEF Given
  <2>3. h = [k \in 0..N |-> IF k = 0 THEN NoMore ELSE Given(h, k)]
    BY <2>1, <2>2
  <2> QED BY <2>3, Zenon DEF ListStep, Given, Count, N
<1>8. f = ListStep(f, names)
  BY <1>7, Zenon DEF ListOf
<1> HIDE DEF f
<1>9. f = [k \in 0..N |-> IF k = 0 THEN NoMore ELSE Given(f, k)]
  BY <1>8, Zenon DEF ListStep, N, Count
<1> HIDE DEF Given
<1>10. f[0] = NoMore /\ \A k \in 1..N : f[k] = Given(f, k)
  <2>1. 0 \in 0..N /\ \A k \in 1..N : k \in 0..N /\ k # 0
    BY <1>1
  <2> QED BY <1>9, <2>1, Zenon
<1> DEFINE T == {n \in Nat : \A k \in 0..n : k <= N => f[k] \in V}
<1>11. 0 \in T
  <2>1. \A k \in 0..0 : k = 0
    OBVIOUS
  <2> QED BY <1>10, <1>a, <2>1
<1>12. ASSUME NEW n \in T PROVE n + 1 \in T
  <2>1. \A k \in 0..n : k <= N => f[k] \in V
    OBVIOUS
  <2>2. ASSUME n + 1 \in 1..N PROVE f[n + 1] \in V
    <3> DEFINE k == n + 1
    <3>1. k \in 1..N /\ f[k] = Given(f, k) /\ Count(k) \in 0..k
      BY <1>1, <1>10, <2>2
    <3>2. CASE Count(k) = 0
      <4>1. Given(f, k) = SendStep(names, k, Never)
        BY <3>2, Zenon DEF Given
      <4> QED BY <1>2, <1>a, <3>1, <4>1
    <3>3. CASE Count(k) # 0
      <4>1. Given(f, k) = SendStep(names, k, f[k - Count(k)])
        BY <3>3, Zenon DEF Given
      <4>2. k - Count(k) \in 0..n /\ k - Count(k) <= N
        BY <1>1, <3>1, <3>3
      <4>3. f[k - Count(k)] \in V
        BY <2>1, <4>2
      <4> QED BY <1>2, <3>1, <4>1, <4>3
    <3> QED BY <3>2, <3>3
  <2>3. ASSUME NEW k \in 0..(n + 1), k <= N PROVE f[k] \in V
    <3>1. k \in 0..n \/ (k = n + 1 /\ n + 1 \in 1..N)
      BY <2>3
    <3> QED BY <2>1, <2>2, <2>3, <3>1
  <2> QED BY <2>3
<1>13. T \in SUBSET Nat
  OBVIOUS
<1>14. T = Nat
  <2> HIDE DEF T
  <2> QED BY <1>11, <1>12, <1>13, Induction
<1>15. \A k \in 0..N : f[k] \in V
  <2>1. N \in T
    BY <1>1, <1>14
  <2> QED BY <1>1, <2>1
<1>16. f \in [0..N -> V]
  BY <1>9, <1>15
<1> QED BY <1>10, <1>16, Zenon DEF f, Given, Count, N, V

MessageFine(bytes, big) ==
    /\ Framed(bytes, big) /\ Body(bytes, big).val = Opcode.CMD_LIST

NamesOf(sent, big) == [k \in DOMAIN sent |-> NamesIn(sent[k], big)]

\* What is sent of the last so many names.
SendsAll(v, names, left, big) ==
    /\ v \in Sendings
    /\ v.ends <=> \A i \in 1..left : Fit(LastOf(names, left)[i])
    /\ \A i \in 1..Len(v.sent) : MessageFine(v.sent[i], big)
    /\ NamesOf(v.sent, big) \in Seq(NameSeqs)
    /\ v.ends => FlattenSeq(NamesOf(v.sent, big)) = LastOf(names, left)

LEMMA NoMoreSendsAll ==
    ASSUME NEW names \in NameSeqs, NEW big \in BOOLEAN PROVE SendsAll(NoMore, names, 0, big)
<1> DEFINE v == NoMore
<1>1. Len(names) \in Nat /\ 0 \in 0..Len(names)
  BY LenProperties DEF NameSeqs
<1>2. LastOf(names, 0) = <<>>
  <2> DEFINE a == LastOf(names, 0)
  <2>1. a \in NameSeqs /\ Len(a) = 0
    BY <1>1, LastNames DEF NameSeqs
  <2> HIDE DEF a
  <2>2. a = <<>>
    BY <2>1, EmptySeq DEF NameSeqs
  <2> QED BY <2>2, Zenon DEF a
<1>3. v.sent = <<>> /\ v.ends = TRUE
  BY DEF NoMore
<1>4. v \in Sendings
  <2>1. <<>> \in NameSeqs
    BY EmptySeq DEF NameSeqs
  <2> QED BY <2>1 DEF NoMore, Sendings
<1>5. NamesOf(<<>>, big) = <<>> /\ <<>> \in Seq(NameSeqs)
  BY EmptySeq DEF NamesOf, NameSeqs
<1>6. Len(<<>>) = 0 /\ 1..0 = {}
  BY EmptySeq
<1> HIDE DEF v
<1>7. FlattenSeq(<<>>) = <<>>
  BY FlatLaws, Zenon
<1>8. \A i \in 1..0 : FALSE
  OBVIOUS
<1>9. v.ends <=> \A i \in 1..0 : Fit(LastOf(names, 0)[i])
  BY <1>3, <1>8, Zenon
<1>10. \A i \in 1..Len(v.sent) : MessageFine(v.sent[i], big)
  BY <1>3, <1>6, <1>8, Zenon
<1>11. NamesOf(v.sent, big) \in Seq(NameSeqs) /\ (v.ends => FlattenSeq(NamesOf(v.sent, big)) = LastOf(names, 0))
  BY <1>2, <1>3, <1>5, <1>7, Zenon
<1> QED BY <1>4, <1>9, <1>10, <1>11, Zenon DEF SendsAll, v

\* The names of a message and of those that follow it.
LEMMA NamesLead ==
    ASSUME NEW x \in Seq(ByteSet), NEW s \in NameSeqs, NEW u \in NameSeqs, Leads(u, x, s), NEW big,
           NamesIn(x, big) \in NameSeqs, NamesOf(s, big) \in Seq(NameSeqs)
    PROVE  /\ NamesOf(u, big) \in Seq(NameSeqs)
           /\ FlattenSeq(NamesOf(u, big)) = NamesIn(x, big) \o FlattenSeq(NamesOf(s, big))
<1> DEFINE X == NamesIn(x, big)  S == NamesOf(s, big)  U == NamesOf(u, big)  n == Len(s)
<1>1. n \in Nat /\ Len(u) = n + 1 /\ u[1] = x /\ \A i \in 1..n : u[i + 1] = s[i]
  BY LenProperties DEF Leads, NameSeqs
<1>2. DOMAIN s = 1..n /\ DOMAIN u = 1..n + 1
  BY <1>1, LenProperties DEF NameSeqs
<1>3. Len(S) = n /\ \A i \in 1..n : S[i] = NamesIn(s[i], big)
  <2>1. DOMAIN S = 1..n /\ \A i \in 1..n : S[i] = NamesIn(s[i], big)
    BY <1>2, Zenon DEF NamesOf
  <2> HIDE DEF S
  <2> QED BY <1>1, <2>1
<1>4. \A i \in 1..n + 1 : U[i] = NamesIn(u[i], big)
  BY <1>2, Zenon DEF NamesOf
<1>5. DOMAIN U = 1..n + 1 /\ U = [i \in 1..n + 1 |-> U[i]]
  BY <1>2, Zenon DEF NamesOf
<1> HIDE DEF n, S, U, X
<1>6. U[1] = X
  BY <1>1, <1>4 DEF X
<1>7. ASSUME NEW i \in 1..n PROVE U[i + 1] = S[i]
  <2>1. i + 1 \in 1..n + 1
    BY <1>1
  <2>2. U[i + 1] = NamesIn(u[i + 1], big) /\ u[i + 1] = s[i]
    BY <1>1, <1>4, <2>1
  <2> QED BY <1>3, <2>2, Zenon
<1>8. S \in Seq(NameSeqs) /\ X \in NameSeqs
  BY DEF S, X
<1>9. \A i \in 1..n + 1 : U[i] \in NameSeqs
  <2>1. \A i \in 1..n : S[i] \in NameSeqs
    BY <1>3, <1>8, ElementOfSeq
  <2>2. ASSUME NEW i \in 1..n + 1 PROVE U[i] \in NameSeqs
    <3>1. CASE i = 1
      BY <1>6, <1>8, <3>1
    <3>2. CASE i # 1
      <4>1. i - 1 \in 1..n /\ (i - 1) + 1 = i
        BY <1>1, <3>2
      <4>2. U[(i - 1) + 1] = S[i - 1]
        BY <1>7, <4>1
      <4> QED BY <2>1, <4>1, <4>2
    <3> QED BY <3>1, <3>2
  <2> QED BY <2>2
<1>10. U \in Seq(NameSeqs) /\ Len(U) = n + 1
  <2> DEFINE m == n + 1
  <2>1. m \in Nat /\ U = [i \in 1..m |-> U[i]] /\ \A i \in 1..m : U[i] \in NameSeqs
    BY <1>1, <1>5, <1>9
  <2> HIDE DEF m
  <2>2. U \in [1..m -> NameSeqs]
    BY <2>1
  <2>3. U \in Seq(NameSeqs) /\ Len(U) = m
    BY <2>1, <2>2
  <2> QED BY <2>3, Zenon DEF m
<1>11. Leads(U, X, S)
  BY <1>3, <1>6, <1>7, <1>10 DEF Leads
<1>12. U = <<X>> \o S
  BY <1>8, <1>10, <1>11, LeadOnly
<1>13. FlattenSeq(<<X>> \o S) = X \o FlattenSeq(S)
  <2>1. X \in Seq(Seq(ByteSet)) /\ S \in Seq(Seq(Seq(ByteSet)))
    BY <1>8 DEF NameSeqs
  <2> QED BY <2>1, FlatPrepend
<1> QED BY <1>10, <1>12, <1>13, Zenon DEF U, X, S

\* One more message.
LEMMA SendsMore ==
    ASSUME PowersOfBase, Opcode.CMD_LIST < Base ^ 1, NEW names \in NameSeqs, NEW big \in BOOLEAN,
           NEW left \in 1..Len(names), NEW rest \in Sendings,
           IF FilledOf(names, left).count = 0 THEN rest = Never
           ELSE SendsAll(rest, names, left - FilledOf(names, left).count, big)
    PROVE  SendsAll(SendStep(names, left, rest), names, left, big)
<1> DEFINE v == SendStep(names, left, rest)  x == MessageOf(names, left)  ms == LastOf(names, left)
           m == FilledOf(names, left)  c == m.count  N == Len(names)
<1>1. /\ v \in Sendings /\ v.ends = rest.ends /\ Leads(v.sent, x, rest.sent)
      /\ x \in Seq(ByteSet) /\ rest.sent \in NameSeqs /\ v.sent \in NameSeqs
  BY SendType
<1>2. /\ ms \in NameSeqs /\ Filled(m, ms) /\ c \in 0..left /\ N \in Nat
      /\ Len(ms) = left /\ \A i \in 1..left : ms[i] = names[N - left + i]
  BY FilledCount
<1>3. MessageFine(x, big) /\ NamesIn(x, big) = [k \in 1..c |-> ms[k]]
  <2> HIDE DEF ms
  <2>1. /\ Framed(x, big) /\ Body(x, big).val = Opcode.CMD_LIST
        /\ NamesIn(x, big) = [k \in 1..c |-> ms[k]]
    BY <1>2, MessageRight, Zenon DEF MessageOf, FilledOf, ms
  <2> QED BY <2>1, Zenon DEF MessageFine
<1>4. /\ \A i \in 1..c : Fit(ms[i])
      /\ c = 0 => (ms # <<>> => ~Fit(ms[1]))
  <2> HIDE DEF m, ms
  <2> QED BY <1>2, Zenon DEF Filled
<1>5. c = 0 => rest = Never
  BY Zenon
<1>6. c # 0 => SendsAll(rest, names, left - c, big)
  BY Zenon
<1> HIDE DEF v, x, ms, m, N
<1>7. left \in Nat /\ 1 \in 1..left
  BY <1>2 DEF N
<1>8. ASSUME NEW i \in 1..Len(rest.sent) PROVE MessageFine(rest.sent[i], big)
  <2>1. CASE c = 0
    <3>1. rest.sent = <<>>
      BY <1>5, <2>1 DEF Never
    <3>2. Len(rest.sent) = 0
      BY <3>1, EmptySeq
    <3> QED BY <3>2
  <2>2. CASE c # 0
    BY <1>6, <2>2, Zenon DEF SendsAll
  <2> QED BY <2>1, <2>2
<1>9. ASSUME NEW i \in 1..Len(v.sent) PROVE MessageFine(v.sent[i], big)
  <2> DEFINE n == Len(rest.sent)
  <2>1. n \in Nat /\ Len(v.sent) = n + 1 /\ v.sent[1] = x /\ \A j \in 1..n : v.sent[j + 1] = rest.sent[j]
    BY <1>1, LenProperties DEF Leads, NameSeqs
  <2>2. CASE i = 1
    BY <1>3, <2>1, <2>2, Zenon
  <2>3. CASE i # 1
    <3>1. i - 1 \in 1..n /\ (i - 1) + 1 = i
      BY <2>1, <2>3
    <3>2. v.sent[(i - 1) + 1] = rest.sent[i - 1]
      BY <2>1, <3>1
    <3>3. MessageFine(rest.sent[i - 1], big)
      BY <1>8, <3>1
    <3> QED BY <3>1, <3>2, <3>3
  <2> QED BY <2>2, <2>3
<1>10. NamesIn(x, big) \in NameSeqs
  <2>1. \A k \in 1..c : ms[k] \in Seq(ByteSet)
    BY <1>2, <1>7, ElementOfSeq DEF NameSeqs
  <2>2. c \in Nat
    BY <1>2, <1>7
  <2> HIDE DEF c
  <2> QED BY <1>3, <2>1, <2>2 DEF NameSeqs
<1>11. NamesOf(rest.sent, big) \in Seq(NameSeqs)
  <2>1. CASE c = 0
    <3>1. rest.sent = <<>>
      BY <1>5, <2>1 DEF Never
    <3>2. NamesOf(<<>>, big) = <<>> /\ <<>> \in Seq(NameSeqs)
      BY EmptySeq DEF NamesOf
    <3> QED BY <3>1, <3>2, Zenon
  <2>2. CASE c # 0
    BY <1>6, <2>2, Zenon DEF SendsAll
  <2> QED BY <2>1, <2>2
<1>12. /\ NamesOf(v.sent, big) \in Seq(NameSeqs)
       /\ FlattenSeq(NamesOf(v.sent, big)) = NamesIn(x, big) \o FlattenSeq(NamesOf(rest.sent, big))
  BY <1>1, <1>10, <1>11, NamesLead
<1>13. CASE c = 0
  <2>1. ~rest.ends
    BY <1>5, <1>13 DEF Never
  <2>2. ms # <<>>
    BY <1>2, <1>7, EmptySeq
  <2>3. ~Fit(ms[1])
    BY <1>4, <1>13, <2>2, Zenon
  <2>4. ~v.ends /\ ~ \A i \in 1..left : Fit(ms[i])
    BY <1>1, <1>7, <2>1, <2>3, Zenon
  <2> QED BY <1>1, <1>9, <1>12, <2>4, Zenon DEF SendsAll, v, ms
<1>14. CASE c # 0
  <2> DEFINE r == left - c  ls == LastOf(names, r)
  <2>1. /\ rest.ends <=> \A i \in 1..r : Fit(ls[i])
        /\ rest.ends => FlattenSeq(NamesOf(rest.sent, big)) = ls
    BY <1>6, <1>14, Zenon DEF SendsAll
  <2>2. r \in 0..N /\ r \in Nat /\ c \in 1..left
    BY <1>2, <1>7, <1>14 DEF N
  <2>3. \A i \in 1..r : ls[i] = names[N - r + i]
    BY <2>2, LastNames DEF N, NameSeqs
  <2> HIDE DEF ls, r, c
  <2>4. \A i \in 1..r : c + i \in 1..left /\ N - r + i = N - left + (c + i)
    BY <1>2, <1>7, <2>2 DEF r
  <2>5. \A i \in 1..r : ls[i] = ms[c + i]
    BY <1>2, <2>3, <2>4
  <2>6. v.ends <=> \A i \in 1..left : Fit(ms[i])
    <3>1. ASSUME \A i \in 1..left : Fit(ms[i]) PROVE rest.ends
      BY <2>1, <2>4, <2>5, <3>1
    <3>2. ASSUME rest.ends, NEW i \in 1..left PROVE Fit(ms[i])
      <4>1. CASE i \in 1..c
        BY <1>4, <4>1
      <4>2. CASE i \notin 1..c
        <5> DEFINE j == i - c
        <5>1. j \in 1..r /\ c + j = i
          BY <1>7, <2>2, <4>2 DEF r
        <5> HIDE DEF j
        <5>2. Fit(ls[j]) /\ ls[j] = ms[c + j]
          BY <2>1, <2>5, <3>2, <5>1
        <5> QED BY <5>1, <5>2
      <4> QED BY <4>1, <4>2
    <3>3. v.ends \in BOOLEAN /\ v.ends = rest.ends
      BY <1>1 DEF Sendings
    <3> QED BY <3>1, <3>2, <3>3, Zenon
  <2>7. ASSUME v.ends PROVE FlattenSeq(NamesOf(v.sent, big)) = ms
    <3>1. FlattenSeq(NamesOf(rest.sent, big)) = ls
      BY <1>1, <2>1, <2>7, Zenon
    <3>2. [k \in 1..c |-> ms[k]] \o ls = ms
      <4>1. c \in 0..left
        BY <2>2
      <4> QED BY <4>1, Pieces, Zenon DEF ms, ls, r, NameSeqs
    <3> QED BY <1>3, <1>12, <3>1, <3>2, Zenon DEF c
  <2> QED BY <1>1, <1>9, <1>12, <2>6, <2>7, Zenon DEF SendsAll, v, ms
<1> QED BY <1>13, <1>14

\* All of the names.
LEMMA AllOf == ASSUME NEW names \in NameSeqs PROVE LastOf(names, Len(names)) = names
<1> DEFINE N == Len(names)  a == LastOf(names, N)
<1>1. N \in Nat /\ N \in 0..N
  BY LenProperties DEF NameSeqs
<1>2. a \in NameSeqs /\ Len(a) = N /\ \A i \in 1..N : a[i] = names[N - N + i]
  BY <1>1, LastNames DEF NameSeqs
<1>3. \A i \in 1..N : N - N + i = i
  BY <1>1
<1> HIDE DEF a
<1>4. \A i \in 1..N : a[i] = names[i]
  BY <1>2, <1>3
<1>5. a = names
  BY <1>2, <1>4, SeqEqual DEF NameSeqs
<1> QED BY <1>5, Zenon DEF a

\* A list within the limit is one message.
LEMMA OneMessage ==
    ASSUME PowersOfBase, Opcode.CMD_LIST < Base ^ 1, NEW names \in NameSeqs, NEW big \in BOOLEAN,
           ListPayload(names) <= MaxPayloadSize
    PROVE  /\ Len(AvailableCommands(names).sent) <= 1
           /\ \A i \in 1..Len(AvailableCommands(names).sent) :
                Header(AvailableCommands(names).sent[i], big).val <= MaxPayloadSize
<1> DEFINE N == Len(names)  f == ListOf(names)  v == AvailableCommands(names)
           m == Fill(names)  x == MessageOf(names, N)
<1>1. N \in Nat /\ MaxPayloadSize \in Nat
  BY LenProperties, PreambleType DEF NameSeqs
<1>2. v = f[N] /\ f[0] = NoMore
  BY CommandsAreList, ListIs, Zenon
<1> HIDE DEF v
<1>3. CASE N = 0
  <2>1. v.sent = <<>>
    BY <1>2, <1>3 DEF NoMore
  <2>2. Len(v.sent) = 0
    BY <2>1, EmptySeq
  <2> QED BY <2>2 DEF v
<1>4. CASE N # 0
  <2>1. N \in 1..N
    BY <1>1, <1>4
  <2>2. f[N] = SendStep(names, N, IF FilledOf(names, N).count = 0 THEN Never
                                  ELSE f[N - FilledOf(names, N).count])
    BY <2>1, ListIs
  <2>3. FilledOf(names, N) = m /\ x = SendBuffer(WithCount(m))
    BY AllOf, Zenon DEF FilledOf, MessageOf
  <2> HIDE DEF f, x
  <2>4. ~m.full /\ m.size + 5 <= MaxPayloadSize
    <3> DEFINE u == SumOf(names)  z == ListPayload(names)
    <3>1. z = 5 + 4 * N + Len(FlattenSeq(names)) /\ u = 4 * N + Len(FlattenSeq(names))
      BY Zenon DEF ListPayload, SumOf
    <3>2. Len(FlattenSeq(names)) \in Nat
      <4>1. FlattenSeq(names) \in Seq(ByteSet)
        BY FlatLaws, Zenon DEF NameSeqs
      <4> QED BY <4>1, LenProperties
    <3>3. z = u + 5 /\ u \in Nat
      BY <1>1, <3>1, <3>2
    <3>4. IF m.full THEN u > MaxPayloadSize ELSE m.size = u
      BY FillSize, Zenon
    <3>5. z <= MaxPayloadSize
      OBVIOUS
    <3> HIDE DEF m, u, z
    <3> QED BY <1>1, <3>3, <3>4, <3>5
  <2>5. m.count = N
    BY <2>4, FilledRight, Zenon DEF Filled
  <2> HIDE DEF m
  <2>6. N - m.count = 0
    BY <1>1, <2>5
  <2>7. f[N] = SendStep(names, N, NoMore)
    BY <1>2, <1>4, <2>2, <2>3, <2>5, <2>6, Zenon
  <2>8. Leads(v.sent, x, NoMore.sent) /\ NoMore.sent = <<>>
    <3>1. Never \in Sendings /\ NoMore \in Sendings
      <4>1. <<>> \in NameSeqs
        BY EmptySeq DEF NameSeqs
      <4> QED BY <4>1 DEF NoMore, Never, Sendings
    <3>2. Leads(SendStep(names, N, NoMore).sent, x, NoMore.sent)
      BY <2>1, <3>1, SendType DEF x
    <3>3. NoMore.sent = <<>>
      BY DEF NoMore
    <3> QED BY <1>2, <2>7, <3>2, <3>3, Zenon
  <2>9. Len(v.sent) = 1 /\ v.sent[1] = x
    <3>1. Len(<<>>) = 0
      BY EmptySeq
    <3> QED BY <2>8, <3>1 DEF Leads
  <2>10. Header(x, big).val <= MaxPayloadSize
    <3>1. Header(SendBuffer(WithCount(Fill(names))), big).val = Fill(names).size + 5
      BY MessageRight
    <3> QED BY <2>3, <2>4, <3>1, Zenon DEF m
  <2> QED BY <2>9, <2>10 DEF v
<1> QED BY <1>3, <1>4

\* ExtconHost::sendAvailableCommands (extcon_host.cpp): each message of the list is a datagram;
\* names that have a place in one are read from them on a platform of either order, all of
\* them, whole and in their order; and a list within the limit is one message within it.
THEOREM ListRight ==
    ASSUME PowersOfBase, Opcode.CMD_LIST < Base ^ 1, NEW names \in NameSeqs, NEW big \in BOOLEAN
    PROVE  ListReceived(names, big)
<1> DEFINE N == Len(names)  f == ListOf(names)
           T == {n \in Nat : \A k \in 0..n : k <= N => SendsAll(f[k], names, k, big)}
<1>1. /\ f \in [0..N -> Sendings] /\ f[0] = NoMore /\ N \in Nat
      /\ \A k \in 1..N :
           f[k] = SendStep(names, k, IF FilledOf(names, k).count = 0 THEN Never
                                     ELSE f[k - FilledOf(names, k).count])
  BY ListIs, LenProperties DEF NameSeqs
<1> HIDE DEF f, N
<1>2. 0 \in T
  <2>1. \A k \in 0..0 : k = 0
    OBVIOUS
  <2>2. SendsAll(f[0], names, 0, big)
    BY <1>1, NoMoreSendsAll
  <2> QED BY <2>1, <2>2
<1>3. ASSUME NEW n \in T PROVE n + 1 \in T
  <2>1. \A k \in 0..n : k <= N => SendsAll(f[k], names, k, big)
    OBVIOUS
  <2>2. ASSUME n + 1 \in 1..N PROVE SendsAll(f[n + 1], names, n + 1, big)
    <3> DEFINE k == n + 1  c == FilledOf(names, k).count
               rest == IF c = 0 THEN Never ELSE f[k - c]
    <3>1. k \in 1..N /\ f[k] = SendStep(names, k, rest)
      BY <1>1, <2>2
    <3>2. c \in 0..k
      BY <3>1, FilledCount DEF N
    <3> HIDE DEF c
    <3>3. CASE c = 0
      <4>1. Never \in Sendings
        BY EmptySeq DEF Never, Sendings, NameSeqs
      <4>2. rest = Never
        BY <3>3
      <4> HIDE DEF rest, k
      <4> QED BY <3>1, <3>3, <4>1, <4>2, SendsMore DEF c, N, k
    <3>4. CASE c # 0
      <4>1. k - c \in 0..n /\ k - c <= N /\ k - c \in 0..N
        BY <1>1, <3>1, <3>2, <3>4
      <4>2. rest = f[k - c] /\ rest \in Sendings
        BY <1>1, <3>4, <4>1
      <4>3. SendsAll(rest, names, k - c, big)
        BY <2>1, <4>1, <4>2
      <4> HIDE DEF rest, k
      <4> QED BY <3>1, <3>4, <4>2, <4>3, SendsMore DEF c, N, k
    <3> QED BY <3>3, <3>4
  <2>3. ASSUME NEW k \in 0..(n + 1), k <= N PROVE SendsAll(f[k], names, k, big)
    <3>1. k \in 0..n \/ (k = n + 1 /\ n + 1 \in 1..N)
      BY <2>3
    <3> QED BY <2>1, <2>2, <2>3, <3>1
  <2> QED BY <2>3
<1>4. SendsAll(f[N], names, N, big)
  <2>1. T \in SUBSET Nat
    OBVIOUS
  <2>2. T = Nat
    <3> HIDE DEF T
    <3> QED BY <1>2, <1>3, <2>1, Induction
  <2>3. N \in T
    <3> HIDE DEF T
    <3> QED BY <1>1, <2>2
  <2>4. N \in 0..N /\ N <= N
    BY <1>1
  <2> QED BY <2>3, <2>4
<1> DEFINE v == AvailableCommands(names)
<1>5. v = f[N]
  BY CommandsAreList, Zenon DEF f, N
<1>6. LastOf(names, N) = names
  BY AllOf, Zenon DEF N
<1> HIDE DEF v
<1>7. SendsAll(v, names, N, big)
  BY <1>4, <1>5, Zenon
<1>8. v.ends <=> \A i \in 1..N : Fit(names[i])
  BY <1>6, <1>7, Zenon DEF SendsAll
<1>9. v.ends <=> \A name \in Range(names) : Fit(name)
  <2>1. DOMAIN names = 1..N
    BY LenProperties DEF N, NameSeqs
  <2>2. Range(names) = {names[i] : i \in 1..N}
    BY <2>1, Zenon DEF Range
  <2>3. (\A i \in 1..N : Fit(names[i])) <=> \A name \in Range(names) : Fit(name)
    BY <2>2
  <2>4. v.ends \in BOOLEAN
    BY <1>7 DEF SendsAll, Sendings
  <2> QED BY <1>8, <2>3, <2>4, Zenon
<1>10. \A bytes \in Range(v.sent) : MessageFine(bytes, big)
  <2>1. v.sent \in NameSeqs
    BY <1>7 DEF SendsAll, Sendings
  <2>2. DOMAIN v.sent = 1..Len(v.sent)
    BY <2>1, LenProperties DEF NameSeqs
  <2>3. \A i \in 1..Len(v.sent) : MessageFine(v.sent[i], big)
    BY <1>7, Zenon DEF SendsAll
  <2>4. Range(v.sent) = {v.sent[i] : i \in 1..Len(v.sent)}
    BY <2>2, Zenon DEF Range
  <2> QED BY <2>3, <2>4
<1>11. v.ends => FlattenSeq([k \in DOMAIN v.sent |-> NamesIn(v.sent[k], big)]) = names
  BY <1>6, <1>7, Zenon DEF SendsAll, NamesOf
<1>12. ASSUME ListPayload(names) <= MaxPayloadSize
       PROVE  Len(v.sent) <= 1 /\ \A bytes \in Range(v.sent) : Header(bytes, big).val <= MaxPayloadSize
  <2>1. /\ Len(v.sent) <= 1
        /\ \A i \in 1..Len(v.sent) : Header(v.sent[i], big).val <= MaxPayloadSize
    BY <1>12, OneMessage DEF v
  <2>2. v.sent \in NameSeqs
    BY <1>7 DEF SendsAll, Sendings
  <2>3. DOMAIN v.sent = 1..Len(v.sent)
    BY <2>2, LenProperties DEF NameSeqs
  <2>4. Range(v.sent) = {v.sent[i] : i \in 1..Len(v.sent)}
    BY <2>3, Zenon DEF Range
  <2> QED BY <2>1, <2>4
<1> QED BY <1>9, <1>10, <1>11, <1>12, Zenon DEF ListReceived, MessageFine, v
=============================================================================
