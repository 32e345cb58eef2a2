--------------------------- MODULE ReportMap_proofs ---------------------------
(***************************************************************************)
(* Proofs about ReportMap, for any devices, any descriptors that they may  *)
(* send, and a table of any size: the parser's statics keep their types,   *)
(* received packets and requests find their reports, a descriptor that     *)
(* arrives whole is understood exactly, and the reports of a device are    *)
(* completed with what their own descriptor declares.                      *)
(*                                                                         *)
(* The parser sees items; a place of a map is a position in its items with *)
(* the collection, the field and the part of the field that it belongs to. *)
(* MapInv says what the statics hold at each place, and what became of the *)
(* services that were parsed.                                              *)
(***************************************************************************)
EXTENDS ReportMap, SequenceTheorems, WellFoundedInduction, TLAPS

-----------------------------------------------------------------------------
(* Induction over numbers, and sequences of sequences.                     *)

Less == {p \in Nat \X Nat : p[1] < p[2]}

\* Numbers have a least one.
LEMMA LeastIs ==
    ASSUME NEW S, S \subseteq Nat, S # {}
    PROVE  Min(S) \in S /\ \A y \in S : Min(S) <= y
<1>1. IsWellFoundedOn(Less, Nat)
  BY NatLessThanWellFounded DEF OpToRel, Less
<1>2. PICK x \in S : \A y \in S : <<y, x>> \notin Less
  BY <1>1, WFMin
<1>3. \A y \in S : <<y, x>> \in Less <=> y < x
  BY <1>2 DEF Less
<1>4. \A y \in S : x \in Nat /\ y \in Nat /\ ~(y < x)
  BY <1>2, <1>3
<1>5. \A y \in S : x <= y
  BY <1>4
<1> QED BY <1>2, <1>5 DEF Min

\* A set of the numbers to N with the first, and the next of each, has them all.
LEMMA Inductive ==
    ASSUME NEW N \in Nat, NEW S, 0 \in S, \A n \in 0 .. N - 1 : n \in S => n + 1 \in S
    PROVE  0 .. N \subseteq S
<1> DEFINE B == {n \in 0 .. N : n \notin S}
<1>1. CASE B = {}
  BY <1>1
<1>2. CASE B # {}
  <2>0. B \subseteq Nat
    OBVIOUS
  <2>1. PICK b \in B : \A y \in B : b <= y
    <3> HIDE DEF B
    <3> QED BY <1>2, <2>0, LeastIs
  <2>2. b # 0 /\ b \in 1 .. N
    BY <2>1
  <2>3. b - 1 \in 0 .. N - 1 /\ b - 1 \notin B
    BY <2>1, <2>2
  <2>4. b - 1 \in S
    BY <2>3
  <2>5. (b - 1) + 1 \in S
    BY <2>3, <2>4
  <2> QED BY <2>1, <2>2, <2>5
<1> QED BY <1>1, <1>2

\* Function f takes the steps of st from a.
Iterates(f, A, a, N, st) ==
    f \in [0 .. N -> A] /\ f[0] = a /\ \A n \in 1 .. N : f[n] = st[n][f[n - 1]]

\* What is defined step by step is defined for every number of steps.
LEMMA Iterated ==
    ASSUME NEW A, NEW a \in A, NEW N \in Nat, NEW st \in [1 .. N -> [A -> A]]
    PROVE  \E f : Iterates(f, A, a, N, st)
<1> DEFINE Is(f, k) == f[0] = a /\ \A n \in 1 .. k : f[n] = st[n][f[n - 1]]
           S == {k \in 0 .. N : \E f \in [0 .. k -> A] : Is(f, k)}
<1>1. 0 \in S
  <2> DEFINE g == [n \in 0 .. 0 |-> a]
  <2>1. g \in [0 .. 0 -> A] /\ g[0] = a
    OBVIOUS
  <2> HIDE DEF g
  <2>2. Is(g, 0)
    BY <2>1
  <2> QED BY <2>1, <2>2
<1>2. ASSUME NEW k \in 0 .. N - 1, k \in S
      PROVE  k + 1 \in S
  <2>1. PICK f \in [0 .. k -> A] : Is(f, k)
    BY <1>2
  <2> DEFINE g == [n \in 0 .. k + 1 |-> IF n = k + 1 THEN st[k + 1][f[k]] ELSE f[n]]
  <2>2. k + 1 \in 1 .. N /\ f[k] \in A
    OBVIOUS
  <2>3. st[k + 1] \in [A -> A]
    BY <2>2
  <2>4. st[k + 1][f[k]] \in A
    BY <2>2, <2>3
  <2>5. g \in [0 .. k + 1 -> A]
    BY <2>4
  <2>6. \A n \in 0 .. k : g[n] = f[n]
    OBVIOUS
  <2>7. g[0] = a
    BY <2>1, <2>6
  <2>8. ASSUME NEW n \in 1 .. k + 1
        PROVE  g[n] = st[n][g[n - 1]]
    <3>1. CASE n = k + 1
      BY <3>1, <2>6
    <3>2. CASE n \in 1 .. k
      <4>1. n - 1 \in 0 .. k /\ n \in 0 .. k
        BY <3>2
      <4>2. g[n] = f[n] /\ g[n - 1] = f[n - 1]
        BY <4>1, <2>6
      <4> HIDE DEF g
      <4> QED BY <2>1, <3>2, <4>2
    <3> QED BY <3>1, <3>2
  <2> HIDE DEF g
  <2> QED BY <2>5, <2>7, <2>8
<1> HIDE DEF S
<1>3. N \in S
  BY <1>1, <1>2, Inductive, N \in 0 .. N
<1> QED BY <1>3 DEF S, Iterates

\* Sequence u is s, of m elements of T, with t, of n, behind it.
IsConcat(u, s, t, m, n, T) ==
    /\ u \in Seq(T) /\ Len(u) = m + n
    /\ \A i \in 1 .. m + n : u[i] = IF i <= m THEN s[i] ELSE t[i - m]

\* Two sequences of known lengths, one behind the other.
LEMMA ConcatIs ==
    ASSUME NEW T, NEW s \in Seq(T), NEW t \in Seq(T), NEW m, NEW n, Len(s) = m, Len(t) = n
    PROVE  IsConcat(s \o t, s, t, m, n, T)
BY ConcatProperties DEF IsConcat

Seqs(T) == Seq(Seq(T))

\* The sequences that the first of ss make together, up to all of them.
AreParts(f, ss) ==
    /\ DOMAIN f = 0 .. Len(ss) /\ f[0] = <<>> /\ f[Len(ss)] = FlattenSeq(ss)
    /\ \A k \in 1 .. Len(ss) : f[k] = f[k - 1] \o ss[k]
Parts(ss) == CHOOSE f : AreParts(f, ss)

\* FlattenSeq puts its sequences one behind the other.
LEMMA FlattenHasParts ==
    ASSUME NEW T, NEW ss \in Seqs(T)
    PROVE  \E f : AreParts(f, ss)
<1>0. PICK N \in Nat : N = Len(ss)
  BY DEF Seqs
<1>1. CASE N = 0
  <2>1. FlattenSeq(ss) = ss /\ ss = <<>>
    BY <1>0, <1>1, EmptySeq DEF FlattenSeq, Seqs
  <2> DEFINE f == [k \in 0 .. 0 |-> <<>>]
  <2>2. DOMAIN f = 0 .. 0 /\ f[0] = <<>>
    OBVIOUS
  <2> HIDE DEF f
  <2>3. AreParts(f, ss)
    BY <1>0, <1>1, <2>1, <2>2 DEF AreParts
  <2> QED BY <2>3
<1>2. CASE N # 0
  <2>1. \A k \in 1 .. N : ss[k] \in Seq(T)
    BY <1>0 DEF Seqs
  <2> DEFINE st == [k \in 1 .. N |-> [x \in Seq(T) |-> x \o ss[k]]]
  <2>2. st \in [1 .. N -> [Seq(T) -> Seq(T)]] /\ \A k \in 1 .. N : \A x \in Seq(T) : st[k][x] = x \o ss[k]
    BY <2>1
  <2> HIDE DEF st
  <2>3. <<>> \in Seq(T)
    OBVIOUS
  <2> DEFINE A == Seq(T)
             e == <<>>
  <2>4a. st \in [1 .. N -> [A -> A]] /\ e \in A
    BY <2>2, <2>3
  <2> HIDE DEF A, e
  <2>4b. \E f : Iterates(f, A, e, N, st)
    BY <1>0, <2>4a, Iterated
  <2>4. PICK f : /\ DOMAIN f = 0 .. N /\ \A k \in 0 .. N : f[k] \in Seq(T)
                 /\ f[0] = <<>> /\ \A k \in 1 .. N : f[k] = st[k][f[k - 1]]
    <3>1. PICK f : Iterates(f, A, e, N, st)
      BY <2>4b
    <3> QED BY <3>1 DEF A, e, Iterates
  <2>5. \A k \in 1 .. N : f[k] = f[k - 1] \o ss[k]
    <3>1. \A k \in 1 .. N : k - 1 \in 0 .. N
      OBVIOUS
    <3>2. ASSUME NEW k \in 1 .. N
          PROVE  f[k] = f[k - 1] \o ss[k]
      <4>1. f[k - 1] \in Seq(T)
        BY <3>1, <2>4
      <4> QED BY <2>2, <2>4, <4>1
    <3> QED BY <3>2
  <2>6. f[1] = ss[1]
    <3>1. 1 \in 1 .. N /\ ss[1] \in Seq(T)
      BY <1>0, <1>2, <2>1
    <3>0. PICK k \in 1 .. N : k = 1
      BY <3>1
    <3>2. f[k] = f[k - 1] \o ss[k]
      BY <2>5
    <3>2a. k - 1 = 0
      BY <3>0
    <3>3. f[1] = <<>> \o ss[1]
      BY <2>4, <3>0, <3>2, <3>2a
    <3> QED BY <3>1, <3>3, ConcatEmptySeq
  <2> DEFINE g == [i \in 1 .. Len(ss) |-> f[i]]
             flatten == CHOOSE h : h = [i \in 1 .. Len(ss) |-> IF i = 1 THEN ss[i] ELSE h[i - 1] \o ss[i]]
  <2>7. g = [i \in 1 .. Len(ss) |-> IF i = 1 THEN ss[i] ELSE g[i - 1] \o ss[i]]
    <3>1. ASSUME NEW i \in 1 .. Len(ss)
          PROVE  g[i] = IF i = 1 THEN ss[i] ELSE g[i - 1] \o ss[i]
      <4>1. CASE i = 1
        BY <4>1, <2>6
      <4>2. CASE i # 1
        <5>1. i \in 1 .. N /\ i - 1 \in 1 .. Len(ss)
          BY <1>0, <4>2
        <5>2. g[i] = f[i] /\ g[i - 1] = f[i - 1]
          BY <5>1
        <5> HIDE DEF g
        <5> QED BY <2>5, <4>2, <5>1, <5>2
      <4> QED BY <4>1, <4>2
    <3> QED BY <3>1
  <2>8. flatten = [i \in 1 .. Len(ss) |-> IF i = 1 THEN ss[i] ELSE flatten[i - 1] \o ss[i]]
    <3> HIDE DEF g
    <3> QED BY <2>7
  <2>8a. flatten = [i \in 1 .. N |-> IF i = 1 THEN ss[i] ELSE flatten[i - 1] \o ss[i]]
    BY <2>8, <1>0
  <2>9. FlattenSeq(ss) = flatten[Len(ss)]
    BY <1>0, <1>2 DEF FlattenSeq
  <2> HIDE DEF flatten, g
  <2> DEFINE g2 == [i \in 1 .. N |-> IF i = 1 THEN ss[i] ELSE flatten[i - 1] \o ss[i]]
  <2>10. \A k \in 2 .. N : flatten[k] = flatten[k - 1] \o ss[k]
    <3>1. ASSUME NEW k \in 2 .. N
          PROVE  g2[k] = flatten[k - 1] \o ss[k]
      <4>1. k \in 1 .. N /\ k # 1
        BY <1>0
      <4> QED BY <4>1
    <3>2. flatten = g2
      BY <2>8a
    <3> HIDE DEF g2
    <3> QED BY <3>1, <3>2
  <2>11. flatten[1] = ss[1]
    <3>1. g2[1] = ss[1]
      BY <1>0, <1>2
    <3>2. flatten = g2
      BY <2>8a
    <3> HIDE DEF g2
    <3> QED BY <3>1, <3>2
  <2>12. flatten[N] = f[N]
    <3> DEFINE S == {0} \cup {k \in 1 .. N : flatten[k] = f[k]}
    <3>1. \A k \in 0 .. N - 1 : k \in S => k + 1 \in S
      <4> SUFFICES ASSUME NEW k \in 0 .. N - 1, k \in S
                   PROVE  k + 1 \in S
        OBVIOUS
      <4>1. CASE k = 0
        BY <4>1, <1>2, <2>6, <2>11
      <4>2. CASE k # 0
        <5>1. k + 1 \in 2 .. N /\ k + 1 \in 1 .. N /\ (k + 1) - 1 = k
          BY <4>2
        <5>2. flatten[k + 1] = flatten[k] \o ss[k + 1] /\ f[k + 1] = f[k] \o ss[k + 1]
          BY <2>10, <2>5, <5>1
        <5>3. flatten[k] = f[k]
          BY <4>2
        <5>4. flatten[k + 1] = f[k + 1]
          BY <5>2, <5>3
        <5> QED BY <5>1, <5>4
      <4> QED BY <4>1, <4>2
    <3>2. 0 \in S
      OBVIOUS
    <3> HIDE DEF S
    <3>3. 0 .. N \subseteq S
      BY <3>1, <3>2, Inductive
    <3> QED BY <3>3, <1>2 DEF S
  <2>13. AreParts(f, ss)
    BY <1>0, <2>4, <2>5, <2>9, <2>12 DEF AreParts
  <2> QED BY <2>13
<1> QED BY <1>1, <1>2

PartsOf(f, ss, N, T) ==
    /\ \A k \in 0 .. N : f[k] \in Seq(T) /\ Len(f[k]) \in Nat
    /\ f[0] = <<>> /\ Len(f[0]) = 0
    /\ \A k \in 1 .. N : /\ f[k] = f[k - 1] \o ss[k]
                         /\ k - 1 \in 0 .. N /\ ss[k] \in Seq(T)
                         /\ Len(f[k]) = Len(f[k - 1]) + Len(ss[k])
    /\ FlattenSeq(ss) = f[N] /\ FlattenSeq(ss) \in Seq(T)

\* What the parts are.
LEMMA PartsAre ==
    ASSUME NEW T, NEW ss \in Seqs(T), NEW N \in Nat, N = Len(ss)
    PROVE  PartsOf(Parts(ss), ss, N, T)
<1> DEFINE f == Parts(ss)
<1>1. AreParts(f, ss)
  BY FlattenHasParts DEF Parts
<1> HIDE DEF f
<1>2. /\ f[0] = <<>> /\ f[N] = FlattenSeq(ss)
      /\ \A k \in 1 .. N : f[k] = f[k - 1] \o ss[k]
  BY <1>1 DEF AreParts
<1>3. \A k \in 1 .. N : ss[k] \in Seq(T)
  BY DEF Seqs
<1>4. \A k \in 0 .. N : f[k] \in Seq(T)
  <2> DEFINE S == {k \in 0 .. N : f[k] \in Seq(T)}
  <2>1. 0 \in S
    <3>1. f[0] \in Seq(T) /\ 0 \in 0 .. N
      BY <1>2, EmptySeq
    <3> QED BY <3>1
  <2>2. \A k \in 0 .. N - 1 : k \in S => k + 1 \in S
    <3> SUFFICES ASSUME NEW k \in 0 .. N - 1, k \in S
                 PROVE  k + 1 \in S
      OBVIOUS
    <3>1. k + 1 \in 1 .. N /\ (k + 1) - 1 = k /\ k + 1 \in 0 .. N
      OBVIOUS
    <3>2. f[k + 1] = f[k] \o ss[k + 1]
      BY <1>2, <3>1
    <3>3. ss[k + 1] \in Seq(T) /\ f[k] \in Seq(T)
      BY <1>3, <3>1
    <3>4. f[k + 1] \in Seq(T)
      BY <3>2, <3>3, ConcatProperties
    <3> QED BY <3>1, <3>4
  <2> HIDE DEF S
  <2>3. 0 .. N \subseteq S
    BY <2>1, <2>2, Inductive
  <2> QED BY <2>3 DEF S
<1>5. \A k \in 1 .. N : k - 1 \in 0 .. N /\ Len(f[k]) = Len(f[k - 1]) + Len(ss[k])
  <2> SUFFICES ASSUME NEW k \in 1 .. N
               PROVE  k - 1 \in 0 .. N /\ Len(f[k]) = Len(f[k - 1]) + Len(ss[k])
    OBVIOUS
  <2>1. k - 1 \in 0 .. N
    OBVIOUS
  <2>2. f[k] = f[k - 1] \o ss[k] /\ f[k - 1] \in Seq(T) /\ ss[k] \in Seq(T)
    BY <1>2, <1>3, <1>4, <2>1
  <2>3. Len(f[k]) = Len(f[k - 1]) + Len(ss[k])
    BY <2>2, ConcatProperties
  <2> QED BY <2>1, <2>3
<1>6. N \in 0 .. N
  OBVIOUS
<1>7. \A k \in 0 .. N : Len(f[k]) \in Nat
  BY <1>4
<1>8. Len(f[0]) = 0
  BY <1>2
<1> QED BY <1>2, <1>3, <1>4, <1>5, <1>6, <1>7, <1>8 DEF f, PartsOf

\* A part is the beginning of every later one.
LEMMA PartsGrow ==
    ASSUME NEW T, NEW ss \in Seqs(T), NEW N \in Nat, N = Len(ss),
           NEW k \in 0 .. N, NEW l \in k .. N
    PROVE  /\ Len(Parts(ss)[k]) <= Len(Parts(ss)[l])
           /\ \A q \in 1 .. Len(Parts(ss)[k]) : Parts(ss)[l][q] = Parts(ss)[k][q]
<1> DEFINE f == Parts(ss)
<1>p. PartsOf(f, ss, N, T)
  BY PartsAre
<1> HIDE DEF f
<1>1. /\ \A i \in 0 .. N : f[i] \in Seq(T)
      /\ \A i \in 1 .. N : f[i] = f[i - 1] \o ss[i] /\ ss[i] \in Seq(T)
  BY <1>p DEF PartsOf
<1> HIDE DEF f
<1>0. PICK K \in Nat : K = Len(f[k])
  BY <1>1
<1> DEFINE S == {i \in 0 .. N : i >= k => K <= Len(f[i]) /\ \A q \in 1 .. K : f[i][q] = f[k][q]}
<1>2. 0 \in S
  BY <1>0
<1>3. \A i \in 0 .. N - 1 : i \in S => i + 1 \in S
  <2> SUFFICES ASSUME NEW i \in 0 .. N - 1, i \in S
               PROVE  i + 1 \in S
    OBVIOUS
  <2>1. i + 1 \in 1 .. N /\ (i + 1) - 1 = i /\ i + 1 \in 0 .. N /\ i \in 0 .. N
    OBVIOUS
  <2>2. CASE i + 1 <= k
    <3>1. i + 1 < k \/ i + 1 = k
      BY <2>2
    <3> QED BY <1>0, <2>1, <3>1
  <2>3. CASE i + 1 > k
    <3>1. K <= Len(f[i]) /\ \A q \in 1 .. K : f[i][q] = f[k][q]
      BY <2>1, <2>3
    <3>2. f[i + 1] = f[i] \o ss[i + 1] /\ f[i] \in Seq(T) /\ ss[i + 1] \in Seq(T)
      BY <1>1, <2>1
    <3> DEFINE u == f[i]
               v == ss[i + 1]
    <3> HIDE DEF u, v
    <3>3. PICK a \in Nat, b \in Nat : a = Len(u) /\ b = Len(v)
      BY <3>2 DEF u, v
    <3>4. u \in Seq(T) /\ v \in Seq(T) /\ f[i + 1] = u \o v
      BY <3>2 DEF u, v
    <3>5. Len(u \o v) = a + b /\ \A q \in 1 .. a + b : (u \o v)[q] = IF q <= a THEN u[q] ELSE v[q - a]
      BY <3>3, <3>4, ConcatProperties
    <3>6. K <= Len(f[i + 1]) /\ \A q \in 1 .. K : f[i + 1][q] = u[q]
      BY <3>1, <3>3, <3>4, <3>5 DEF u
    <3>7. \A q \in 1 .. K : u[q] = f[k][q]
      BY <3>1 DEF u
    <3> QED BY <2>1, <3>6, <3>7
  <2> QED BY <2>1, <2>2, <2>3
<1> HIDE DEF S
<1>4. 0 .. N \subseteq S
  BY <1>2, <1>3, Inductive
<1>5. l \in S /\ l >= k
  BY <1>4
<1> QED BY <1>0, <1>5 DEF S, f

\* Where the elements of the k-th sequence are found.
LEMMA FlattenAt ==
    ASSUME NEW T, NEW ss \in Seqs(T), NEW N \in Nat, N = Len(ss),
           NEW k \in 1 .. N, NEW q \in 1 .. Len(ss[k])
    PROVE  /\ Len(Parts(ss)[k - 1]) + q \in 1 .. Len(FlattenSeq(ss))
           /\ FlattenSeq(ss)[Len(Parts(ss)[k - 1]) + q] = ss[k][q]
           /\ Parts(ss)[k][Len(Parts(ss)[k - 1]) + q] = ss[k][q]
<1> DEFINE f == Parts(ss)
<1>p. PartsOf(f, ss, N, T)
  BY PartsAre
<1> HIDE DEF f
<1>1. /\ \A i \in 0 .. N : f[i] \in Seq(T)
      /\ \A i \in 1 .. N : f[i] = f[i - 1] \o ss[i] /\ ss[i] \in Seq(T)
      /\ FlattenSeq(ss) = f[N]
  BY <1>p DEF PartsOf
<1>6. Len(f[k]) <= Len(f[N]) /\ \A p \in 1 .. Len(f[k]) : f[N][p] = f[k][p]
  <2>1. k \in 0 .. N /\ N \in k .. N
    OBVIOUS
  <2> QED BY <2>1, PartsGrow DEF f
<1> HIDE DEF f
<1> DEFINE u == f[k - 1]
           v == ss[k]
<1>2. u \in Seq(T) /\ v \in Seq(T) /\ f[k] = u \o v
  <2>1. k - 1 \in 0 .. N
    OBVIOUS
  <2> QED BY <1>1, <2>1
<1> HIDE DEF u, v
<1>3. PICK a \in Nat, b \in Nat : a = Len(u) /\ b = Len(v)
  BY <1>2
<1>4. Len(f[k]) = a + b /\ \A p \in 1 .. a + b : f[k][p] = IF p <= a THEN u[p] ELSE v[p - a]
  BY <1>2, <1>3, ConcatProperties
<1>5. f[k][a + q] = v[q] /\ a + q \in 1 .. a + b
  <2>1. q \in 1 .. b
    BY <1>3 DEF v
  <2>2. a + q \in 1 .. a + b /\ ~(a + q <= a) /\ (a + q) - a = q
    BY <2>1
  <2> QED BY <1>4, <2>2
<1>7. PICK M \in Nat : M = Len(f[N])
  BY <1>1
<1>8. a + q \in 1 .. M /\ f[N][a + q] = v[q]
  BY <1>4, <1>5, <1>6, <1>7
<1> QED BY <1>1, <1>3, <1>5, <1>7, <1>8 DEF f, u, v

\* Every element is found there.
LEMMA FlattenFrom ==
    ASSUME NEW T, NEW ss \in Seqs(T), NEW N \in Nat, N = Len(ss),
           NEW p \in 1 .. Len(FlattenSeq(ss))
    PROVE  \E k, q \in Nat : /\ k \in 1 .. N /\ q \in 1 .. Len(ss[k])
                             /\ p = Len(Parts(ss)[k - 1]) + q
                             /\ FlattenSeq(ss)[p] = ss[k][q]
<1> DEFINE f == Parts(ss)
<1>p. PartsOf(f, ss, N, T)
  BY PartsAre
<1> HIDE DEF f
<1>1. /\ \A i \in 0 .. N : f[i] \in Seq(T) /\ Len(f[i]) \in Nat
      /\ \A i \in 1 .. N : Len(f[i]) = Len(f[i - 1]) + Len(ss[i]) /\ ss[i] \in Seq(T)
      /\ FlattenSeq(ss) = f[N] /\ Len(f[0]) = 0
  BY <1>p DEF PartsOf
<1> HIDE DEF f
<1>0. p \in Nat /\ p > 0 /\ p <= Len(f[N]) /\ N \in 0 .. N
  BY <1>1
<1> DEFINE S == {k \in 0 .. N : p <= Len(f[k])}
<1>2. N \in S /\ S \subseteq Nat
  BY <1>0
<1>3. S # {} /\ S \subseteq Nat
  BY <1>2
<1>4. PICK k \in S : \A l \in S : k <= l
  <2> HIDE DEF S
  <2> QED BY <1>3, LeastIs
<1>5. k # 0 /\ k \in 0 .. N
  BY <1>0, <1>1, <1>4
<1>6. k \in 1 .. N /\ k - 1 \in 0 .. N /\ ~(k <= k - 1)
  BY <1>5
<1>7. k - 1 \notin S
  <2> HIDE DEF S
  <2> QED BY <1>4, <1>6
<1>8. PICK a \in Nat, b \in Nat : a = Len(f[k - 1]) /\ b = Len(ss[k])
  <2>1. Len(f[k - 1]) \in Nat /\ ss[k] \in Seq(T)
    BY <1>1, <1>6
  <2> QED BY <2>1
<1>9. Len(f[k]) = a + b
  BY <1>1, <1>6, <1>8
<1>10. p <= a + b /\ p > a
  <2>1. p <= Len(f[k]) /\ ~(p <= Len(f[k - 1]))
    BY <1>4, <1>6, <1>7
  <2>2. p <= a + b /\ ~(p <= a)
    BY <1>8, <1>9, <2>1
  <2>3. p \in Nat /\ a \in Nat /\ b \in Nat
    BY <1>0, <1>8
  <2> QED BY <2>2, <2>3
<1>11. PICK q \in Nat : q \in 1 .. b /\ p = a + q
  <2>1. p - a \in 1 .. b /\ p = a + (p - a)
    BY <1>0, <1>10
  <2> QED BY <2>1
<1>12. FlattenSeq(ss)[p] = ss[k][q]
  <2>1. k \in 1 .. N /\ q \in 1 .. Len(ss[k])
    BY <1>6, <1>8, <1>11
  <2>2. FlattenSeq(ss)[Len(f[k - 1]) + q] = ss[k][q]
    BY <2>1, FlattenAt DEF f
  <2> QED BY <2>2, <1>8, <1>11
<1> QED BY <1>6, <1>8, <1>11, <1>12 DEF f

Tags == {"USAGE_PAGE", "USAGE", "COLLECTION", "REPORT_ID", "SIZE", "COUNT", "END"} \cup Types
Vals == STRING \cup Nat \cup {"physical", "application", "none"}
Items == [tag : Tags, val : Vals]
Maps == Seq(Collection)

-----------------------------------------------------------------------------
(* The items of a map, place by place.                                     *)

\* The phases of a field, the item of each and where it is among the field's.
Phases == {"id", "page", "usage", "nest", "size", "count", "main", "unnest"}
Has(f, ph) == /\ ph = "id" => f.id # 0
              /\ ph \in {"nest", "unnest"} => f.nest
IdItems(f) == IF f.id = 0 THEN 0 ELSE 1
NestItems(f) == IF f.nest THEN 1 ELSE 0
At(f, ph) == CASE ph = "id" -> 1
               [] ph = "page" -> IdItems(f) + 1
               [] ph = "usage" -> IdItems(f) + 2
               [] ph = "nest" -> IdItems(f) + 3
               [] ph = "size" -> IdItems(f) + NestItems(f) + 3
               [] ph = "count" -> IdItems(f) + NestItems(f) + 4
               [] ph = "main" -> IdItems(f) + NestItems(f) + 5
               [] ph = "unnest" -> IdItems(f) + NestItems(f) + 6
FieldItem(f, ph) == CASE ph = "id" -> Item("REPORT_ID", f.id)
                      [] ph = "page" -> Item("USAGE_PAGE", f.page)
                      [] ph = "usage" -> Item("USAGE", f.usage)
                      [] ph = "nest" -> Item("COLLECTION", "physical")
                      [] ph = "size" -> Item("SIZE", f.size)
                      [] ph = "count" -> Item("COUNT", f.count)
                      [] ph = "main" -> Item(f.type, 0)
                      [] ph = "unnest" -> Item("END", 0)

\* The items of a field.
LEMMA FieldItemsAre ==
    ASSUME NEW f \in Field
    PROVE  /\ FieldItems(f) \in Seq(Items)
           /\ Len(FieldItems(f)) = IdItems(f) + 5 + 2 * NestItems(f)
           /\ \A ph \in Phases : Has(f, ph) => /\ At(f, ph) \in 1 .. Len(FieldItems(f))
                                               /\ FieldItems(f)[At(f, ph)] = FieldItem(f, ph)
<1> DEFINE a == IF f.id = 0 THEN <<>> ELSE <<Item("REPORT_ID", f.id)>>
           b == <<Item("USAGE_PAGE", f.page), Item("USAGE", f.usage)>>
           c == IF f.nest THEN <<Item("COLLECTION", "physical")>> ELSE <<>>
           e == <<Item("SIZE", f.size), Item("COUNT", f.count), Item(f.type, 0)>>
           g == IF f.nest THEN <<Item("END", 0)>> ELSE <<>>
           x == IdItems(f)
           y == NestItems(f)
<1>0. x \in 0 .. 1 /\ y \in 0 .. 1
  BY DEF IdItems, NestItems
<1>t. /\ f.id \in Nat /\ f.page \in STRING /\ f.usage \in STRING /\ f.type \in Types
      /\ f.size \in Nat /\ f.count \in Nat /\ f.nest \in BOOLEAN
  BY DEF Field
<1>i. /\ Item("REPORT_ID", f.id) \in Items /\ Item("USAGE_PAGE", f.page) \in Items
      /\ Item("USAGE", f.usage) \in Items /\ Item("COLLECTION", "physical") \in Items
      /\ Item("SIZE", f.size) \in Items /\ Item("COUNT", f.count) \in Items
      /\ Item(f.type, 0) \in Items /\ Item("END", 0) \in Items
  BY <1>t DEF Item, Items, Tags, Vals
<1>1. a \in Seq(Items) /\ Len(a) = x /\ (x = 1 => a[1] = Item("REPORT_ID", f.id))
  BY <1>i DEF IdItems
<1>2. b \in Seq(Items) /\ Len(b) = 2 /\ b[1] = Item("USAGE_PAGE", f.page) /\ b[2] = Item("USAGE", f.usage)
  BY <1>i
<1>3. c \in Seq(Items) /\ Len(c) = y /\ (y = 1 => c[1] = Item("COLLECTION", "physical"))
  BY <1>i DEF NestItems
<1>4. e \in Seq(Items) /\ Len(e) = 3 /\ e[1] = Item("SIZE", f.size)
      /\ e[2] = Item("COUNT", f.count) /\ e[3] = Item(f.type, 0)
  BY <1>i
<1>5. g \in Seq(Items) /\ Len(g) = y /\ (y = 1 => g[1] = Item("END", 0))
  BY <1>i DEF NestItems
<1>6. FieldItems(f) = (((a \o b) \o c) \o e) \o g
  BY DEF FieldItems
<1> HIDE DEF a, b, c, e, g, x, y
<1>7. /\ a \o b \in Seq(Items) /\ Len(a \o b) = x + 2
      /\ \A i \in 1 .. x + 2 : (a \o b)[i] = IF i <= x THEN a[i] ELSE b[i - (x)]
  <2>1. PICK p, q \in Nat : p = x /\ q = 2
    BY <1>0
  <2>2. a \in Seq(Items) /\ b \in Seq(Items) /\ Len(a) = p /\ Len(b) = q
    BY <2>1, <1>1, <1>2
  <2>3. IsConcat(a \o b, a, b, p, q, Items)
    BY <2>2, ConcatIs
  <2>4. p + q = x + 2
    BY <1>0, <2>1
  <2> QED BY <2>1, <2>3, <2>4 DEF IsConcat
<1> DEFINE ab == a \o b
<1> HIDE DEF ab
<1>8. /\ ab \o c \in Seq(Items) /\ Len(ab \o c) = x + 2 + y
      /\ \A i \in 1 .. x + 2 + y : (ab \o c)[i] = IF i <= x + 2 THEN ab[i] ELSE c[i - (x + 2)]
  <2>1. PICK p, q \in Nat : p = x + 2 /\ q = y
    BY <1>0
  <2>2. ab \in Seq(Items) /\ c \in Seq(Items) /\ Len(ab) = p /\ Len(c) = q
    BY <2>1, <1>7, <1>3 DEF ab
  <2>3. IsConcat(ab \o c, ab, c, p, q, Items)
    BY <2>2, ConcatIs
  <2>4. p + q = x + 2 + y
    BY <1>0, <2>1
  <2> QED BY <2>1, <2>3, <2>4 DEF IsConcat
<1> DEFINE abc == ab \o c
<1> HIDE DEF abc
<1>9. /\ abc \o e \in Seq(Items) /\ Len(abc \o e) = x + 5 + y
      /\ \A i \in 1 .. x + 5 + y : (abc \o e)[i] = IF i <= x + 2 + y THEN abc[i] ELSE e[i - (x + 2 + y)]
  <2>1. PICK p, q \in Nat : p = x + 2 + y /\ q = 3
    BY <1>0
  <2>2. abc \in Seq(Items) /\ e \in Seq(Items) /\ Len(abc) = p /\ Len(e) = q
    BY <2>1, <1>8, <1>4 DEF abc
  <2>3. IsConcat(abc \o e, abc, e, p, q, Items)
    BY <2>2, ConcatIs
  <2>4. p + q = x + 5 + y
    BY <1>0, <2>1
  <2> QED BY <2>1, <2>3, <2>4 DEF IsConcat
<1> DEFINE abce == abc \o e
<1> HIDE DEF abce
<1>10. /\ abce \o g \in Seq(Items) /\ Len(abce \o g) = x + 5 + 2 * y
      /\ \A i \in 1 .. x + 5 + 2 * y : (abce \o g)[i] = IF i <= x + 5 + y THEN abce[i] ELSE g[i - (x + 5 + y)]
  <2>1. PICK p, q \in Nat : p = x + 5 + y /\ q = y
    BY <1>0
  <2>2. abce \in Seq(Items) /\ g \in Seq(Items) /\ Len(abce) = p /\ Len(g) = q
    BY <2>1, <1>9, <1>5 DEF abce
  <2>3. IsConcat(abce \o g, abce, g, p, q, Items)
    BY <2>2, ConcatIs
  <2>4. p + q = x + 5 + 2 * y
    BY <1>0, <2>1
  <2> QED BY <2>1, <2>3, <2>4 DEF IsConcat
<1> DEFINE all == abce \o g
<1>11. FieldItems(f) = all
  BY <1>6 DEF ab, abc, abce
<1> HIDE DEF all
<1>12. /\ \A i \in 1 .. x + 2 : ab[i] = IF i <= x THEN a[i] ELSE b[i - x]
       /\ \A i \in 1 .. x + 2 + y : abc[i] = IF i <= x + 2 THEN ab[i] ELSE c[i - (x + 2)]
       /\ \A i \in 1 .. x + 5 + y : abce[i] = IF i <= x + 2 + y THEN abc[i] ELSE e[i - (x + 2 + y)]
       /\ \A i \in 1 .. x + 5 + 2 * y : all[i] = IF i <= x + 5 + y THEN abce[i] ELSE g[i - (x + 5 + y)]
  BY <1>7, <1>8, <1>9, <1>10 DEF ab, abc, abce, all
<1>13. Len(all) = x + 5 + 2 * y /\ all \in Seq(Items)
  BY <1>10 DEF all
<1>14. ASSUME NEW ph \in Phases, Has(f, ph)
       PROVE  At(f, ph) \in 1 .. x + 5 + 2 * y /\ all[At(f, ph)] = FieldItem(f, ph)
  <2>p. PICK p \in Nat : p = At(f, ph)
    BY <1>0 DEF At, Phases, x, y
  <2>1. CASE ph = "id"
    <3>1. x = 1 /\ p = 1 /\ FieldItem(f, ph) = Item("REPORT_ID", f.id)
      BY <1>14, <2>p, <2>1 DEF Has, At, FieldItem, x, IdItems
    <3> QED BY <1>0, <1>1, <1>12, <2>p, <3>1
  <2>2. CASE ph = "page"
    <3>1. p = x + 1 /\ FieldItem(f, ph) = b[1]
      BY <2>p, <2>2, <1>2 DEF At, FieldItem, x
    <3>2. p - x = 1
      BY <1>0, <3>1
    <3> QED BY <1>0, <1>12, <2>p, <3>1, <3>2
  <2>3. CASE ph = "usage"
    <3>1. p = x + 2 /\ FieldItem(f, ph) = b[2]
      BY <2>p, <2>3, <1>2 DEF At, FieldItem, x
    <3>2. p - x = 2
      BY <1>0, <3>1
    <3> QED BY <1>0, <1>12, <2>p, <3>1, <3>2
  <2>4. CASE ph = "nest"
    <3>1. y = 1 /\ p = x + 3 /\ FieldItem(f, ph) = c[1]
      BY <1>14, <2>p, <2>4, <1>3 DEF Has, At, FieldItem, x, y, NestItems
    <3>2. p - (x + 2) = 1
      BY <1>0, <3>1
    <3> QED BY <1>0, <1>12, <2>p, <3>1, <3>2
  <2>5. CASE ph = "size"
    <3>1. p = x + y + 3 /\ FieldItem(f, ph) = e[1]
      BY <2>p, <2>5, <1>4 DEF At, FieldItem, x, y
    <3>2. p - (x + 2 + y) = 1
      BY <1>0, <3>1
    <3> QED BY <1>0, <1>12, <2>p, <3>1, <3>2
  <2>6. CASE ph = "count"
    <3>1. p = x + y + 4 /\ FieldItem(f, ph) = e[2]
      BY <2>p, <2>6, <1>4 DEF At, FieldItem, x, y
    <3>2. p - (x + 2 + y) = 2
      BY <1>0, <3>1
    <3> QED BY <1>0, <1>12, <2>p, <3>1, <3>2
  <2>7. CASE ph = "main"
    <3>1. p = x + y + 5 /\ FieldItem(f, ph) = e[3]
      BY <2>p, <2>7, <1>4 DEF At, FieldItem, x, y
    <3>2. p - (x + 2 + y) = 3
      BY <1>0, <3>1
    <3> QED BY <1>0, <1>12, <2>p, <3>1, <3>2
  <2>8. CASE ph = "unnest"
    <3>1. y = 1 /\ p = x + y + 6 /\ FieldItem(f, ph) = g[1]
      BY <1>14, <2>p, <2>8, <1>5 DEF Has, At, FieldItem, x, y, NestItems
    <3>2. p - (x + 5 + y) = 1
      BY <1>0, <3>1
    <3> QED BY <1>0, <1>12, <2>p, <3>1, <3>2
  <2> QED BY <2>1, <2>2, <2>3, <2>4, <2>5, <2>6, <2>7, <2>8 DEF Phases
<1> QED BY <1>11, <1>13, <1>14 DEF x, y

FieldSeqs(c) == [i \in DOMAIN c.fields |-> FieldItems(c.fields[i])]
CollectionSeqs(m) == [i \in DOMAIN m |-> CollectionItems(m[i])]

\* The items of a collection's fields, and of a map's collections, before one.
FOff(c, j) == Len(Parts(FieldSeqs(c))[j - 1])
COff(m, n) == Len(Parts(CollectionSeqs(m))[n - 1])

Heading(c) == <<Item("USAGE_PAGE", c.page), Item("USAGE", c.usage),
                Item("COLLECTION", "application")>>

CollectionLaid(c, L, items) ==
    /\ items \in Seq(Items) /\ Len(items) = FOff(c, L + 1) + 4
    /\ items[1] = Item("USAGE_PAGE", c.page) /\ items[2] = Item("USAGE", c.usage)
    /\ items[3] = Item("COLLECTION", "application")
    /\ items[FOff(c, L + 1) + 4] = Item("END", 0)
    /\ FOff(c, L + 1) \in Nat /\ FOff(c, 1) = 0
    /\ \A j \in 1 .. L : /\ FOff(c, j) \in Nat
                         /\ FOff(c, j + 1) = FOff(c, j) + Len(FieldItems(c.fields[j]))
                         /\ FOff(c, j + 1) <= FOff(c, L + 1)
    /\ \A j \in 1 .. L : \A ph \in Phases : Has(c.fields[j], ph) =>
          items[FOff(c, j) + At(c.fields[j], ph) + 3] = FieldItem(c.fields[j], ph)

\* The items of a collection.
LEMMA CollectionItemsAre ==
    ASSUME NEW c \in Collection, NEW L \in Nat, L = Len(c.fields)
    PROVE  CollectionLaid(c, L, CollectionItems(c))
<1> DEFINE ss == FieldSeqs(c)
           f == Parts(ss)
           mid == FlattenSeq(ss)
           end == <<Item("END", 0)>>
<1>t. /\ c.page \in STRING /\ c.usage \in STRING /\ c.fields \in Seq(Field) /\ DOMAIN c.fields = 1 .. L
      /\ \A j \in 1 .. L : c.fields[j] \in Field
  BY DEF Collection
<1>1. ss \in Seqs(Items) /\ Len(ss) = L /\ \A j \in 1 .. L : ss[j] = FieldItems(c.fields[j])
  <2>1. \A j \in 1 .. L : FieldItems(c.fields[j]) \in Seq(Items)
    BY <1>t, FieldItemsAre
  <2>2. ss = [j \in 1 .. L |-> FieldItems(c.fields[j])]
    BY <1>t DEF FieldSeqs
  <2> QED BY <2>1, <2>2 DEF Seqs
<1>i. /\ Heading(c) \in Seq(Items) /\ Len(Heading(c)) = 3 /\ Heading(c)[1] = Item("USAGE_PAGE", c.page)
      /\ Heading(c)[2] = Item("USAGE", c.usage) /\ Heading(c)[3] = Item("COLLECTION", "application")
  <2>1. /\ Item("USAGE_PAGE", c.page) \in Items /\ Item("USAGE", c.usage) \in Items
        /\ Item("COLLECTION", "application") \in Items
    BY <1>t DEF Item, Items, Tags, Vals
  <2> QED BY <2>1 DEF Heading
<1>e. end \in Seq(Items) /\ Len(end) = 1 /\ end[1] = Item("END", 0)
  <2>1. Item("END", 0) \in Items
    BY DEF Item, Items, Tags, Vals
  <2> QED BY <2>1
<1>m. CollectionItems(c) = (Heading(c) \o mid) \o end
  BY DEF CollectionItems, FieldSeqs, Heading
<1>o. \A j \in 1 .. L + 1 : FOff(c, j) = Len(f[j - 1])
  BY DEF FOff
<1> HIDE DEF ss, end
<1>2. PartsOf(f, ss, L, Items)
  BY <1>1, PartsAre
<1> HIDE DEF f
<1>3. \A j \in 1 .. L : /\ FOff(c, j) \in Nat
                        /\ FOff(c, j + 1) = FOff(c, j) + Len(FieldItems(c.fields[j]))
                        /\ FOff(c, j + 1) <= FOff(c, L + 1)
  <2> SUFFICES ASSUME NEW j \in 1 .. L
               PROVE  /\ FOff(c, j) \in Nat
                      /\ FOff(c, j + 1) = FOff(c, j) + Len(FieldItems(c.fields[j]))
                      /\ FOff(c, j + 1) <= FOff(c, L + 1)
    OBVIOUS
  <2>1. FOff(c, j) = Len(f[j - 1]) /\ FOff(c, j + 1) = Len(f[j]) /\ FOff(c, L + 1) = Len(f[L])
    <3>1. (j + 1) - 1 = j /\ (L + 1) - 1 = L
      OBVIOUS
    <3> QED BY <3>1 DEF FOff, f, ss
  <2>2. Len(f[j - 1]) \in Nat /\ Len(f[j]) = Len(f[j - 1]) + Len(ss[j])
    BY <1>2 DEF PartsOf
  <2>3. Len(f[j]) <= Len(f[L])
    <3>1. j \in 0 .. L /\ L \in j .. L
      OBVIOUS
    <3> QED BY <1>1, <3>1, PartsGrow DEF f
  <2> QED BY <1>1, <2>1, <2>2, <2>3
<1>4. FOff(c, 1) = 0 /\ FOff(c, L + 1) = Len(mid) /\ mid \in Seq(Items)
  <2>1. FOff(c, 1) = Len(f[0]) /\ FOff(c, L + 1) = Len(f[L])
    <3>1. 1 - 1 = 0 /\ (L + 1) - 1 = L
      OBVIOUS
    <3> QED BY <3>1 DEF FOff, f, ss
  <2> QED BY <1>2, <2>1 DEF PartsOf
<1>5. PICK M \in Nat : M = FOff(c, L + 1)
  BY <1>4
<1>6. ASSUME NEW j \in 1 .. L, NEW ph \in Phases, Has(c.fields[j], ph)
      PROVE  /\ FOff(c, j) + At(c.fields[j], ph) \in 1 .. M
             /\ mid[FOff(c, j) + At(c.fields[j], ph)] = FieldItem(c.fields[j], ph)
  <2>1. PICK q \in Nat : q = At(c.fields[j], ph)
    BY <1>t, <1>6, FieldItemsAre
  <2>2. q \in 1 .. Len(ss[j]) /\ ss[j][q] = FieldItem(c.fields[j], ph)
    BY <1>t, <1>1, <1>6, <2>1, FieldItemsAre
  <2>3. Len(f[j - 1]) + q \in 1 .. Len(mid) /\ mid[Len(f[j - 1]) + q] = ss[j][q]
    BY <1>1, <2>2, FlattenAt DEF f
  <2>4. FOff(c, j) = Len(f[j - 1])
    BY <1>o
  <2> QED BY <1>4, <1>5, <2>1, <2>2, <2>3, <2>4
<1> DEFINE hm == Heading(c) \o mid
<1> HIDE DEF mid
<1>7. IsConcat(hm, Heading(c), mid, 3, M, Items)
  BY <1>i, <1>4, <1>5, ConcatIs
<1> HIDE DEF hm
<1>8. IsConcat(hm \o end, hm, end, M + 3, 1, Items)
  <2>1. hm \in Seq(Items) /\ Len(hm) = M + 3
    BY <1>5, <1>7 DEF IsConcat
  <2> QED BY <1>e, <2>1, ConcatIs
<1> DEFINE all == hm \o end
<1>9. CollectionItems(c) = all
  BY <1>m DEF hm
<1> HIDE DEF all
<1>10. /\ all \in Seq(Items) /\ Len(all) = M + 4
       /\ \A i \in 1 .. M + 4 : all[i] = IF i <= M + 3 THEN hm[i] ELSE end[i - (M + 3)]
       /\ \A i \in 1 .. M + 3 : hm[i] = IF i <= 3 THEN Heading(c)[i] ELSE mid[i - 3]
  <2>1. (M + 3) + 1 = M + 4 /\ 3 + M = M + 3
    BY <1>5
  <2> QED BY <1>7, <1>8, <2>1 DEF IsConcat, all
<1>11. all[1] = Heading(c)[1] /\ all[2] = Heading(c)[2] /\ all[3] = Heading(c)[3]
  <2>1. \A i \in 1 .. 3 : all[i] = Heading(c)[i]
    BY <1>5, <1>10
  <2> QED BY <2>1
<1>12. all[M + 4] = Item("END", 0)
  <2>1. PICK i \in 1 .. M + 4 : i = M + 4 /\ ~(i <= M + 3) /\ i - (M + 3) = 1
    BY <1>5
  <2>2. all[i] = end[i - (M + 3)]
    BY <1>10, <2>1
  <2> QED BY <1>e, <2>1, <2>2
<1>13. ASSUME NEW j \in 1 .. L, NEW ph \in Phases, Has(c.fields[j], ph)
       PROVE  all[FOff(c, j) + At(c.fields[j], ph) + 3] = FieldItem(c.fields[j], ph)
  <2>1. PICK p \in 1 .. M : p = FOff(c, j) + At(c.fields[j], ph)
    BY <1>6, <1>13
  <2>2. mid[p] = FieldItem(c.fields[j], ph)
    BY <1>6, <1>13, <2>1
  <2>3. PICK i \in 1 .. M + 3 : i = p + 3 /\ i - 3 = p /\ ~(i <= 3)
    BY <1>5, <2>1
  <2>4. i \in 1 .. M + 4 /\ i <= M + 3
    BY <1>5, <2>3
  <2>5. all[i] = mid[p]
    BY <1>10, <2>3, <2>4
  <2> QED BY <2>1, <2>2, <2>3, <2>5
<1> QED BY <1>i, <1>3, <1>4, <1>5, <1>9, <1>10, <1>11, <1>12, <1>13 DEF CollectionLaid

MapLaid(m, N) ==
    /\ MapItems(m) \in Seq(Items) /\ Len(MapItems(m)) \in Nat
    /\ COff(m, 1) = 0 /\ COff(m, N + 1) = Len(MapItems(m))
    /\ \A n \in 1 .. N :
          /\ COff(m, n) \in Nat /\ COff(m, n + 1) = COff(m, n) + Len(CollectionItems(m[n]))
          /\ \A q \in 1 .. Len(CollectionItems(m[n])) :
                /\ COff(m, n) + q \in 1 .. Len(MapItems(m))
                /\ MapItems(m)[COff(m, n) + q] = CollectionItems(m[n])[q]

\* The items of a map.
LEMMA MapItemsAre ==
    ASSUME NEW m \in Maps, NEW N \in Nat, N = Len(m)
    PROVE  MapLaid(m, N)
<1> DEFINE ss == CollectionSeqs(m)
           f == Parts(ss)
<1>t. DOMAIN m = 1 .. N /\ \A n \in 1 .. N : m[n] \in Collection
  BY DEF Maps
<1>c. ASSUME NEW n \in 1 .. N
      PROVE  CollectionItems(m[n]) \in Seq(Items)
  <2>1. m[n] \in Collection
    BY <1>t
  <2>2. m[n].fields \in Seq(Field)
    BY <2>1 DEF Collection
  <2>3. PICK L \in Nat : L = Len(m[n].fields)
    BY <2>2
  <2> QED BY <2>1, <2>3, CollectionItemsAre DEF CollectionLaid
<1>1. ss \in Seqs(Items) /\ Len(ss) = N /\ \A n \in 1 .. N : ss[n] = CollectionItems(m[n])
  <2>1. ss = [n \in 1 .. N |-> CollectionItems(m[n])]
    BY <1>t DEF CollectionSeqs
  <2> QED BY <1>c, <2>1 DEF Seqs
<1>m. MapItems(m) = FlattenSeq(ss)
  BY DEF MapItems, CollectionSeqs
<1>o. COff(m, N + 1) = Len(f[N]) /\ COff(m, 1) = Len(f[0])
  <2>1. (N + 1) - 1 = N /\ 1 - 1 = 0
    OBVIOUS
  <2> QED BY <2>1 DEF COff
<1> HIDE DEF ss
<1>2. PartsOf(f, ss, N, Items)
  BY <1>1, PartsAre
<1> HIDE DEF f
<1>3. ASSUME NEW n \in 1 .. N
      PROVE  COff(m, n) = Len(f[n - 1]) /\ COff(m, n + 1) = Len(f[n])
             /\ Len(f[n - 1]) \in Nat /\ Len(f[n]) = Len(f[n - 1]) + Len(ss[n])
  <2>1. (n + 1) - 1 = n
    OBVIOUS
  <2>2. COff(m, n) = Len(f[n - 1]) /\ COff(m, n + 1) = Len(f[n])
    BY <2>1 DEF COff, f, ss
  <2> QED BY <1>2, <2>2 DEF PartsOf
<1>4. ASSUME NEW n \in 1 .. N, NEW q \in 1 .. Len(CollectionItems(m[n]))
      PROVE  /\ COff(m, n) + q \in 1 .. Len(MapItems(m))
             /\ MapItems(m)[COff(m, n) + q] = CollectionItems(m[n])[q]
  <2>1. q \in 1 .. Len(ss[n])
    BY <1>1
  <2>2. /\ Len(f[n - 1]) + q \in 1 .. Len(FlattenSeq(ss))
        /\ FlattenSeq(ss)[Len(f[n - 1]) + q] = ss[n][q]
    BY <1>1, <2>1, FlattenAt DEF f
  <2> QED BY <1>1, <1>3, <1>m, <2>2
<1>5. MapItems(m) \in Seq(Items) /\ MapItems(m) = f[N] /\ Len(f[0]) = 0 /\ Len(MapItems(m)) \in Nat
  BY <1>2, <1>m DEF PartsOf
<1> QED BY <1>1, <1>3, <1>4, <1>5, <1>o DEF MapLaid

\* A place in a map: collection n, field j of it and a phase; before the fields j
\* is 0, behind them the last, and a place behind the last collection is the end.
Pl(n, j, ph) == [n |-> n, j |-> j, ph |-> ph]
Places(m) ==
    {p \in [n : Nat, j : Nat, ph : Phases \cup {"cpage", "cusage", "copen", "close"}] :
        /\ p.n \in 1 .. Len(m) \/ (p.n = Len(m) + 1 /\ p.ph = "cpage")
        /\ p.ph \in {"cpage", "cusage", "copen"} => p.j = 0
        /\ p.ph = "close" => p.j = Len(m[p.n].fields)
        /\ p.ph \in Phases => p.j \in 1 .. Len(m[p.n].fields) /\ Has(m[p.n].fields[p.j], p.ph)}
End(m) == Pl(Len(m) + 1, 0, "cpage")

First(f) == IF f.id = 0 THEN "page" ELSE "id"
FieldOrClose(m, n, j) == IF j <= Len(m[n].fields) THEN Pl(n, j, First(m[n].fields[j]))
                         ELSE Pl(n, Len(m[n].fields), "close")
After(m, p) ==
    CASE p.ph = "cpage" -> Pl(p.n, 0, "cusage")
      [] p.ph = "cusage" -> Pl(p.n, 0, "copen")
      [] p.ph = "copen" -> FieldOrClose(m, p.n, 1)
      [] p.ph = "id" -> Pl(p.n, p.j, "page")
      [] p.ph = "page" -> Pl(p.n, p.j, "usage")
      [] p.ph = "usage" -> Pl(p.n, p.j, IF m[p.n].fields[p.j].nest THEN "nest" ELSE "size")
      [] p.ph = "nest" -> Pl(p.n, p.j, "size")
      [] p.ph = "size" -> Pl(p.n, p.j, "count")
      [] p.ph = "count" -> Pl(p.n, p.j, "main")
      [] p.ph = "main" -> IF m[p.n].fields[p.j].nest THEN Pl(p.n, p.j, "unnest")
                          ELSE FieldOrClose(m, p.n, p.j + 1)
      [] p.ph = "unnest" -> FieldOrClose(m, p.n, p.j + 1)
      [] p.ph = "close" -> Pl(p.n + 1, 0, "cpage")
PlaceAt(m, p) ==
    CASE p.ph = "cpage" -> COff(m, p.n) + 1
      [] p.ph = "cusage" -> COff(m, p.n) + 2
      [] p.ph = "copen" -> COff(m, p.n) + 3
      [] p.ph = "close" -> COff(m, p.n) + FOff(m[p.n], Len(m[p.n].fields) + 1) + 4
      [] OTHER -> COff(m, p.n) + FOff(m[p.n], p.j) + At(m[p.n].fields[p.j], p.ph) + 3
PlaceItem(m, p) ==
    CASE p.ph = "cpage" -> Item("USAGE_PAGE", m[p.n].page)
      [] p.ph = "cusage" -> Item("USAGE", m[p.n].usage)
      [] p.ph = "copen" -> Item("COLLECTION", "application")
      [] p.ph = "close" -> Item("END", 0)
      [] OTHER -> FieldItem(m[p.n].fields[p.j], p.ph)

\* A map starts at its first place and ends at its last.
LEMMA MapEnds ==
    ASSUME NEW m \in Maps
    PROVE  /\ Pl(1, 0, "cpage") \in Places(m) /\ PlaceAt(m, Pl(1, 0, "cpage")) = 1
           /\ End(m) \in Places(m) /\ PlaceAt(m, End(m)) = Len(MapItems(m)) + 1
           /\ Len(MapItems(m)) \in Nat
<1>0. PICK N \in Nat : N = Len(m)
  BY DEF Maps
<1>1. MapLaid(m, N)
  BY <1>0, MapItemsAre
<1>2. Pl(1, 0, "cpage") \in Places(m) /\ End(m) \in Places(m)
  BY <1>0 DEF Places, Pl, End, Phases
<1>3. PlaceAt(m, Pl(1, 0, "cpage")) = COff(m, 1) + 1 /\ PlaceAt(m, End(m)) = COff(m, N + 1) + 1
  BY <1>0 DEF PlaceAt, Pl, End
<1> QED BY <1>1, <1>2, <1>3 DEF MapLaid

\* At every place is its item, and one behind it the place after.
LEMMA PlaceIs ==
    ASSUME NEW m \in Maps, NEW p \in Places(m), p # End(m)
    PROVE  /\ p.n \in 1 .. Len(m) /\ m[p.n] \in Collection
           /\ PlaceAt(m, p) \in 1 .. Len(MapItems(m))
           /\ MapItems(m)[PlaceAt(m, p)] = PlaceItem(m, p)
           /\ After(m, p) \in Places(m) /\ PlaceAt(m, After(m, p)) = PlaceAt(m, p) + 1
<1>0. PICK N \in Nat : N = Len(m)
  BY DEF Maps
<1>1. MapLaid(m, N)
  BY <1>0, MapItemsAre
<1>p. PICK n, j \in Nat : n = p.n /\ j = p.j /\ p = Pl(n, j, p.ph)
  <2>1. p = Pl(p.n, p.j, p.ph) /\ p.n \in Nat /\ p.j \in Nat
    BY DEF Places, Pl
  <2> QED BY <2>1
<1>n. n \in 1 .. N
  <2>1. p.ph = "cpage" => j = 0
    BY <1>p DEF Places
  <2>2. n \in 1 .. N \/ (n = N + 1 /\ p.ph = "cpage")
    BY <1>0, <1>p DEF Places
  <2>3. CASE n = N + 1 /\ p.ph = "cpage"
    <3>1. p = End(m)
      BY <1>0, <1>p, <2>1, <2>3 DEF End
    <3> QED BY <3>1
  <2> QED BY <2>2, <2>3
<1> DEFINE c == m[n]
<1>c. c \in Collection /\ c.fields \in Seq(Field)
  <2>1. c \in Collection
    BY <1>0, <1>n DEF Maps
  <2> HIDE DEF c
  <2> QED BY <2>1 DEF Collection
<1> HIDE DEF c
<1>L. PICK L \in Nat : L = Len(c.fields)
  BY <1>c
<1>2. CollectionLaid(c, L, CollectionItems(c))
  BY <1>c, <1>L, CollectionItemsAre
<1>o. PICK o, M \in Nat : o = COff(m, n) /\ M = FOff(c, L + 1)
  BY <1>1, <1>2, <1>n DEF MapLaid, CollectionLaid
<1>3. COff(m, n + 1) = o + M + 4
  <2>1. COff(m, n + 1) = COff(m, n) + Len(CollectionItems(c))
    BY <1>1, <1>n DEF MapLaid, c
  <2>2. Len(CollectionItems(c)) = M + 4
    BY <1>2, <1>o DEF CollectionLaid
  <2> QED BY <1>o, <2>1, <2>2
<1>4. ASSUME NEW q \in 1 .. M + 4
      PROVE  o + q \in 1 .. Len(MapItems(m)) /\ MapItems(m)[o + q] = CollectionItems(c)[q]
  <2>1. q \in 1 .. Len(CollectionItems(m[n]))
    BY <1>2, <1>o DEF CollectionLaid, c
  <2> QED BY <1>1, <1>n, <1>o, <2>1 DEF MapLaid, c
<1>5. ASSUME NEW i \in 1 .. L + 1
      PROVE  /\ FieldOrClose(m, n, i) \in Places(m)
             /\ PlaceAt(m, FieldOrClose(m, n, i)) = o + FOff(c, i) + 4
  <2>1. CASE i \in 1 .. L
    <3>1. c.fields[i] \in Field
      BY <1>c, <1>L, <2>1
    <3> DEFINE f == c.fields[i]
    <3>2. First(f) \in Phases /\ Has(f, First(f)) /\ At(f, First(f)) = 1
      BY <3>1 DEF First, Phases, Has, At, IdItems, Field
    <3>3. FieldOrClose(m, n, i) = Pl(n, i, First(f))
      BY <1>L, <2>1 DEF FieldOrClose, c
    <3> HIDE DEF f
    <3>4. First(f) \notin {"cpage", "cusage", "copen", "close"}
      BY <3>2 DEF Phases
    <3>5. Pl(n, i, First(f)) \in Places(m)
      BY <1>0, <1>L, <1>n, <2>1, <3>2, <3>4 DEF Places, Pl, f, c
    <3>6. PlaceAt(m, Pl(n, i, First(f))) = o + FOff(c, i) + 1 + 3
      BY <1>o, <3>2, <3>4 DEF PlaceAt, Pl, f, c
    <3>7. FOff(c, i) \in Nat
      BY <1>2, <2>1 DEF CollectionLaid
    <3> QED BY <3>3, <3>5, <3>6, <3>7
  <2>2. CASE i = L + 1
    <3>1. FieldOrClose(m, n, i) = Pl(n, L, "close")
      BY <1>L, <2>2 DEF FieldOrClose, c
    <3>2. Pl(n, L, "close") \in Places(m)
      BY <1>0, <1>L, <1>n DEF Places, Pl, Phases, c
    <3>3. PlaceAt(m, Pl(n, L, "close")) = o + M + 4
      BY <1>o, <1>L DEF PlaceAt, Pl, c
    <3> QED BY <1>o, <2>2, <3>1, <3>2, <3>3
  <2> QED BY <2>1, <2>2
<1>6. p.n \in 1 .. Len(m) /\ m[p.n] \in Collection
  BY <1>0, <1>p, <1>n, <1>c DEF c
<1> SUFFICES /\ PlaceAt(m, p) \in 1 .. Len(MapItems(m))
             /\ MapItems(m)[PlaceAt(m, p)] = PlaceItem(m, p)
             /\ After(m, p) \in Places(m) /\ PlaceAt(m, After(m, p)) = PlaceAt(m, p) + 1
  BY <1>6
<1>7. CASE p.ph = "cpage"
  <2>1. PlaceAt(m, p) = o + 1 /\ PlaceItem(m, p) = CollectionItems(c)[1]
    BY <1>2, <1>7, <1>o, <1>p DEF PlaceAt, PlaceItem, CollectionLaid, c
  <2>2. After(m, p) = Pl(n, 0, "cusage") /\ PlaceAt(m, Pl(n, 0, "cusage")) = o + 2
    BY <1>7, <1>p, <1>o DEF After, PlaceAt, Pl
  <2>3. Pl(n, 0, "cusage") \in Places(m)
    BY <1>0, <1>n DEF Places, Pl, Phases
  <2>4. 1 \in 1 .. M + 4
    BY <1>o
  <2> QED BY <1>4, <1>o, <2>1, <2>2, <2>3, <2>4
<1>8. CASE p.ph = "cusage"
  <2>1. PlaceAt(m, p) = o + 2 /\ PlaceItem(m, p) = CollectionItems(c)[2]
    BY <1>2, <1>8, <1>o, <1>p DEF PlaceAt, PlaceItem, CollectionLaid, c
  <2>2. After(m, p) = Pl(n, 0, "copen") /\ PlaceAt(m, Pl(n, 0, "copen")) = o + 3
    BY <1>8, <1>p, <1>o DEF After, PlaceAt, Pl
  <2>3. Pl(n, 0, "copen") \in Places(m)
    BY <1>0, <1>n DEF Places, Pl, Phases
  <2>4. 2 \in 1 .. M + 4
    BY <1>o
  <2> QED BY <1>4, <1>o, <2>1, <2>2, <2>3, <2>4
<1>9. CASE p.ph = "copen"
  <2>1. PlaceAt(m, p) = o + 3 /\ PlaceItem(m, p) = CollectionItems(c)[3]
    BY <1>2, <1>9, <1>o, <1>p DEF PlaceAt, PlaceItem, CollectionLaid, c
  <2>2. After(m, p) = FieldOrClose(m, n, 1)
    BY <1>9, <1>p DEF After
  <2>3. PICK one \in 1 .. L + 1 : one = 1
    BY <1>L
  <2>4. FieldOrClose(m, n, one) \in Places(m) /\ PlaceAt(m, FieldOrClose(m, n, one)) = o + FOff(c, one) + 4
    BY <1>5, <2>3
  <2>5. FOff(c, one) = 0
    BY <1>2, <2>3 DEF CollectionLaid
  <2>6. 3 \in 1 .. M + 4
    BY <1>o
  <2>7. PlaceAt(m, After(m, p)) = o + 4 /\ After(m, p) \in Places(m)
    BY <1>o, <2>2, <2>3, <2>4, <2>5
  <2> QED BY <1>4, <1>o, <2>1, <2>6, <2>7
<1>10. CASE p.ph = "close"
  <2>1. PlaceAt(m, p) = o + (M + 4) /\ PlaceItem(m, p) = CollectionItems(c)[M + 4]
    <3>1. PlaceAt(m, p) = o + M + 4
      BY <1>10, <1>o, <1>L, <1>p DEF PlaceAt, c
    <3>2. PlaceItem(m, p) = Item("END", 0)
      BY <1>10 DEF PlaceItem
    <3>3. CollectionItems(c)[M + 4] = Item("END", 0)
      BY <1>2, <1>o DEF CollectionLaid
    <3> QED BY <1>o, <3>1, <3>2, <3>3
  <2>2. After(m, p) = Pl(n + 1, 0, "cpage") /\ PlaceAt(m, Pl(n + 1, 0, "cpage")) = o + M + 4 + 1
    BY <1>10, <1>p, <1>3 DEF After, PlaceAt, Pl
  <2>3. Pl(n + 1, 0, "cpage") \in Places(m)
    BY <1>0, <1>n DEF Places, Pl, Phases
  <2>4. PICK q \in 1 .. M + 4 : q = M + 4
    BY <1>o
  <2>5. PlaceAt(m, p) = o + q /\ o + M + 4 + 1 = (o + q) + 1
    BY <1>o, <2>1, <2>4
  <2> QED BY <1>4, <2>1, <2>2, <2>3, <2>4, <2>5
<1>11. CASE p.ph \in Phases
  <2>1. j \in 1 .. L /\ Has(c.fields[j], p.ph)
    BY <1>11, <1>p, <1>L DEF Places, c
  <2> DEFINE f == c.fields[j]
  <2>2. f \in Field
    BY <1>c, <1>L, <2>1
  <2>3. Has(f, p.ph)
    BY <2>1
  <2>q. p.ph \notin {"cpage", "cusage", "copen", "close"}
    BY <1>11 DEF Phases
  <2>i. PlaceItem(m, p) = FieldItem(f, p.ph) /\ PlaceAt(m, p) = o + FOff(c, j) + At(f, p.ph) + 3
    BY <1>p, <1>o, <2>q DEF PlaceItem, PlaceAt, c
  <2>a. CollectionItems(c)[FOff(c, j) + At(f, p.ph) + 3] = FieldItem(f, p.ph)
    BY <1>2, <1>11, <2>1 DEF CollectionLaid
  <2>b. /\ FOff(c, j) \in Nat /\ FOff(c, j + 1) = FOff(c, j) + Len(FieldItems(f))
        /\ FOff(c, j + 1) <= M
    BY <1>2, <1>o, <2>1 DEF CollectionLaid
  <2> HIDE DEF f
  <2>c. /\ Len(FieldItems(f)) = IdItems(f) + 5 + 2 * NestItems(f)
        /\ At(f, p.ph) \in 1 .. Len(FieldItems(f))
    BY <1>11, <2>2, <2>3, FieldItemsAre
  <2>d. IdItems(f) \in 0 .. 1 /\ NestItems(f) \in 0 .. 1
    BY DEF IdItems, NestItems
  <2>e. PICK b, a, l \in Nat : b = FOff(c, j) /\ a = At(f, p.ph) /\ l = Len(FieldItems(f))
    BY <2>b, <2>c, <2>d
  <2>4. PICK q \in 1 .. M + 4 : q = b + a + 3
    <3>1. b + l <= M /\ a <= l /\ a >= 1
      BY <2>b, <2>c, <2>e
    <3>2. b + a + 3 \in 1 .. M + 4
      BY <1>o, <2>e, <3>1
    <3> QED BY <3>2
  <2>5. PlaceAt(m, p) = o + q
    <3>1. PlaceAt(m, p) = o + b + a + 3
      BY <2>i, <2>e
    <3>2. o + b + a + 3 = o + (b + a + 3)
      BY <1>o, <2>e
    <3> QED BY <2>4, <3>1, <3>2
  <2>6. PlaceAt(m, p) \in 1 .. Len(MapItems(m)) /\ MapItems(m)[PlaceAt(m, p)] = PlaceItem(m, p)
    BY <1>4, <2>4, <2>5, <2>i, <2>a, <2>e
  <2>7. ASSUME NEW ph \in Phases, Has(f, ph), At(f, ph) = a + 1
        PROVE  Pl(n, j, ph) \in Places(m) /\ PlaceAt(m, Pl(n, j, ph)) = PlaceAt(m, p) + 1
    <3>1. ph \notin {"cpage", "cusage", "copen", "close"}
      BY DEF Phases
    <3>2. PlaceAt(m, Pl(n, j, ph)) = o + b + (a + 1) + 3
      BY <1>o, <2>e, <2>7, <3>1 DEF PlaceAt, Pl, c, f
    <3>3. Pl(n, j, ph) \in Places(m)
      BY <1>0, <1>n, <1>L, <2>1, <2>7, <3>1 DEF Places, Pl, c, f
    <3>4. q \in Nat /\ o + b + (a + 1) + 3 = (o + q) + 1
      <4>1. o \in Nat /\ a \in Nat /\ b \in Nat /\ q = b + a + 3
        BY <1>o, <2>4, <2>e
      <4> QED BY <4>1
    <3> QED BY <2>5, <3>2, <3>3, <3>4
  <2>8. ASSUME a = l
        PROVE  FieldOrClose(m, n, j + 1) \in Places(m) /\ PlaceAt(m, FieldOrClose(m, n, j + 1)) = PlaceAt(m, p) + 1
    <3>1. PICK k \in 1 .. L + 1 : k = j + 1
      BY <2>1
    <3>2. FieldOrClose(m, n, k) \in Places(m) /\ PlaceAt(m, FieldOrClose(m, n, k)) = o + FOff(c, k) + 4
      BY <1>5
    <3>3. FOff(c, k) = b + l
      BY <2>b, <2>e, <3>1
    <3>4. o + (b + l) + 4 = PlaceAt(m, p) + 1
      <4>1. o + (b + l) + 4 = (o + q) + 1
        <5>1. o \in Nat /\ a \in Nat /\ b \in Nat /\ q = b + a + 3 /\ l = a
          BY <1>o, <2>4, <2>e, <2>8
        <5> QED BY <5>1
      <4> QED BY <2>5, <4>1
    <3> QED BY <3>1, <3>2, <3>3, <3>4
  <2>9. /\ f.nest <=> NestItems(f) = 1
        /\ l = IdItems(f) + 5 + 2 * NestItems(f)
    BY <2>c, <2>e, <2>2 DEF NestItems, Field
  <2>10. After(m, p) \in Places(m) /\ PlaceAt(m, After(m, p)) = PlaceAt(m, p) + 1
    <3>1. CASE p.ph = "id"
      <4>1. After(m, p) = Pl(n, j, "page")
        BY <1>p, <3>1 DEF After
      <4>2. "page" \in Phases /\ Has(f, "page") /\ At(f, "page") = a + 1
        BY <2>3, <2>e, <3>1 DEF Phases, Has, At, IdItems
      <4> QED BY <2>7, <4>1, <4>2
    <3>2. CASE p.ph = "page"
      <4>1. After(m, p) = Pl(n, j, "usage")
        BY <1>p, <3>2 DEF After
      <4>2. "usage" \in Phases /\ Has(f, "usage") /\ At(f, "usage") = a + 1
        BY <2>d, <2>e, <3>2 DEF Phases, Has, At
      <4> QED BY <2>7, <4>1, <4>2
    <3>3. CASE p.ph = "usage" /\ f.nest
      <4>1. After(m, p) = Pl(n, j, "nest")
        BY <1>p, <3>3 DEF After, f, c
      <4>2. "nest" \in Phases /\ Has(f, "nest") /\ At(f, "nest") = a + 1
        BY <2>d, <2>e, <3>3 DEF Phases, Has, At
      <4> QED BY <2>7, <4>1, <4>2
    <3>4. CASE p.ph = "usage" /\ ~f.nest
      <4>1. After(m, p) = Pl(n, j, "size")
        BY <1>p, <3>4 DEF After, f, c
      <4>2. "size" \in Phases /\ Has(f, "size") /\ At(f, "size") = a + 1
        BY <2>d, <2>e, <3>4 DEF Phases, Has, At, NestItems
      <4> QED BY <2>7, <4>1, <4>2
    <3>5. CASE p.ph = "nest"
      <4>1. After(m, p) = Pl(n, j, "size")
        BY <1>p, <3>5 DEF After
      <4>2. "size" \in Phases /\ Has(f, "size") /\ At(f, "size") = a + 1
        BY <2>d, <2>e, <2>3, <3>5 DEF Phases, Has, At, NestItems
      <4> QED BY <2>7, <4>1, <4>2
    <3>6. CASE p.ph = "size"
      <4>1. After(m, p) = Pl(n, j, "count")
        BY <1>p, <3>6 DEF After
      <4>2. "count" \in Phases /\ Has(f, "count") /\ At(f, "count") = a + 1
        BY <2>d, <2>e, <3>6 DEF Phases, Has, At
      <4> QED BY <2>7, <4>1, <4>2
    <3>7. CASE p.ph = "count"
      <4>1. After(m, p) = Pl(n, j, "main")
        BY <1>p, <3>7 DEF After
      <4>2. "main" \in Phases /\ Has(f, "main") /\ At(f, "main") = a + 1
        BY <2>d, <2>e, <3>7 DEF Phases, Has, At
      <4> QED BY <2>7, <4>1, <4>2
    <3>8. CASE p.ph = "main" /\ f.nest
      <4>1. After(m, p) = Pl(n, j, "unnest")
        BY <1>p, <3>8 DEF After, f, c
      <4>2. "unnest" \in Phases /\ Has(f, "unnest") /\ At(f, "unnest") = a + 1
        BY <2>d, <2>e, <3>8 DEF Phases, Has, At
      <4> QED BY <2>7, <4>1, <4>2
    <3>9. CASE p.ph = "main" /\ ~f.nest
      <4>1. After(m, p) = FieldOrClose(m, n, j + 1)
        BY <1>p, <3>9 DEF After, f, c
      <4>2. a = l
        BY <2>d, <2>e, <2>9, <3>9 DEF At, NestItems
      <4> QED BY <2>8, <4>1, <4>2
    <3>10. CASE p.ph = "unnest"
      <4>1. After(m, p) = FieldOrClose(m, n, j + 1)
        BY <1>p, <3>10 DEF After
      <4>2. a = l
        BY <2>d, <2>e, <2>9, <2>3, <3>10 DEF At, Has
      <4> QED BY <2>8, <4>1, <4>2
    <3>11. f.nest \in BOOLEAN
      BY <2>2 DEF Field
    <3> QED BY <1>11, <3>1, <3>2, <3>3, <3>4, <3>5, <3>6, <3>7, <3>8, <3>9, <3>10, <3>11 DEF Phases
  <2> QED BY <2>6, <2>10
<1> QED BY <1>7, <1>8, <1>9, <1>10, <1>11 DEF Places

\* How many collections a place is in.
Level(m, p) ==
    CASE p.ph \in {"cpage", "cusage", "copen"} -> 0
      [] p.ph \in {"size", "count", "main", "unnest"} -> 1 + NestItems(m[p.n].fields[p.j])
      [] OTHER -> 1

\* What the item of a place is, and what it does to the level.
LEMMA LevelIs ==
    ASSUME NEW m \in Maps, NEW p \in Places(m), p # End(m), NEW it, it = PlaceItem(m, p)
    PROVE  /\ it \in Items
           /\ it.tag \in {"REPORT_ID", "SIZE", "COUNT"} => it.val \in Nat
           /\ Level(m, p) \in 0 .. 2 /\ Level(m, After(m, p)) \in 0 .. 2
           /\ it.tag = "COLLECTION" => Level(m, After(m, p)) = Level(m, p) + 1
           /\ it.tag = "END" => Level(m, After(m, p)) + 1 = Level(m, p)
           /\ it.tag \notin {"COLLECTION", "END"} => Level(m, After(m, p)) = Level(m, p)
           /\ it = Item("COLLECTION", "application") => Level(m, After(m, p)) = 1
<1>1. p.n \in 1 .. Len(m) /\ m[p.n] \in Collection
  BY PlaceIs
<1> DEFINE c == m[p.n]
           f == c.fields[p.j]
<1>2. c.page \in STRING /\ c.usage \in STRING /\ c.fields \in Seq(Field)
  BY <1>1 DEF Collection
<1>3. \A n, j : Level(m, FieldOrClose(m, n, j)) = 1
  BY DEF Level, FieldOrClose, Pl, First
<1>4. NestItems(f) \in 0 .. 1
  BY DEF NestItems
<1>5. CASE p.ph = "cpage"
  <2>1. it = Item("USAGE_PAGE", c.page) /\ Level(m, p) = 0 /\ Level(m, After(m, p)) = 0
    BY <1>5 DEF PlaceItem, Level, After, Pl
  <2> QED BY <1>2, <2>1 DEF Item, Items, Tags, Vals
<1>6. CASE p.ph = "cusage"
  <2>1. it = Item("USAGE", c.usage) /\ Level(m, p) = 0 /\ Level(m, After(m, p)) = 0
    BY <1>6 DEF PlaceItem, Level, After, Pl
  <2> QED BY <1>2, <2>1 DEF Item, Items, Tags, Vals
<1>7. CASE p.ph = "copen"
  <2>1. it = Item("COLLECTION", "application") /\ Level(m, p) = 0 /\ Level(m, After(m, p)) = 1
    BY <1>3, <1>7 DEF PlaceItem, Level, After
  <2> QED BY <2>1 DEF Item, Items, Tags, Vals
<1>8. CASE p.ph = "close"
  <2>1. it = Item("END", 0) /\ Level(m, p) = 1 /\ Level(m, After(m, p)) = 0
    BY <1>8 DEF PlaceItem, Level, After, Pl
  <2> QED BY <2>1 DEF Item, Items, Tags, Vals
<1>9. CASE p.ph \in Phases
  <2>1. f \in Field /\ Has(f, p.ph)
    <3>1. p.j \in 1 .. Len(c.fields) /\ Has(f, p.ph)
      BY <1>9 DEF Places
    <3> HIDE DEF c
    <3> QED BY <1>2, <3>1
  <2>2. it = FieldItem(f, p.ph)
    BY <1>9 DEF PlaceItem, Phases
  <2>3. /\ f.id \in Nat /\ f.page \in STRING /\ f.usage \in STRING /\ f.type \in Types
        /\ f.size \in Nat /\ f.count \in Nat /\ f.nest \in BOOLEAN
    <3>1. /\ f.id \in 0 .. 255 /\ f.page \in STRING /\ f.usage \in STRING
          /\ f.type \in Types /\ f.size \in Nat /\ f.count \in Nat /\ f.nest \in BOOLEAN
      BY <2>1 DEF Field
    <3>2. \A x \in 0 .. 255 : x \in Nat
      OBVIOUS
    <3> QED BY <3>1, <3>2
  <2>4. \A ph \in Phases : Level(m, Pl(p.n, p.j, ph)) =
            IF ph \in {"size", "count", "main", "unnest"} THEN 1 + NestItems(f) ELSE 1
    BY DEF Level, Pl, Phases
  <2>5. Level(m, p) = IF p.ph \in {"size", "count", "main", "unnest"} THEN 1 + NestItems(f) ELSE 1
    BY <1>9 DEF Level, Phases
  <2> DEFINE q == After(m, p)
  <2>q. /\ p.ph = "id" => q = Pl(p.n, p.j, "page")
        /\ p.ph = "page" => q = Pl(p.n, p.j, "usage")
        /\ p.ph = "usage" => q = Pl(p.n, p.j, IF f.nest THEN "nest" ELSE "size")
        /\ p.ph = "nest" => q = Pl(p.n, p.j, "size")
        /\ p.ph = "size" => q = Pl(p.n, p.j, "count")
        /\ p.ph = "count" => q = Pl(p.n, p.j, "main")
        /\ p.ph = "main" => q = IF f.nest THEN Pl(p.n, p.j, "unnest") ELSE FieldOrClose(m, p.n, p.j + 1)
        /\ p.ph = "unnest" => q = FieldOrClose(m, p.n, p.j + 1)
    BY DEF After
  <2> HIDE DEF q, f, c
  <2>6. CASE p.ph = "id"
    <3>1. it = Item("REPORT_ID", f.id) /\ Level(m, p) = 1 /\ Level(m, q) = 1
      BY <2>2, <2>4, <2>5, <2>q, <2>6 DEF FieldItem, Phases
    <3> QED BY <2>3, <3>1 DEF Item, Items, Tags, Vals, q
  <2>7. CASE p.ph = "page"
    <3>1. it = Item("USAGE_PAGE", f.page) /\ Level(m, p) = 1 /\ Level(m, q) = 1
      BY <2>2, <2>4, <2>5, <2>q, <2>7 DEF FieldItem, Phases
    <3> QED BY <2>3, <3>1 DEF Item, Items, Tags, Vals, q
  <2>8. CASE p.ph = "usage"
    <3>1. it = Item("USAGE", f.usage) /\ Level(m, p) = 1
      BY <2>2, <2>5, <2>8 DEF FieldItem
    <3>2. Level(m, q) = 1
      BY <2>4, <2>q, <2>8, <2>3 DEF Phases, NestItems
    <3> QED BY <2>3, <3>1, <3>2 DEF Item, Items, Tags, Vals, q
  <2>9. CASE p.ph = "nest"
    <3>1. it = Item("COLLECTION", "physical") /\ Level(m, p) = 1 /\ Level(m, q) = 2
      BY <2>1, <2>2, <2>4, <2>5, <2>q, <2>9 DEF FieldItem, Phases, Has, NestItems
    <3> QED BY <2>3, <3>1 DEF Item, Items, Tags, Vals, q
  <2>10. CASE p.ph = "size"
    <3>1. it = Item("SIZE", f.size) /\ Level(m, p) = Level(m, q) /\ Level(m, p) \in 0 .. 2
      BY <1>4, <2>2, <2>4, <2>5, <2>q, <2>10 DEF FieldItem, Phases, f, c
    <3> QED BY <2>3, <3>1 DEF Item, Items, Tags, Vals, q
  <2>11. CASE p.ph = "count"
    <3>1. it = Item("COUNT", f.count) /\ Level(m, p) = Level(m, q) /\ Level(m, p) \in 0 .. 2
      BY <1>4, <2>2, <2>4, <2>5, <2>q, <2>11 DEF FieldItem, Phases, f, c
    <3> QED BY <2>3, <3>1 DEF Item, Items, Tags, Vals, q
  <2>12. CASE p.ph = "main"
    <3>1. it = Item(f.type, 0) /\ Level(m, p) = Level(m, q) /\ Level(m, p) \in 0 .. 2
      BY <1>3, <1>4, <2>2, <2>4, <2>5, <2>q, <2>12 DEF FieldItem, Phases, NestItems, f, c
    <3> QED BY <2>3, <3>1 DEF Item, Items, Tags, Vals, Types, q
  <2>13. CASE p.ph = "unnest"
    <3>1. it = Item("END", 0) /\ Level(m, p) = 2 /\ Level(m, q) = 1
      BY <1>3, <2>1, <2>2, <2>5, <2>q, <2>13 DEF FieldItem, Has, NestItems
    <3> QED BY <2>3, <3>1 DEF Item, Items, Tags, Vals, q
  <2> QED BY <1>9, <2>6, <2>7, <2>8, <2>9, <2>10, <2>11, <2>12, <2>13 DEF Phases
<1> QED BY <1>5, <1>6, <1>7, <1>8, <1>9 DEF Places

\* A descriptor is its map, or the beginning of it.
LEMMA DescriptorIs ==
    ASSUME NEW s \in Service
    PROVE  /\ s.map \in Maps
           /\ Len(Descriptor(s)) \in Nat /\ (Descriptor(s) = <<>> <=> Len(Descriptor(s)) = 0)
           /\ \A i \in 1 .. Len(Descriptor(s)) : Descriptor(s)[i].tag # "short" =>
                 i \in 1 .. Len(MapItems(s.map)) /\ Descriptor(s)[i] = MapItems(s.map)[i]
           /\ Whole(s) => Descriptor(s) = MapItems(s.map)
<1>1. s.map \in Maps /\ s.cut \in Nat /\ s.short \in BOOLEAN
  BY DEF Service, Maps
<1> DEFINE all == MapItems(s.map)
<1>2. all \in Seq(Items) /\ Len(all) \in Nat
  <2>1. PICK N \in Nat : N = Len(s.map)
    BY <1>1 DEF Maps
  <2> QED BY <1>1, <2>1, MapItemsAre DEF MapLaid
<1> HIDE DEF all
<1>3. CASE Whole(s)
  <2>1. Descriptor(s) = all
    BY <1>3 DEF Descriptor, all
  <2> QED BY <1>1, <1>2, <1>3, <2>1 DEF all
<1>4. CASE ~Whole(s)
  <2>1. s.cut < Len(all)
    BY <1>1, <1>2, <1>4 DEF Whole, all
  <2> DEFINE a == SubSeq(all, 1, s.cut)
             b == IF s.short THEN <<Item("short", 0)>> ELSE <<>>
             T == Items \cup {Item("short", 0)}
  <2>2. Descriptor(s) = a \o b
    BY <1>4 DEF Descriptor, all
  <2>3. a \in Seq(Items) /\ Len(a) = s.cut /\ \A i \in 1 .. s.cut : a[i] = all[i]
    <3>1. PICK k \in Nat : k = s.cut
      BY <1>1
    <3>2. \A i \in 1 .. k : all[i] \in Items
      BY <1>2, <2>1, <3>1
    <3>3. /\ SubSeq(all, 1, k) \in Seq(Items) /\ Len(SubSeq(all, 1, k)) = IF 1 <= k THEN k - 1 + 1 ELSE 0
          /\ \A i \in 1 .. k - 1 + 1 : SubSeq(all, 1, k)[i] = all[1 + i - 1]
      BY <3>2, SubSeqProperties
    <3>4. \A i \in 1 .. k : SubSeq(all, 1, k)[i] = all[i]
      BY <3>3
    <3> QED BY <3>1, <3>3, <3>4
  <2>4. a \in Seq(T)
    BY <2>3, SeqMonotonic
  <2>5. b \in Seq(T) /\ Len(b) \in 0 .. 1 /\ \A i \in 1 .. Len(b) : b[i].tag = "short"
    <3> DEFINE e == Item("short", 0)
    <3>1. e \in T /\ e.tag = "short"
      BY DEF Item
    <3> HIDE DEF e, T
    <3>2. <<e>> \in Seq(T) /\ Len(<<e>>) = 1 /\ \A i \in 1 .. Len(<<e>>) : <<e>>[i] = e
      BY <3>1
    <3>3. CASE s.short
      BY <3>1, <3>2, <3>3 DEF e
    <3>4. CASE ~s.short
      BY <3>4
    <3> QED BY <3>3, <3>4
  <2> HIDE DEF a, b, T
  <2>6. PICK M, x \in Nat : M = s.cut /\ x = Len(b)
    BY <1>1, <2>5
  <2>7. IsConcat(a \o b, a, b, M, x, T)
    BY <2>3, <2>4, <2>5, <2>6, ConcatIs
  <2> DEFINE desc0 == a \o b
  <2>8. desc0 \in Seq(T) /\ Len(desc0) = M + x
        /\ \A i \in 1 .. M + x : desc0[i] = IF i <= M THEN a[i] ELSE b[i - M]
    BY <2>7 DEF IsConcat
  <2>9. Descriptor(s) = desc0
    BY <2>2
  <2> HIDE DEF desc0
  <2>10. ASSUME NEW i \in 1 .. M + x, desc0[i].tag # "short"
         PROVE  i \in 1 .. Len(all) /\ desc0[i] = all[i]
    <3>1. CASE i <= M
      <4>1. i \in 1 .. M
        BY <3>1
      <4> QED BY <1>2, <2>1, <2>3, <2>6, <2>8, <3>1, <4>1
    <3>2. CASE ~(i <= M)
      <4>1. i - M \in 1 .. x
        BY <2>6, <3>2
      <4>2. desc0[i].tag = "short"
        BY <2>5, <2>6, <2>8, <3>2, <4>1
      <4> QED BY <2>10, <4>2
    <3> QED BY <3>1, <3>2
  <2>11. desc0 = <<>> <=> Len(desc0) = 0
    BY <2>8, EmptySeq
  <2> QED BY <1>1, <1>4, <2>6, <2>8, <2>9, <2>10, <2>11 DEF all
<1> QED BY <1>3, <1>4

UsageNames == {"KEYBOARD", "MOUSE", "JOYSTICK", "GAMEPAD", "CCONTROL", "VENDOR", "GENERIC"}
Report == [usage : UsageNames, id : Nat, type : Types, proto : {"REPORT", "BOOT"}, len : Nat]

-----------------------------------------------------------------------------
(* What a map declares, and what discovery finds.                          *)

\* What a field adds to the bits of type t.
Adds(c, i, j, t) == IF j \in IdFields(c, i) /\ c.fields[j].type = t
                    THEN c.fields[j].size * c.fields[j].count ELSE 0

\* The product of two lengths is a length.
LEMMA ProductIs ==
    ASSUME NEW a \in Nat, NEW b \in Nat
    PROVE  a * b \in Nat
OBVIOUS

\* What a field adds is a number.
LEMMA AddsIs ==
    ASSUME NEW c \in Collection, NEW L \in Nat, L = Len(c.fields), NEW i, NEW t, NEW j \in 1 .. L
    PROVE  Adds(c, i, j, t) \in Nat
<1>1. c.fields \in Seq(Field)
  BY DEF Collection
<1>2. c.fields[j] \in Field
  BY <1>1
<1>3. c.fields[j].size \in Nat /\ c.fields[j].count \in Nat
  BY <1>2 DEF Field
<1>4. c.fields[j].size * c.fields[j].count \in Nat
  BY <1>3, ProductIs
<1> QED BY <1>4 DEF Adds

BitsOf(b, c, L, i, t) ==
    /\ \A j \in 0 .. L : b[j] \in Nat
    /\ \A j \in 0 .. L : j < i => b[j] = 0
    /\ \A j \in 1 .. L : j >= i => b[j] = b[j - 1] + Adds(c, i, j, t)

\* The bits of an id, field by field.
LEMMA BitsAre ==
    ASSUME NEW c \in Collection, NEW L \in Nat, L = Len(c.fields), NEW i \in 1 .. L, NEW t
    PROVE  BitsOf(BitsTo(c, i, t), c, L, i, t)
<1>1. \A j \in 1 .. L : Adds(c, i, j, t) \in Nat
  BY AddsIs
<1> DEFINE st == [j \in 1 .. L |-> [x \in Nat |-> IF j < i THEN 0 ELSE x + Adds(c, i, j, t)]]
<1>2. /\ st \in [1 .. L -> [Nat -> Nat]]
      /\ \A j \in 1 .. L : \A x \in Nat : st[j][x] = IF j < i THEN 0 ELSE x + Adds(c, i, j, t)
  BY <1>1
<1> HIDE DEF st
<1>3. PICK f : Iterates(f, Nat, 0, L, st)
  BY <1>2, Iterated
<1>4. DOMAIN f = 0 .. L /\ f[0] = 0 /\ \A j \in 0 .. L : f[j] \in Nat
  BY <1>3 DEF Iterates
<1>5. ASSUME NEW j \in 1 .. L
      PROVE  f[j] = IF j < i THEN 0 ELSE f[j - 1] + Adds(c, i, j, t)
  <2>1. j - 1 \in 0 .. L
    OBVIOUS
  <2>2. f[j - 1] \in Nat /\ f[j] = st[j][f[j - 1]]
    BY <1>3, <1>4, <2>1 DEF Iterates
  <2> QED BY <1>2, <2>2
<1> DEFINE Body(h) == [j \in 0 .. Len(c.fields) |->
                IF j < i THEN 0
                ELSE h[j - 1] + IF j \in IdFields(c, i) /\ c.fields[j].type = t
                                THEN c.fields[j].size * c.fields[j].count ELSE 0]
           b == CHOOSE h : h = Body(h)
<1>6. f = Body(f)
  <2>1. \A j \in 0 .. L : f[j] = Body(f)[j]
    <3> SUFFICES ASSUME NEW j \in 0 .. L
                 PROVE  f[j] = Body(f)[j]
      OBVIOUS
    <3>1. CASE j = 0
      BY <1>4, <3>1
    <3>2. CASE j # 0
      <4>1. j \in 1 .. L
        BY <3>2
      <4> QED BY <1>5, <4>1 DEF Adds
    <3> QED BY <3>1, <3>2
  <2>2. DOMAIN Body(f) = 0 .. L
    OBVIOUS
  <2>3. Body(f) = [j \in 0 .. L |-> Body(f)[j]]
    OBVIOUS
  <2>4. f = [j \in 0 .. L |-> f[j]]
    BY <1>3, <1>4 DEF Iterates
  <2> HIDE DEF Body
  <2>5. [j \in 0 .. L |-> f[j]] = [j \in 0 .. L |-> Body(f)[j]]
    BY <2>1
  <2> QED BY <2>3, <2>4, <2>5
<1>7. b = Body(b)
  <2> HIDE DEF Body
  <2> QED BY <1>6
<1>8. BitsTo(c, i, t) = b
  BY DEF BitsTo
<1> HIDE DEF b
<1>9. ASSUME NEW j \in 0 .. L
      PROVE  b[j] = IF j < i THEN 0 ELSE b[j - 1] + Adds(c, i, j, t)
  <2>1. Body(b)[j] = IF j < i THEN 0 ELSE b[j - 1] + Adds(c, i, j, t)
    BY DEF Adds
  <2> HIDE DEF Body
  <2> QED BY <1>7, <2>1
<1>10. \A j \in 0 .. L : b[j] \in Nat
  <2> DEFINE S == {j \in 0 .. L : b[j] \in Nat}
  <2>1. 0 \in S
    <3>1. b[0] = 0 /\ 0 \in 0 .. L
      BY <1>9
    <3> QED BY <3>1
  <2>2. \A j \in 0 .. L - 1 : j \in S => j + 1 \in S
    <3> SUFFICES ASSUME NEW j \in 0 .. L - 1, j \in S
                 PROVE  j + 1 \in S
      OBVIOUS
    <3>1. PICK k \in 1 .. L : k = j + 1 /\ k - 1 = j /\ k \in 0 .. L
      OBVIOUS
    <3>2. b[j] \in Nat /\ Adds(c, i, k, t) \in Nat
      BY <1>1
    <3>3. b[k] = IF k < i THEN 0 ELSE b[j] + Adds(c, i, k, t)
      BY <1>9, <3>1
    <3> QED BY <3>1, <3>2, <3>3
  <2> HIDE DEF S
  <2>3. 0 .. L \subseteq S
    BY <2>1, <2>2, Inductive
  <2> QED BY <2>3 DEF S
<1>11. \A j \in 1 .. L : j \in 0 .. L
  OBVIOUS
<1> QED BY <1>8, <1>9, <1>10, <1>11 DEF BitsOf

\* Names of usages.
LEMMA UsageIs ==
    ASSUME NEW page, NEW usage
    PROVE  UsageOf(page, usage) \in UsageNames
BY DEF UsageOf, UsageNames

\* The reports of an id, whatever its usage and lengths.
LEMMA ReportsOfAre ==
    ASSUME NEW u \in UsageNames, NEW id \in Nat, NEW bits \in [Types -> Nat]
    PROVE  ReportsOf(u, id, bits) \in Seq(Report)
<1> DEFINE R(type, proto, len) == [usage |-> u, id |-> id, type |-> type,
                                   proto |-> proto, len |-> len]
           Of(type) == IF bits[type] = 0 THEN <<>>
                       ELSE IF u \notin {"KEYBOARD", "MOUSE"}
                       THEN <<R(type, "REPORT", bits[type] \div 8)>>
                       ELSE IF BootLen(u, type) = 0 THEN <<>>
                       ELSE <<R(type, "REPORT", bits[type] \div 8),
                              R(type, "BOOT", BootLen(u, type))>>
<1>1. ASSUME NEW t \in Types
      PROVE  Of(t) \in Seq(Report)
  <2>1. bits[t] \div 8 \in Nat /\ BootLen(u, t) \in Nat
    BY DEF BootLen
  <2>2. R(t, "REPORT", bits[t] \div 8) \in Report /\ R(t, "BOOT", BootLen(u, t)) \in Report
    BY <2>1 DEF Report
  <2> HIDE DEF R
  <2>3. /\ <<>> \in Seq(Report) /\ <<R(t, "REPORT", bits[t] \div 8)>> \in Seq(Report)
        /\ <<R(t, "REPORT", bits[t] \div 8), R(t, "BOOT", BootLen(u, t))>> \in Seq(Report)
    BY <2>2
  <2> QED BY <2>3
<1>2. "INPUT" \in Types /\ "OUTPUT" \in Types /\ "FEATURE" \in Types
  BY DEF Types
<1>3. ReportsOf(u, id, bits) = (Of("INPUT") \o Of("OUTPUT")) \o Of("FEATURE")
  BY DEF ReportsOf
<1>4. Of("INPUT") \in Seq(Report) /\ Of("OUTPUT") \in Seq(Report) /\ Of("FEATURE") \in Seq(Report)
  BY <1>1, <1>2
<1> HIDE DEF Of
<1> QED BY <1>3, <1>4, ConcatProperties

\* No bits, no reports.
LEMMA NoReports ==
    ASSUME NEW u, NEW id, NEW bits, \A t \in Types : bits[t] = 0
    PROVE  ReportsOf(u, id, bits) = <<>>
<1>1. bits["INPUT"] = 0 /\ bits["OUTPUT"] = 0 /\ bits["FEATURE"] = 0
  BY DEF Types
<1>2. ReportsOf(u, id, bits) = (<<>> \o <<>>) \o <<>>
  BY <1>1 DEF ReportsOf
<1>3. <<>> \in Seq(Report)
  OBVIOUS
<1> QED BY <1>2, <1>3, ConcatEmptySeq

IdSeqs(c) == [i \in DOMAIN c.fields |-> IdReports(c, i)]
DeclaredSeqs(m) == [n \in DOMAIN m |-> FlattenSeq(IdSeqs(m[n]))]

\* The bits of an id, and its reports.
LEMMA IdIs ==
    ASSUME NEW c \in Collection, NEW L \in Nat, L = Len(c.fields), NEW i \in 1 .. L
    PROVE  /\ IdBits(c, i) \in [Types -> Nat] /\ IdUsage(c, i) \in UsageNames
           /\ c.fields[i] \in Field /\ c.fields[i].id \in Nat
           /\ IdReports(c, i) \in Seq(Report)
<1>1. ASSUME NEW t \in Types
      PROVE  BitsTo(c, i, t)[Len(c.fields)] \in Nat
  <2>1. BitsOf(BitsTo(c, i, t), c, L, i, t) /\ L \in 0 .. L
    BY BitsAre
  <2> QED BY <2>1 DEF BitsOf
<1>2. IdBits(c, i) \in [Types -> Nat]
  BY <1>1 DEF IdBits
<1>3. IdUsage(c, i) \in UsageNames
  BY UsageIs DEF IdUsage
<1>4. c.fields[i] \in Field
  BY DEF Collection
<1>5. c.fields[i].id \in Nat
  <2>1. c.fields[i].id \in 0 .. 255
    BY <1>4 DEF Field
  <2>2. \A x \in 0 .. 255 : x \in Nat
    OBVIOUS
  <2> QED BY <2>1, <2>2
<1>6. ReportsOf(IdUsage(c, i), c.fields[i].id, IdBits(c, i)) \in Seq(Report)
  BY <1>2, <1>3, <1>5, ReportsOfAre
<1> QED BY <1>2, <1>3, <1>4, <1>5, <1>6 DEF IdReports

\* The reports that a map declares.
LEMMA DeclaredAre ==
    ASSUME NEW m \in Maps
    PROVE  /\ DeclaredSeqs(m) \in Seqs(Report) /\ Len(DeclaredSeqs(m)) = Len(m)
           /\ Declared(m) = FlattenSeq(DeclaredSeqs(m)) /\ Declared(m) \in Seq(Report)
           /\ \A n \in 1 .. Len(m) : /\ IdSeqs(m[n]) \in Seqs(Report)
                                     /\ Len(IdSeqs(m[n])) = Len(m[n].fields)
                                     /\ DeclaredSeqs(m)[n] = FlattenSeq(IdSeqs(m[n]))
<1>0. PICK N \in Nat : N = Len(m) /\ DOMAIN m = 1 .. N
  BY DEF Maps
<1>1. ASSUME NEW n \in 1 .. N
      PROVE  /\ IdSeqs(m[n]) \in Seqs(Report) /\ Len(IdSeqs(m[n])) = Len(m[n].fields)
             /\ FlattenSeq(IdSeqs(m[n])) \in Seq(Report)
  <2>1. m[n] \in Collection
    BY <1>0 DEF Maps
  <2>2. PICK c \in Collection : c = m[n]
    BY <2>1
  <2>3. PICK L \in Nat : L = Len(c.fields) /\ DOMAIN c.fields = 1 .. L
    BY DEF Collection
  <2>4. \A i \in 1 .. L : IdReports(c, i) \in Seq(Report)
    BY <2>3, IdIs
  <2>5. IdSeqs(c) = [i \in 1 .. L |-> IdReports(c, i)]
    BY <2>3 DEF IdSeqs
  <2>6. IdSeqs(c) \in Seqs(Report) /\ Len(IdSeqs(c)) = L
    BY <2>4, <2>5 DEF Seqs
  <2>7. FlattenSeq(IdSeqs(c)) \in Seq(Report)
    BY <2>3, <2>6, PartsAre DEF PartsOf
  <2> QED BY <2>2, <2>3, <2>6, <2>7
<1>2. DeclaredSeqs(m) = [n \in 1 .. N |-> FlattenSeq(IdSeqs(m[n]))]
  BY <1>0 DEF DeclaredSeqs
<1>3. DeclaredSeqs(m) \in Seqs(Report) /\ Len(DeclaredSeqs(m)) = N
  BY <1>1, <1>2 DEF Seqs
<1>4. Declared(m) = FlattenSeq(DeclaredSeqs(m))
  BY DEF Declared, DeclaredSeqs, IdSeqs
<1>5. FlattenSeq(DeclaredSeqs(m)) \in Seq(Report)
  BY <1>3, PartsAre DEF PartsOf
<1> QED BY <1>0, <1>1, <1>2, <1>3, <1>4, <1>5

RptRec == [map : Nat, proto : {"REPORT", "BOOT"}, type : Types \cup {"none"}, id : Nat,
           usage : UsageNames, len : Nat]

\* What Match changes of a report.
LEMMA MatchIs ==
    ASSUME NEW r \in RptRec, NEW it \in Report
    PROVE  /\ Match(r, it) \in RptRec
           /\ Match(r, it).map = r.map /\ Match(r, it).proto = r.proto /\ Match(r, it).type = r.type
           /\ r.proto = "REPORT" => Match(r, it).id = r.id
BY DEF RptRec, Report, Match

AreSteps(f, r, items, L) ==
    /\ f[0] = r /\ f[L] = MatchAll(r, items)
    /\ \A n \in 0 .. L : f[n] \in RptRec
    /\ \A n \in 1 .. L : f[n] = Match(f[n - 1], items[n])

\* MatchAll matches one item after the other.
LEMMA MatchSteps ==
    ASSUME NEW r \in RptRec, NEW items \in Seq(Report), NEW L \in Nat, L = Len(items)
    PROVE  \E f : AreSteps(f, r, items, L)
<1>1. \A n \in 1 .. L : items[n] \in Report
  OBVIOUS
<1> DEFINE st == [n \in 1 .. L |-> [x \in RptRec |-> Match(x, items[n])]]
<1>2. /\ st \in [1 .. L -> [RptRec -> RptRec]]
      /\ \A n \in 1 .. L : \A x \in RptRec : st[n][x] = Match(x, items[n])
  BY <1>1, MatchIs
<1> HIDE DEF st
<1>3. PICK f : Iterates(f, RptRec, r, L, st)
  BY <1>2, Iterated
<1> DEFINE Body(h) == [n \in 0 .. Len(items) |-> IF n = 0 THEN r ELSE Match(h[n - 1], items[n])]
           b == CHOOSE h : h = Body(h)
<1>4. f[0] = r /\ \A n \in 0 .. L : f[n] \in RptRec
  BY <1>3 DEF Iterates
<1>5. ASSUME NEW n \in 1 .. L
      PROVE  f[n] = Match(f[n - 1], items[n])
  <2>1. n - 1 \in 0 .. L
    OBVIOUS
  <2>2. f[n - 1] \in RptRec /\ f[n] = st[n][f[n - 1]]
    BY <1>3, <1>4, <2>1 DEF Iterates
  <2> QED BY <1>2, <2>2
<1>6. f = Body(f)
  <2>1. \A n \in 0 .. L : f[n] = Body(f)[n]
    <3> SUFFICES ASSUME NEW n \in 0 .. L
                 PROVE  f[n] = Body(f)[n]
      OBVIOUS
    <3>1. CASE n = 0
      BY <1>4, <3>1
    <3>2. CASE n # 0
      <4>1. n \in 1 .. L
        BY <3>2
      <4>2. Body(f)[n] = Match(f[n - 1], items[n])
        BY <3>2
      <4> HIDE DEF Body
      <4> QED BY <1>5, <4>1, <4>2
    <3> QED BY <3>1, <3>2
  <2>3. Body(f) = [n \in 0 .. L |-> Body(f)[n]]
    OBVIOUS
  <2>4. f = [n \in 0 .. L |-> f[n]]
    BY <1>3 DEF Iterates
  <2> HIDE DEF Body
  <2>5. [n \in 0 .. L |-> f[n]] = [n \in 0 .. L |-> Body(f)[n]]
    BY <2>1
  <2> QED BY <2>3, <2>4, <2>5
<1>7. b = Body(b)
  <2> HIDE DEF Body
  <2> QED BY <1>6
<1>8. MatchAll(r, items) = b[L]
  BY DEF MatchAll
<1> HIDE DEF b
<1>9. b[0] = r
  <2>1. Body(b)[0] = r
    OBVIOUS
  <2> HIDE DEF Body
  <2> QED BY <1>7, <2>1
<1>10. ASSUME NEW n \in 1 .. L
       PROVE  b[n] = Match(b[n - 1], items[n])
  <2>1. Body(b)[n] = Match(b[n - 1], items[n])
    <3>1. n \in 0 .. Len(items) /\ n # 0
      OBVIOUS
    <3> QED BY <3>1
  <2> HIDE DEF Body
  <2> QED BY <1>7, <2>1
<1>11. \A n \in 0 .. L : b[n] \in RptRec
  <2> DEFINE S == {n \in 0 .. L : b[n] \in RptRec}
  <2>1. 0 \in S
    BY <1>9
  <2>2. \A n \in 0 .. L - 1 : n \in S => n + 1 \in S
    <3> SUFFICES ASSUME NEW n \in 0 .. L - 1, n \in S
                 PROVE  n + 1 \in S
      OBVIOUS
    <3>1. PICK k \in 1 .. L : k = n + 1 /\ k - 1 = n /\ k \in 0 .. L
      OBVIOUS
    <3>2. b[n] \in RptRec /\ items[k] \in Report
      BY <1>1
    <3>3. b[k] = Match(b[n], items[k])
      BY <1>10, <3>1
    <3>4. b[k] \in RptRec
      BY <3>2, <3>3, MatchIs
    <3> QED BY <3>1, <3>4
  <2> HIDE DEF S
  <2>3. 0 .. L \subseteq S
    BY <2>1, <2>2, Inductive
  <2> QED BY <2>3 DEF S
<1>12. AreSteps(b, r, items, L)
  BY <1>8, <1>9, <1>10, <1>11 DEF AreSteps
<1> QED BY <1>12

\* What matching leaves of a report.
LEMMA MatchAllIs ==
    ASSUME NEW r \in RptRec, NEW items \in Seq(Report)
    PROVE  /\ MatchAll(r, items) \in RptRec
           /\ MatchAll(r, items).map = r.map /\ MatchAll(r, items).proto = r.proto
           /\ MatchAll(r, items).type = r.type
           /\ r.proto = "REPORT" => MatchAll(r, items).id = r.id
<1>0. PICK L \in Nat : L = Len(items)
  OBVIOUS
<1>1. PICK f : AreSteps(f, r, items, L)
  BY <1>0, MatchSteps
<1> DEFINE Same(x) == /\ x.map = r.map /\ x.proto = r.proto /\ x.type = r.type
                      /\ r.proto = "REPORT" => x.id = r.id
           S == {n \in 0 .. L : Same(f[n])}
<1>2. 0 \in S
  BY <1>1 DEF AreSteps
<1>3. \A n \in 0 .. L - 1 : n \in S => n + 1 \in S
  <2> SUFFICES ASSUME NEW n \in 0 .. L - 1, n \in S
               PROVE  n + 1 \in S
    OBVIOUS
  <2>1. PICK k \in 1 .. L : k = n + 1 /\ k - 1 = n /\ k \in 0 .. L
    OBVIOUS
  <2>2. f[n] \in RptRec /\ items[k] \in Report /\ f[k] = Match(f[n], items[k])
    BY <1>0, <1>1, <2>1 DEF AreSteps
  <2>3. Same(f[n])
    OBVIOUS
  <2>4. /\ f[k].map = f[n].map /\ f[k].proto = f[n].proto /\ f[k].type = f[n].type
        /\ f[n].proto = "REPORT" => f[k].id = f[n].id
    BY <2>2, MatchIs
  <2>5. Same(f[k])
    BY <2>3, <2>4
  <2> QED BY <2>1, <2>5
<1> HIDE DEF S
<1>4. 0 .. L \subseteq S /\ L \in 0 .. L
  BY <1>2, <1>3, Inductive
<1>5. Same(f[L])
  BY <1>4 DEF S
<1>6. f[L] = MatchAll(r, items) /\ f[L] \in RptRec
  BY <1>1, <1>4 DEF AreSteps
<1> QED BY <1>5, <1>6

\* A report as discovery leaves it.
LEMMA DiscoveredIs ==
    ASSUME NEW k \in Nat, NEW c \in Characteristic
    PROVE  Discovered(k, c) \in RptRec /\ Discovered(k, c).map = k
<1>1. c.uuid = "RPT" => c.type \in Types \cup {"none"} /\ c.id \in Nat
  BY DEF Characteristic
<1>2. c.uuid \in {"BOOT_KBD_INP", "BOOT_KBD_OUT", "BOOT_MOUSE_INP", "RPT"}
  BY DEF Characteristic
<1> QED BY <1>1, <1>2 DEF Discovered, RptRec, UsageNames, Types

DeviceSeqs(dev) == [k \in DOMAIN dev |-> ServiceReports(k, dev[k])]

\* The reports that discovery finds on a device, service by service.
LEMMA DeviceSeqsAre ==
    ASSUME NEW dev \in Seq(Service)
    PROVE  /\ DeviceSeqs(dev) \in Seqs(RptRec) /\ Len(DeviceSeqs(dev)) = Len(dev)
           /\ \A k \in 1 .. Len(dev) : \A q \in 1 .. Len(DeviceSeqs(dev)[k]) :
                 DeviceSeqs(dev)[k][q].map = k
<1>0. PICK N \in Nat : N = Len(dev) /\ DOMAIN dev = 1 .. N
  OBVIOUS
<1>1. ASSUME NEW k \in 1 .. N
      PROVE  /\ ServiceReports(k, dev[k]) \in Seq(RptRec)
             /\ \A q \in 1 .. Len(ServiceReports(k, dev[k])) :
                   ServiceReports(k, dev[k])[q].map = k
  <2>1. PICK cs \in Seq(Characteristic) : cs = dev[k].chars
    <3>1. dev[k] \in Service
      BY <1>0
    <3> QED BY <3>1 DEF Service
  <2>2. PICK L \in Nat : L = Len(cs) /\ DOMAIN cs = 1 .. L /\ \A q \in 1 .. L : cs[q] \in Characteristic
    OBVIOUS
  <2>3. ServiceReports(k, dev[k]) = [q \in 1 .. L |-> Discovered(k, cs[q])]
    BY <2>1, <2>2 DEF ServiceReports
  <2>4. \A q \in 1 .. L : Discovered(k, cs[q]) \in RptRec /\ Discovered(k, cs[q]).map = k
    BY <1>0, <2>2, DiscoveredIs
  <2> QED BY <2>3, <2>4
<1>2. DeviceSeqs(dev) = [k \in 1 .. N |-> ServiceReports(k, dev[k])]
  BY <1>0 DEF DeviceSeqs
<1>3. DeviceSeqs(dev) \in Seqs(RptRec) /\ Len(DeviceSeqs(dev)) = N
  BY <1>1, <1>2 DEF Seqs
<1>4. \A k \in 1 .. N : DeviceSeqs(dev)[k] = ServiceReports(k, dev[k])
  BY <1>2
<1> QED BY <1>0, <1>1, <1>3, <1>4

Found(dev) == FlattenSeq(DeviceSeqs(dev))

\* The list that discovery makes of them has the last one first.
LEMMA FoundAre ==
    ASSUME NEW dev \in Seq(Service)
    PROVE  /\ Found(dev) \in Seq(RptRec) /\ Len(Found(dev)) \in Nat
           /\ Reverse(Found(dev)) \in Seq(RptRec) /\ Len(Reverse(Found(dev))) = Len(Found(dev))
           /\ \A i \in 1 .. Len(Found(dev)) : Reverse(Found(dev))[i] = Found(dev)[(Len(Found(dev)) - i) + 1]
<1>1. PICK fs \in Seq(RptRec) : fs = Found(dev)
  <2>1. PICK N \in Nat : N = Len(dev)
    OBVIOUS
  <2> QED BY <2>1, DeviceSeqsAre, PartsAre DEF PartsOf, Found
<1>2. PICK L \in Nat : L = Len(fs) /\ \A q \in 1 .. L : fs[q] \in RptRec
  OBVIOUS
<1>3. \A i \in 1 .. L : (L - i) + 1 \in 1 .. L
  OBVIOUS
<1>4. Reverse(fs) = [i \in 1 .. L |-> fs[(L - i) + 1]]
  BY <1>2 DEF Reverse
<1> QED BY <1>1, <1>2, <1>3, <1>4

\* What fits is the beginning, and all where it is not too long.
LEMMA FittingIs ==
    ASSUME NEW rs \in Seq(Report), MaxReports \in Nat
    PROVE  /\ Fitting(rs) \in Seq(Report) /\ Len(Fitting(rs)) <= MaxReports
           /\ Len(rs) <= MaxReports => Fitting(rs) = rs
<1>0. PICK L \in Nat : L = Len(rs) /\ \A i \in 1 .. L : rs[i] \in Report
  OBVIOUS
<1>1. {L, MaxReports} \subseteq Nat /\ {L, MaxReports} # {}
  OBVIOUS
<1>2. PICK k \in Nat : /\ k = Min({L, MaxReports}) /\ k \in {L, MaxReports}
                       /\ \A y \in {L, MaxReports} : k <= y
  BY <1>1, LeastIs
<1>3. k <= L /\ k <= MaxReports /\ (L <= MaxReports => k = L)
  BY <1>2
<1>4. Fitting(rs) = SubSeq(rs, 1, k)
  BY <1>0, <1>2 DEF Fitting
<1>5. SubSeq(rs, 1, k) \in Seq(Report) /\ Len(SubSeq(rs, 1, k)) = k
  <2>1. \A i \in 1 .. k : rs[i] \in Report
    BY <1>0, <1>3
  <2>2. SubSeq(rs, 1, k) \in Seq(Report) /\ Len(SubSeq(rs, 1, k)) = IF 1 <= k THEN k - 1 + 1 ELSE 0
    BY <2>1, SubSeqProperties
  <2> QED BY <2>2
<1>6. k = L => SubSeq(rs, 1, k) = rs
  BY <1>0, SubSeqFull
<1> QED BY <1>0, <1>3, <1>4, <1>5, <1>6

-----------------------------------------------------------------------------
(* The first invariant: types, the place of the parser in the descriptor,  *)
(* and the depth that its place and earlier descriptors account for.       *)

Params == [page : Vals, usage : Vals, inner_page : Vals, inner_usage : Vals, id : Nat,
           bits : [Types -> Lengths]]
Collections == [mask : SUBSET UsageNames, reports : Seq(Report), live : BOOLEAN]
MapUsages == {Dominant(mask) : mask \in SUBSET UsageNames} \cup {"none"}
Result == [how : {"none", "map", "refused", "no_memory"}, reports : Seq(Report),
           usage : MapUsages, fresh : BOOLEAN]
Steps == {"USAGE_PAGE", "USAGE", "COLLECTION", "END"}

\* The statics.
StaticsType ==
    /\ s_parse_step \in Steps /\ s_collection_depth \in 0 .. 255
    /\ s_report_params \in Params /\ s_report_size \in Nat /\ s_report_count \in Nat
    /\ s_new_map \in BOOLEAN
    /\ s_temp \in Collections /\ Len(s_temp.reports) <= MaxReports
\* The caller's variables, and the history.
CallerType ==
    /\ pc \in {"idle", "service", "parse", "crashed"}
    /\ device \in Seq(Service) /\ d \in 1 .. Len(device) + 1
    /\ pc \in {"parse", "crashed"} => d <= Len(device)
    /\ pc = "idle" => d = Len(device) + 1
    /\ results \in Seq(Result)
    /\ Len(results) = IF pc \in {"parse", "crashed"} THEN d ELSE d - 1
    /\ rpts \in Seq(RptRec)
    /\ parsed \in Nat /\ (pc = "parse" => parsed >= 1)
\* The position in the descriptor is a place of its map, and the depth is what the
\* place adds to what earlier descriptors left, at most 2 each.
Here(p) == p \in Places(device[d].map) /\ index = PlaceAt(device[d].map, p)
DepthFrom(b, level) == /\ b \in 0 .. 2 * (parsed - 1) /\ s_collection_depth = b + level
                       /\ b = 0 => level >= 1
PlaceInv ==
    /\ pc = "parse" =>
          /\ desc = Descriptor(device[d])
          /\ \E p : Here(p) /\ (s_parse_step = "END" /\ parsed < 128 =>
                                   \E b : DepthFrom(b, Level(device[d].map, p)))
    /\ pc # "parse" /\ s_parse_step = "END" /\ parsed < 128 =>
          s_collection_depth \in 1 .. 2 * parsed
ParseInv == StaticsType /\ CallerType /\ PlaceInv

\* The initial statics.
LEMMA StaticsAtReset ==
    /\ NoParams \in Params /\ NULL \in Collections /\ NoBits \in [Types -> Lengths]
    /\ Len(NULL.reports) = 0
<1>1. NoBits \in [Types -> Lengths]
  <2>1. 0 \in Lengths
    BY SMT DEF Lengths
  <2> QED BY <2>1 DEF NoBits
<1>2. NoParams \in Params
  BY <1>1 DEF NoParams, Params, Vals
<1>3. NULL \in Collections /\ Len(NULL.reports) = 0
  BY DEF NULL, Collections
<1> QED BY <1>1, <1>2, <1>3

\* The invariant holds at the start.
LEMMA InitParse ==
    ASSUME Init, ParserAssumption
    PROVE  ParseInv
<1>1. MaxReports \in Nat
  BY DEF ParserAssumption
<1>2. StaticsType
  <2>1. s_parse_step \in Steps /\ s_new_map \in BOOLEAN
    BY DEF Init, Steps
  <2>2. s_collection_depth \in 0 .. 255 /\ s_report_size \in Nat /\ s_report_count \in Nat
    BY DEF Init
  <2>3. s_report_params \in Params
    BY StaticsAtReset DEF Init
  <2>4. s_temp \in Collections /\ Len(s_temp.reports) <= MaxReports
    BY <1>1, StaticsAtReset DEF Init
  <2> QED BY <2>1, <2>2, <2>3, <2>4 DEF StaticsType
<1>3. device = <<>> /\ results = <<>> /\ rpts = <<>> /\ d = 1 /\ pc = "idle" /\ parsed = 0
  BY DEF Init
<1>4. device \in Seq(Service) /\ results \in Seq(Result) /\ rpts \in Seq(RptRec)
      /\ Len(device) = 0 /\ Len(results) = 0
  BY <1>3
<1>5. CallerType
  BY <1>3, <1>4 DEF CallerType
<1>6. PlaceInv
  BY DEF Init, PlaceInv
<1> QED BY <1>2, <1>5, <1>6 DEF ParseInv

\* What the parser reads: the item of the place where it is.
LEMMA ReadIs ==
    ASSUME ParseInv, pc = "parse", index <= Len(desc), It.tag # "short", NEW p, Here(p)
    PROVE  /\ device[d] \in Service /\ device[d].map \in Maps
           /\ p \in Places(device[d].map) /\ p # End(device[d].map)
           /\ It = PlaceItem(device[d].map, p) /\ It \in Items
           /\ index \in Nat /\ index + 1 = PlaceAt(device[d].map, After(device[d].map, p))
           /\ After(device[d].map, p) \in Places(device[d].map)
<1>1. d \in 1 .. Len(device) /\ device \in Seq(Service)
  BY DEF ParseInv, CallerType
<1>2. PICK s \in Service : s = device[d]
  BY <1>1
<1>3. desc = Descriptor(s) /\ p \in Places(s.map) /\ index = PlaceAt(s.map, p)
  BY <1>2 DEF ParseInv, PlaceInv, Here
<1>4. s.map \in Maps
  BY DescriptorIs
<1>5. PICK m \in Maps : m = s.map
  BY <1>4
<1>6. Len(MapItems(m)) \in Nat /\ PlaceAt(m, End(m)) = Len(MapItems(m)) + 1
  BY MapEnds
<1>7. index \in Nat /\ index >= 1
  <2>1. CASE p = End(m)
    BY <1>3, <1>5, <1>6, <2>1
  <2>2. CASE p # End(m)
    BY <1>3, <1>5, <1>6, <2>2, PlaceIs
  <2> QED BY <2>1, <2>2
<1>8. index \in 1 .. Len(desc)
  BY <1>3, <1>7, DescriptorIs
<1>9. index \in 1 .. Len(MapItems(m)) /\ It = MapItems(m)[index]
  BY <1>3, <1>5, <1>8, DescriptorIs DEF It
<1>10. p # End(m)
  BY <1>3, <1>5, <1>6, <1>9
<1>11. /\ It = PlaceItem(m, p) /\ After(m, p) \in Places(m)
       /\ PlaceAt(m, After(m, p)) = index + 1
  BY <1>3, <1>5, <1>9, <1>10, PlaceIs
<1>12. It \in Items
  BY <1>3, <1>5, <1>10, <1>11, LevelIs
<1> QED BY <1>2, <1>3, <1>4, <1>5, <1>7, <1>10, <1>11, <1>12

\* Inside a collection the depth is positive, and at most 2 more than before.
LEMMA DepthIs ==
    ASSUME ParseInv
    PROVE  s_parse_step = "END" /\ parsed < 128 => s_collection_depth \in 1 .. 2 * parsed
<1>1. CASE pc = "parse" /\ s_parse_step = "END" /\ parsed < 128
  <2>1. PICK p : Here(p) /\ \E b : DepthFrom(b, Level(device[d].map, p))
    BY <1>1 DEF ParseInv, PlaceInv
  <2>2. PICK b : DepthFrom(b, Level(device[d].map, p))
    BY <2>1
  <2>3. d \in 1 .. Len(device) /\ device \in Seq(Service) /\ parsed \in Nat /\ parsed >= 1
    BY <1>1 DEF ParseInv, CallerType
  <2>4. Level(device[d].map, p) \in 0 .. 2
    BY DEF Level, NestItems
  <2>5. PICK l \in 0 .. 2 : l = Level(device[d].map, p)
    BY <2>4
  <2> QED BY <2>2, <2>3, <2>5 DEF DepthFrom
<1> QED BY <1>1 DEF ParseInv, PlaceInv

\* What a run checks of the statics.
LEMMA ParseInvGivesType ==
    ASSUME ParseInv
    PROVE  ParserTypeOK
<1>1. /\ s_parse_step \in {"USAGE_PAGE", "USAGE", "COLLECTION", "END"}
      /\ s_collection_depth \in 0 .. 255
      /\ Len(s_temp.reports) <= MaxReports
  BY DEF ParseInv, StaticsType, Steps
<1>2. \A t \in Types : s_report_params.bits[t] \in Lengths
  <2>1. s_report_params \in Params
    BY DEF ParseInv, StaticsType
  <2> QED BY <2>1 DEF Params
<1>3. s_parse_step = "END" /\ parsed < 128 => s_collection_depth > 0
  BY <1>1, DepthIs
<1>4. pc = "parse" => Len(results) = d
  BY DEF ParseInv, CallerType
<1> QED BY <1>1, <1>2, <1>3, <1>4 DEF ParserTypeOK

\* Lengths have 16 bits.
LEMMA LengthIs ==
    /\ \A x \in Nat : x % 65536 \in Lengths
    /\ \A x \in Nat : x < 65536 => x % 65536 = x
    /\ \A x \in Lengths : x \in Nat
<1>1. \A x \in Nat : x % 65536 \in Lengths
  BY SMT DEF Lengths
<1>2. \A x \in Nat : x < 65536 => x % 65536 = x
  BY SMT
<1>3. \A x \in Lengths : x \in Nat
  BY SMT DEF Lengths
<1> QED BY <1>1, <1>2, <1>3

\* What the items change of the report that is measured.
LEMMA ParamsChange ==
    ASSUME NEW pr \in Params, NEW v \in Vals, NEW n \in Nat
    PROVE  /\ [NoParams EXCEPT !.page = v] \in Params
           /\ [pr EXCEPT !.usage = v] \in Params
           /\ [pr EXCEPT !.inner_page = v] \in Params
           /\ [pr EXCEPT !.inner_usage = v] \in Params
           /\ [pr EXCEPT !.id = n] \in Params
           /\ [pr EXCEPT !.bits = NoBits, !.usage = pr.inner_usage,
                         !.page = pr.inner_page, !.id = n] \in Params
           /\ \A t \in Types : \A l \in Lengths : [pr EXCEPT !.bits[t] = l] \in Params
<1>1. NoParams \in Params /\ NoBits \in [Types -> Lengths]
  BY StaticsAtReset
<1>2. pr.bits \in [Types -> Lengths]
  BY DEF Params
<1>3. \A t \in Types : \A l \in Lengths : [pr.bits EXCEPT ![t] = l] \in [Types -> Lengths]
  BY <1>2
<1> QED BY <1>1, <1>3 DEF Params

\* What add_report leaves in the table.
LEMMA HandledIs ==
    ASSUME StaticsType
    PROVE  /\ Collected \in Seq(Report)
           /\ [mask |-> (IF s_new_map THEN {} ELSE s_temp.mask)
                        \cup {UsageOf(s_report_params.page, s_report_params.usage)},
               reports |-> Fitting(Collected), live |-> TRUE] \in Collections
           /\ Len(Fitting(Collected)) <= MaxReports
           /\ Len(Collected) <= MaxReports => Fitting(Collected) = Collected
<1>1. PICK pr \in Params : pr = s_report_params
  BY DEF StaticsType
<1>2. PICK tm \in Collections : tm = s_temp
  BY DEF StaticsType
<1>3. PICK new \in BOOLEAN : new = s_new_map
  BY DEF StaticsType
<1>4. PICK u \in UsageNames : u = UsageOf(pr.page, pr.usage)
  BY UsageIs
<1>5. pr.bits \in [Types -> Nat] /\ pr.id \in Nat
  BY LengthIs DEF Params
<1>6. ReportsOf(u, pr.id, pr.bits) \in Seq(Report)
  BY <1>5, ReportsOfAre
<1>7. tm.reports \in Seq(Report) /\ tm.mask \subseteq UsageNames
  BY DEF Collections
<1>8. (IF new THEN <<>> ELSE tm.reports) \in Seq(Report)
  BY <1>7
<1>9. Collected \in Seq(Report)
  BY <1>1, <1>2, <1>3, <1>4, <1>6, <1>8 DEF Collected
<1>10. /\ Fitting(Collected) \in Seq(Report) /\ Len(Fitting(Collected)) <= MaxReports
       /\ Len(Collected) <= MaxReports => Fitting(Collected) = Collected
  BY <1>9, FittingIs, ParserAssumption
<1>11. (IF new THEN {} ELSE tm.mask) \cup {u} \in SUBSET UsageNames
  BY <1>7
<1> QED BY <1>1, <1>2, <1>3, <1>4, <1>9, <1>10, <1>11 DEF Collections

\* The caller after a descriptor that was given up.
LEMMA GivenUp ==
    ASSUME ParseInv, pc = "parse", NEW how \in {"refused", "no_memory"}, GiveUp(how),
           StaticsType', \/ s_parse_step' = "USAGE_PAGE"
                         \/ s_parse_step' = s_parse_step
                            /\ s_collection_depth' = s_collection_depth
    PROVE  ParseInv'
<1>1. /\ d \in 1 .. Len(device) /\ device \in Seq(Service) /\ results \in Seq(Result)
      /\ Len(results) = d /\ rpts \in Seq(RptRec) /\ parsed \in Nat
  BY DEF ParseInv, CallerType
<1>2. /\ pc' = "service" /\ d' = d + 1 /\ device' = device /\ rpts' = rpts /\ parsed' = parsed
      /\ results' = [results EXCEPT ![d].how = how]
  BY DEF GiveUp
<1>3. results' \in Seq(Result) /\ Len(results') = Len(results)
  <2>1. PICK rs \in Seq(Result) : rs = results
    BY <1>1
  <2>2. PICK k \in 1 .. Len(rs) : k = d
    BY <1>1, <2>1
  <2>3. PICK r \in Result : r = rs[k]
    BY <2>2
  <2>4. [r EXCEPT !.how = how] \in Result
    BY DEF Result
  <2>5. results' = [rs EXCEPT ![k] = [r EXCEPT !.how = how]]
    BY <1>2, <2>1, <2>2, <2>3
  <2> QED BY <2>1, <2>4, <2>5
<1>4. CallerType'
  BY <1>1, <1>2, <1>3 DEF CallerType
<1>5. PlaceInv'
  BY <1>2, DepthIs DEF PlaceInv
<1> QED BY <1>4, <1>5 DEF ParseInv

\* The place after an item that was handled.
LEMMA Proceeded ==
    ASSUME ParseInv, pc = "parse", index <= Len(desc), It.tag # "short", NEW p, Here(p),
           Proceed, StaticsType',
           NEW m, m = device[d].map, NEW q, q = After(m, p),
           s_parse_step' = "END" /\ parsed < 128 => \E b : DepthFrom(b, Level(m, q))'
    PROVE  ParseInv'
<1>1. /\ index' = index + 1 /\ desc' = desc /\ device' = device /\ d' = d /\ pc' = pc
      /\ rpts' = rpts /\ parsed' = parsed /\ results' = results
  BY DEF Proceed, callVars
<1>2. CallerType'
  BY <1>1 DEF ParseInv, CallerType
<1>3. Here(q)'
  BY <1>1, ReadIs DEF Here
<1>4. PlaceInv'
  BY <1>1, <1>3 DEF ParseInv, PlaceInv
<1> QED BY <1>2, <1>4 DEF ParseInv

\* A place of the parser, with what it says of the depth.
LEMMA PlaceHere ==
    ASSUME ParseInv, pc = "parse", index <= Len(desc), It.tag # "short"
    PROVE  \E p : /\ Here(p)
                  /\ s_parse_step = "END" /\ parsed < 128 =>
                        \E b : DepthFrom(b, Level(device[d].map, p))
BY DEF ParseInv, PlaceInv

\* An item that cannot be read.
LEMMA FailStays ==
    ASSUME ParseInv, ParseCmdFails
    PROVE  ParseInv'
<1>1. StaticsType'
  BY DEF ParseCmdFails, statics, lenVars, mapVars, ParseInv, StaticsType
<1>2. s_parse_step' = s_parse_step /\ s_collection_depth' = s_collection_depth
  BY DEF ParseCmdFails, statics
<1>3. GiveUp("refused") \/ GiveUp("no_memory")
  BY DEF ParseCmdFails
<1> QED BY <1>1, <1>2, <1>3, GivenUp DEF ParseCmdFails

\* An item out of place.
LEMMA RefuseStays ==
    ASSUME ParseInv, pc = "parse", NEW how \in {"refused", "no_memory"}, Refuse(how),
           s_new_map' \in BOOLEAN, s_temp' \in Collections, Len(s_temp'.reports) <= MaxReports
    PROVE  ParseInv'
<1>1. StaticsType'
  BY DEF Refuse, lenVars, ParseInv, StaticsType, Steps
<1> QED BY <1>1, GivenUp DEF Refuse

\* The items in front of a collection.
LEMMA PageStays ==
    ASSUME ParseInv, WaitUsagePage
    PROVE  ParseInv'
<1>0. pc = "parse" /\ index <= Len(desc) /\ It.tag # "short" /\ UNCHANGED mapVars
  BY DEF WaitUsagePage, Reading
<1>1. s_new_map' \in BOOLEAN /\ s_temp' \in Collections /\ Len(s_temp'.reports) <= MaxReports
  BY <1>0 DEF mapVars, ParseInv, StaticsType
<1>2. CASE It.tag = "USAGE_PAGE"
  <2>1. PICK p : Here(p)
    BY <1>0, PlaceHere
  <2>2. It \in Items
    BY <1>0, <2>1, ReadIs
  <2>3. It.val \in Vals
    BY <2>2 DEF Items
  <2>4. s_report_params' \in Params
    BY <1>2, <2>3, ParamsChange, StaticsAtReset DEF WaitUsagePage
  <2>5. /\ s_parse_step' = "USAGE" /\ s_collection_depth' = s_collection_depth
        /\ s_report_size' = 0 /\ s_report_count' = 0 /\ Proceed
    BY <1>2 DEF WaitUsagePage
  <2>6. StaticsType'
    BY <1>1, <2>4, <2>5 DEF ParseInv, StaticsType, Steps
  <2> QED BY <1>0, <2>1, <2>5, <2>6, Proceeded
<1>3. CASE It.tag # "USAGE_PAGE"
  BY <1>0, <1>1, <1>3, RefuseStays DEF WaitUsagePage
<1> QED BY <1>2, <1>3

\* The same for the usage.
LEMMA UsageStays ==
    ASSUME ParseInv, WaitUsage
    PROVE  ParseInv'
<1>0. pc = "parse" /\ index <= Len(desc) /\ It.tag # "short" /\ UNCHANGED mapVars
  BY DEF WaitUsage, Reading
<1>1. s_new_map' \in BOOLEAN /\ s_temp' \in Collections /\ Len(s_temp'.reports) <= MaxReports
  BY <1>0 DEF mapVars, ParseInv, StaticsType
<1>2. CASE It.tag = "USAGE"
  <2>1. PICK p : Here(p)
    BY <1>0, PlaceHere
  <2>2. It \in Items
    BY <1>0, <2>1, ReadIs
  <2>3. It.val \in Vals
    BY <2>2 DEF Items
  <2>4. s_report_params \in Params
    BY DEF ParseInv, StaticsType
  <2>5. s_report_params' \in Params
    BY <1>2, <2>3, <2>4, ParamsChange DEF WaitUsage
  <2>6. /\ s_parse_step' = "COLLECTION" /\ s_collection_depth' = s_collection_depth
        /\ s_report_size' = s_report_size /\ s_report_count' = s_report_count /\ Proceed
    BY <1>2 DEF WaitUsage
  <2>7. StaticsType'
    BY <1>1, <2>5, <2>6 DEF ParseInv, StaticsType, Steps
  <2> QED BY <1>0, <2>1, <2>6, <2>7, Proceeded
<1>3. CASE It.tag # "USAGE"
  BY <1>0, <1>1, <1>3, RefuseStays DEF WaitUsage
<1> QED BY <1>2, <1>3

\* The start of a collection sets the depth.
LEMMA CollectionStays ==
    ASSUME ParseInv, WaitCollection
    PROVE  ParseInv'
<1>0. pc = "parse" /\ index <= Len(desc) /\ It.tag # "short" /\ UNCHANGED mapVars
  BY DEF WaitCollection, Reading
<1>1. s_new_map' \in BOOLEAN /\ s_temp' \in Collections /\ Len(s_temp'.reports) <= MaxReports
  BY <1>0 DEF mapVars, ParseInv, StaticsType
<1>2. CASE It = Item("COLLECTION", "application")
  <2>1. PICK p : Here(p)
    BY <1>0, PlaceHere
  <2>2. PICK m : m = device[d].map
    OBVIOUS
  <2>3. PICK q : q = After(m, p)
    OBVIOUS
  <2>4. m \in Maps /\ p \in Places(m) /\ p # End(m) /\ It = PlaceItem(m, p)
    BY <1>0, <2>1, <2>2, ReadIs
  <2>5. Level(m, q) = 1
    BY <1>2, <2>3, <2>4, LevelIs
  <2>6. s_report_params \in Params
    BY DEF ParseInv, StaticsType
  <2>7. s_report_params' \in Params
    BY <1>2, <2>6, ParamsChange DEF WaitCollection, Vals
  <2>8. /\ s_parse_step' = "END" /\ s_collection_depth' = 1
        /\ s_report_size' = s_report_size /\ s_report_count' = s_report_count /\ Proceed
    BY <1>2 DEF WaitCollection
  <2>9. StaticsType'
    BY <1>1, <2>7, <2>8 DEF ParseInv, StaticsType, Steps
  <2>10. parsed' = parsed /\ parsed \in Nat /\ parsed >= 1
    BY <1>0, <2>8 DEF Proceed, callVars, ParseInv, CallerType
  <2>11. DepthFrom(0, Level(m, q))'
    BY <2>5, <2>8, <2>10 DEF DepthFrom
  <2> QED BY <1>0, <2>1, <2>2, <2>3, <2>8, <2>9, <2>11, Proceeded
<1>3. CASE It # Item("COLLECTION", "application")
  BY <1>0, <1>1, <1>3, RefuseStays DEF WaitCollection
<1> QED BY <1>2, <1>3

\* The changes that an item makes inside a collection.
LEMMA InnerChange ==
    ASSUME NEW pr \in Params
    PROVE  /\ \A v \in Vals : /\ [pr EXCEPT !.inner_page = v] \in Params
                              /\ [pr EXCEPT !.inner_usage = v] \in Params
           /\ \A t \in Types : \A l \in Lengths : [pr EXCEPT !.bits[t] = l] \in Params
<1>1. 0 \in Nat
  OBVIOUS
<1>2. \A v \in Vals : /\ [pr EXCEPT !.inner_page = v] \in Params
                      /\ [pr EXCEPT !.inner_usage = v] \in Params
  BY <1>1, ParamsChange
<1>3. "none" \in Vals
  BY DEF Vals
<1>4. \A t \in Types : \A l \in Lengths : [pr EXCEPT !.bits[t] = l] \in Params
  BY <1>1, <1>3, ParamsChange
<1> QED BY <1>2, <1>4

\* The items inside a collection that only measure.
LEMMA MeasureStays ==
    ASSUME ParseInv, Measure
    PROVE  ParseInv'
<1>0. pc = "parse" /\ index <= Len(desc) /\ It.tag # "short" /\ UNCHANGED mapVars
      /\ s_parse_step = "END"
  BY DEF Measure, Reading
<1>1. s_new_map' \in BOOLEAN /\ s_temp' \in Collections /\ Len(s_temp'.reports) <= MaxReports
  BY <1>0 DEF mapVars, ParseInv, StaticsType
<1>2. PICK p : /\ Here(p)
               /\ s_parse_step = "END" /\ parsed < 128 =>
                     \E b : DepthFrom(b, Level(device[d].map, p))
  BY <1>0, PlaceHere
<1>3. PICK m : m = device[d].map
  OBVIOUS
<1>4. PICK q : q = After(m, p)
  OBVIOUS
<1>5. m \in Maps /\ p \in Places(m) /\ p # End(m) /\ It = PlaceItem(m, p)
  BY <1>0, <1>2, <1>3, ReadIs
<1>6. PICK it \in Items : it = It
  BY <1>0, <1>2, ReadIs
<1>7. /\ it.tag \in {"REPORT_ID", "SIZE", "COUNT"} => it.val \in Nat
      /\ Level(m, p) \in 0 .. 2 /\ Level(m, q) \in 0 .. 2
      /\ it.tag = "COLLECTION" => Level(m, q) = Level(m, p) + 1
      /\ it.tag \notin {"COLLECTION", "END"} => Level(m, q) = Level(m, p)
  BY <1>4, <1>5, <1>6, LevelIs
<1>8. PICK pr \in Params : pr = s_report_params
  BY DEF ParseInv, StaticsType
<1>9. s_report_size \in Nat /\ s_report_count \in Nat /\ s_collection_depth \in 0 .. 255
  BY DEF ParseInv, StaticsType
<1>10. s_report_params' \in Params
  <2>1. it.val \in Vals
    BY DEF Items
  <2>2. s_report_params' =
          CASE it.tag = "USAGE_PAGE" -> [pr EXCEPT !.inner_page = it.val]
            [] it.tag = "USAGE" -> [pr EXCEPT !.inner_usage = it.val]
            [] it.tag \in Types ->
                  [pr EXCEPT !.bits[it.tag] = (@ + s_report_size * s_report_count) % 65536]
            [] OTHER -> pr
    BY <1>6, <1>8 DEF Measure
  <2>3. CASE it.tag \in Types
    <3>1. pr.bits[it.tag] \in Nat
      BY <2>3, LengthIs DEF Params
    <3>2. PICK prod \in Nat : prod = s_report_size * s_report_count
      BY <1>9, ProductIs
    <3>3. PICK l \in Lengths : l = (pr.bits[it.tag] + prod) % 65536
      BY <3>1, LengthIs
    <3>4. s_report_params' = [pr EXCEPT !.bits[it.tag] = l]
      BY <2>2, <2>3, <3>2, <3>3 DEF Types
    <3> QED BY <2>3, <3>4, InnerChange
  <2>4. CASE it.tag = "USAGE_PAGE"
    <3>1. s_report_params' = [pr EXCEPT !.inner_page = it.val]
      BY <2>2, <2>4 DEF Types
    <3> QED BY <2>1, <3>1, InnerChange
  <2>5. CASE it.tag = "USAGE"
    <3>1. s_report_params' = [pr EXCEPT !.inner_usage = it.val]
      BY <2>2, <2>5 DEF Types
    <3> QED BY <2>1, <3>1, InnerChange
  <2>6. CASE it.tag \notin {"USAGE_PAGE", "USAGE"} \cup Types
    BY <2>2, <2>6
  <2> QED BY <2>3, <2>4, <2>5, <2>6
<1>11. s_report_size' \in Nat /\ s_report_count' \in Nat
  BY <1>6, <1>7, <1>9 DEF Measure
<1>12. /\ s_collection_depth' = IF it.tag = "COLLECTION" THEN (s_collection_depth + 1) % 256
                                ELSE s_collection_depth
       /\ s_parse_step' = "END" /\ Proceed /\ it.tag # "END" /\ parsed' = parsed
  BY <1>0, <1>6 DEF Measure, Proceed, callVars
<1>13. s_collection_depth' \in 0 .. 255
  BY <1>9, <1>12
<1>14. StaticsType'
  BY <1>1, <1>10, <1>11, <1>12, <1>13 DEF StaticsType, Steps
<1>15. parsed < 128 => \E b : DepthFrom(b, Level(m, q))'
  <2>1. SUFFICES ASSUME parsed < 128
                 PROVE  \E b : DepthFrom(b, Level(m, q))'
    OBVIOUS
  <2>2. PICK b : DepthFrom(b, Level(m, p))
    BY <1>0, <1>2, <1>3, <2>1
  <2>3. parsed \in Nat /\ parsed >= 1
    BY <1>0 DEF ParseInv, CallerType
  <2>4. PICK lp, lq \in 0 .. 2 : lp = Level(m, p) /\ lq = Level(m, q)
    BY <1>7
  <2>5. DepthFrom(b, lq)'
    BY <1>7, <1>12, <2>1, <2>2, <2>3, <2>4 DEF DepthFrom
  <2> QED BY <2>4, <2>5
<1> QED BY <1>0, <1>2, <1>3, <1>4, <1>12, <1>14, <1>15, Proceeded

\* A report id, also where it ends a report.
LEMMA ReportIdStays ==
    ASSUME ParseInv, ReportId
    PROVE  ParseInv'
<1>0. pc = "parse" /\ index <= Len(desc) /\ It.tag # "short" /\ s_parse_step = "END"
      /\ It.tag = "REPORT_ID"
  BY DEF ReportId, Reading
<1>1. PICK p : /\ Here(p)
               /\ s_parse_step = "END" /\ parsed < 128 =>
                     \E b : DepthFrom(b, Level(device[d].map, p))
  BY <1>0, PlaceHere
<1>2. PICK m : m = device[d].map
  OBVIOUS
<1>3. PICK q : q = After(m, p)
  OBVIOUS
<1>4. m \in Maps /\ p \in Places(m) /\ p # End(m) /\ It = PlaceItem(m, p)
  BY <1>0, <1>1, <1>2, ReadIs
<1>5. PICK it \in Items : it = It
  BY <1>0, <1>1, ReadIs
<1>6. it.val \in Nat /\ Level(m, q) = Level(m, p)
  BY <1>0, <1>3, <1>4, <1>5, LevelIs
<1>7. PICK pr \in Params : pr = s_report_params
  BY DEF ParseInv, StaticsType
<1>8. [pr EXCEPT !.id = it.val] \in Params /\ NextId \in Params
  BY <1>5, <1>6, <1>7, ParamsChange DEF NextId, Vals
<1>9. StaticsType
  BY DEF ParseInv
<1>10. ASSUME Proceed, s_report_params' \in Params, s_new_map' \in BOOLEAN,
              s_temp' \in Collections, Len(s_temp'.reports) <= MaxReports,
              UNCHANGED <<s_parse_step, s_collection_depth, s_report_size, s_report_count>>
       PROVE  ParseInv'
  <2>1. StaticsType'
    BY <1>9, <1>10 DEF StaticsType
  <2>2. parsed' = parsed
    BY <1>10 DEF Proceed, callVars
  <2>3. parsed < 128 => \E b : DepthFrom(b, Level(m, q))'
    BY <1>0, <1>1, <1>2, <1>6, <1>10, <2>2 DEF DepthFrom
  <2> QED BY <1>0, <1>1, <1>2, <1>3, <1>10, <2>1, <2>3, Proceeded
<1>11. CASE s_report_params.id \notin {0, It.val} /\ FullBytes
  <2>1. HandleReport(/\ s_report_params' = NextId
                     /\ UNCHANGED <<s_parse_step, s_collection_depth,
                                    s_report_size, s_report_count>>
                     /\ Proceed)
    BY <1>11 DEF ReportId
  <2>2. \/ /\ s_temp' = [mask |-> (IF s_new_map THEN {} ELSE s_temp.mask)
                      \cup {UsageOf(s_report_params.page, s_report_params.usage)},
                   reports |-> Fitting(Collected), live |-> TRUE]
           /\ \/ /\ s_new_map' = FALSE /\ s_report_params' = NextId
                 /\ UNCHANGED <<s_parse_step, s_collection_depth,
                                s_report_size, s_report_count>>
                 /\ Proceed
              \/ UNCHANGED s_new_map /\ Refuse("refused")
        \/ UNCHANGED mapVars /\ Refuse("no_memory")
    BY <2>1 DEF HandleReport
  <2>3. CASE UNCHANGED mapVars /\ Refuse("no_memory")
    BY <1>0, <1>9, <2>3, RefuseStays DEF mapVars, StaticsType
  <2>4. CASE s_temp' = [mask |-> (IF s_new_map THEN {} ELSE s_temp.mask)
                      \cup {UsageOf(s_report_params.page, s_report_params.usage)},
                   reports |-> Fitting(Collected), live |-> TRUE]
    <3>1. s_temp' \in Collections /\ s_temp'.reports = Fitting(Collected)
          /\ Len(s_temp'.reports) <= MaxReports
      BY <1>9, <2>4, HandledIs
    <3>2. CASE UNCHANGED s_new_map /\ Refuse("refused")
      BY <1>0, <1>9, <3>1, <3>2, RefuseStays DEF StaticsType
    <3>3. CASE /\ s_new_map' = FALSE /\ s_report_params' = NextId
               /\ UNCHANGED <<s_parse_step, s_collection_depth,
                              s_report_size, s_report_count>>
               /\ Proceed
      BY <1>8, <1>10, <3>1, <3>3
    <3> QED BY <2>2, <2>3, <3>2, <3>3
  <2> QED BY <2>2, <2>3, <2>4
<1>12. CASE ~(s_report_params.id \notin {0, It.val} /\ FullBytes)
  <2>1. /\ s_report_params' = [pr EXCEPT !.id = it.val] /\ Proceed
        /\ UNCHANGED <<s_parse_step, s_collection_depth, s_report_size,
                       s_report_count, mapVars>>
    BY <1>5, <1>7, <1>12 DEF ReportId
  <2> QED BY <1>8, <1>9, <1>10, <2>1 DEF mapVars, StaticsType
<1> QED BY <1>11, <1>12

\* The end of a collection: of an inner one, or of the application collection with
\* its last report.
LEMMA EndStays ==
    ASSUME ParseInv, EndCollection
    PROVE  ParseInv'
<1>0. pc = "parse" /\ index <= Len(desc) /\ It.tag # "short" /\ s_parse_step = "END"
      /\ It.tag = "END"
  BY DEF EndCollection, Reading
<1>1. PICK p : /\ Here(p)
               /\ s_parse_step = "END" /\ parsed < 128 =>
                     \E b : DepthFrom(b, Level(device[d].map, p))
  BY <1>0, PlaceHere
<1>2. PICK m : m = device[d].map
  OBVIOUS
<1>3. PICK q : q = After(m, p)
  OBVIOUS
<1>4. m \in Maps /\ p \in Places(m) /\ p # End(m) /\ It = PlaceItem(m, p)
  BY <1>0, <1>1, <1>2, ReadIs
<1>5. Level(m, p) \in 0 .. 2 /\ Level(m, q) \in 0 .. 2 /\ Level(m, q) + 1 = Level(m, p)
  BY <1>0, <1>3, <1>4, LevelIs
<1>6. StaticsType /\ s_collection_depth \in 0 .. 255
  BY DEF ParseInv, StaticsType
<1>7. CASE s_collection_depth # 1
  <2>1. /\ s_collection_depth' = (s_collection_depth + 255) % 256 /\ Proceed
        /\ UNCHANGED <<s_parse_step, lenVars, mapVars>>
    BY <1>7 DEF EndCollection
  <2>2. s_collection_depth' \in 0 .. 255
    BY <1>6, <2>1
  <2>3. StaticsType'
    BY <1>6, <2>1, <2>2 DEF StaticsType, lenVars, mapVars
  <2>4. parsed < 128 => \E b : DepthFrom(b, Level(m, q))'
    <3>1. SUFFICES ASSUME parsed < 128
                   PROVE  \E b : DepthFrom(b, Level(m, q))'
      OBVIOUS
    <3>2. PICK b : DepthFrom(b, Level(m, p))
      BY <1>0, <1>1, <1>2, <3>1
    <3>3. parsed \in Nat /\ parsed >= 1 /\ parsed' = parsed
      BY <1>0, <2>1 DEF ParseInv, CallerType, Proceed, callVars
    <3>4. PICK lp, lq \in 0 .. 2 : lp = Level(m, p) /\ lq = Level(m, q)
      BY <1>5
    <3>5. DepthFrom(b, lq)'
      BY <1>5, <1>7, <2>1, <3>1, <3>2, <3>3, <3>4 DEF DepthFrom
    <3> QED BY <3>4, <3>5
  <2> QED BY <1>0, <1>1, <1>2, <1>3, <2>1, <2>3, <2>4, Proceeded
<1>8. ASSUME s_parse_step' = "USAGE_PAGE", s_collection_depth' = 0, UNCHANGED lenVars, Proceed,
             s_new_map' \in BOOLEAN, s_temp' \in Collections, Len(s_temp'.reports) <= MaxReports
      PROVE  ParseInv'
  <2>1. StaticsType'
    BY <1>6, <1>8 DEF StaticsType, lenVars, Steps
  <2> QED BY <1>0, <1>1, <1>2, <1>3, <1>8, <2>1, Proceeded
<1>9. CASE s_collection_depth = 1 /\ ~FullBytes
  BY <1>6, <1>8, <1>9 DEF EndCollection, mapVars, StaticsType
<1>10. CASE s_collection_depth = 1 /\ FullBytes
  <2>1. HandleReport(/\ s_parse_step' = "USAGE_PAGE" /\ s_collection_depth' = 0
                     /\ UNCHANGED lenVars /\ Proceed)
    BY <1>10 DEF EndCollection
  <2>2. \/ /\ s_temp' = [mask |-> (IF s_new_map THEN {} ELSE s_temp.mask)
                      \cup {UsageOf(s_report_params.page, s_report_params.usage)},
                   reports |-> Fitting(Collected), live |-> TRUE]
           /\ \/ /\ s_new_map' = FALSE
                 /\ s_parse_step' = "USAGE_PAGE" /\ s_collection_depth' = 0
                 /\ UNCHANGED lenVars /\ Proceed
              \/ UNCHANGED s_new_map /\ Refuse("refused")
        \/ UNCHANGED mapVars /\ Refuse("no_memory")
    BY <2>1 DEF HandleReport
  <2>3. CASE UNCHANGED mapVars /\ Refuse("no_memory")
    BY <1>0, <1>6, <2>3, RefuseStays DEF mapVars, StaticsType
  <2>4. CASE s_temp' = [mask |-> (IF s_new_map THEN {} ELSE s_temp.mask)
                      \cup {UsageOf(s_report_params.page, s_report_params.usage)},
                   reports |-> Fitting(Collected), live |-> TRUE]
    <3>1. s_temp' \in Collections /\ s_temp'.reports = Fitting(Collected)
          /\ Len(s_temp'.reports) <= MaxReports
      BY <1>6, <2>4, HandledIs
    <3>2. CASE UNCHANGED s_new_map /\ Refuse("refused")
      BY <1>0, <1>6, <3>1, <3>2, RefuseStays DEF StaticsType
    <3>3. CASE /\ s_new_map' = FALSE
               /\ s_parse_step' = "USAGE_PAGE" /\ s_collection_depth' = 0
               /\ UNCHANGED lenVars /\ Proceed
      BY <1>8, <3>1, <3>3
    <3> QED BY <2>2, <2>3, <3>2, <3>3
  <2> QED BY <2>2, <2>3, <2>4
<1> QED BY <1>7, <1>9, <1>10

\* The reports that discovery found stay reports when a map completes them.
LEMMA MatchedAre ==
    ASSUME rpts \in Seq(RptRec), NEW items \in Seq(Report)
    PROVE  Matched(items) \in Seq(RptRec) /\ Len(Matched(items)) = Len(rpts)
<1>1. \A i \in DOMAIN rpts : rpts[i] \in RptRec
  OBVIOUS
<1>2. \A i \in DOMAIN rpts : MatchAll(rpts[i], items) \in RptRec
  BY <1>1, MatchAllIs
<1>3. \A i \in DOMAIN rpts : (IF rpts[i].map = d THEN MatchAll(rpts[i], items) ELSE rpts[i]) \in RptRec
  BY <1>1, <1>2
<1>4. PICK n \in Nat : n = Len(rpts) /\ DOMAIN rpts = 1 .. n
  OBVIOUS
<1> QED BY <1>3, <1>4 DEF Matched

\* The end of a descriptor.
LEMMA ParseEndStays ==
    ASSUME ParseInv, ParseEnd
    PROVE  ParseInv'
<1>0. pc = "parse" /\ UNCHANGED <<s_parse_step, s_collection_depth, lenVars, s_new_map>>
  BY DEF ParseEnd
<1>1. StaticsType /\ CallerType
  BY DEF ParseInv
<1>2. ASSUME s_temp' \in Collections, Len(s_temp'.reports) <= MaxReports
      PROVE  StaticsType'
  BY <1>0, <1>1, <1>2 DEF StaticsType, lenVars
<1>3. CASE s_temp' = NULL /\ GiveUp("no_memory")
  <2>1. StaticsType'
    BY <1>2, <1>3, StaticsAtReset, ParserAssumption
  <2> QED BY <1>0, <1>3, <2>1, GivenUp
<1>4. CASE /\ pc' = "crashed"
           /\ UNCHANGED <<s_temp, index, desc, device, d, rpts, parsed, results>>
  <2>1. StaticsType'
    BY <1>1, <1>2, <1>4 DEF StaticsType
  <2>2. CallerType'
    BY <1>0, <1>1, <1>4 DEF CallerType
  <2>3. PlaceInv'
    BY <1>0, <1>4, DepthIs DEF PlaceInv
  <2> QED BY <2>1, <2>2, <2>3 DEF ParseInv
<1>5. CASE /\ s_temp.live
           /\ s_temp' = NULL /\ rpts' = Matched(s_temp.reports)
           /\ results' = [results EXCEPT ![d] =
                 [@ EXCEPT !.how = "map", !.usage = Dominant(s_temp.mask),
                           !.reports = s_temp.reports]]
           /\ pc' = "service" /\ d' = d + 1
           /\ UNCHANGED <<index, desc, device, parsed>>
  <2>1. StaticsType'
    BY <1>2, <1>5, StaticsAtReset, ParserAssumption
  <2>2. /\ d \in 1 .. Len(device) /\ device \in Seq(Service) /\ results \in Seq(Result)
        /\ Len(results) = d /\ rpts \in Seq(RptRec) /\ parsed \in Nat
    BY <1>0, <1>1 DEF CallerType
  <2>3. PICK tm \in Collections : tm = s_temp
    BY <1>1 DEF StaticsType
  <2>4. tm.reports \in Seq(Report) /\ tm.mask \in SUBSET UsageNames
    BY DEF Collections
  <2>5. rpts' \in Seq(RptRec)
    BY <1>5, <2>2, <2>3, <2>4, MatchedAre
  <2>6. results' \in Seq(Result) /\ Len(results') = Len(results)
    <3>1. PICK rs \in Seq(Result) : rs = results
      BY <2>2
    <3>2. PICK k \in 1 .. Len(rs) : k = d
      BY <2>2, <3>1
    <3>3. PICK r \in Result : r = rs[k]
      BY <3>2
    <3>4. Dominant(tm.mask) \in MapUsages
      BY <2>4 DEF MapUsages
    <3>5. PICK u \in MapUsages : u = Dominant(tm.mask)
      BY <3>4
    <3>6. [r EXCEPT !.how = "map", !.usage = u, !.reports = tm.reports] \in Result
      BY <2>4 DEF Result
    <3>7. results' = [rs EXCEPT ![k] = [r EXCEPT !.how = "map", !.usage = u, !.reports = tm.reports]]
      BY <1>5, <2>3, <3>1, <3>2, <3>3, <3>5
    <3> QED BY <3>1, <3>6, <3>7
  <2>7. CallerType'
    BY <1>5, <2>2, <2>5, <2>6 DEF CallerType
  <2>8. PlaceInv'
    BY <1>0, <1>5, DepthIs DEF PlaceInv
  <2> QED BY <2>1, <2>7, <2>8 DEF ParseInv
<1> QED BY <1>3, <1>4, <1>5 DEF ParseEnd

\* The caller gives a descriptor to the parser, or passes it over.
LEMMA ParseStays ==
    ASSUME ParseInv, Parse
    PROVE  ParseInv'
<1>0. pc = "service" /\ d <= Len(device) /\ desc' = Descriptor(device[d])
      /\ UNCHANGED <<s_parse_step, s_collection_depth, lenVars, s_temp, device, rpts>>
  BY DEF Parse
<1>1. StaticsType /\ CallerType
  BY DEF ParseInv
<1>2. s_new_map' \in BOOLEAN
  BY <1>1 DEF Parse, StaticsType
<1>3. StaticsType'
  BY <1>0, <1>1, <1>2 DEF StaticsType, lenVars
<1>4. /\ d \in 1 .. Len(device) /\ device \in Seq(Service) /\ results \in Seq(Result)
      /\ Len(results) = d - 1 /\ rpts \in Seq(RptRec) /\ parsed \in Nat
  BY <1>0, <1>1 DEF CallerType
<1>5. results' \in Seq(Result) /\ Len(results') = d
  <2>1. PICK fresh \in BOOLEAN : fresh = (s_parse_step = "USAGE_PAGE")
    OBVIOUS
  <2>2. PICK r : r = [how |-> "none", reports |-> <<>>, usage |-> "none", fresh |-> fresh]
    OBVIOUS
  <2>3. r \in Result
    BY <2>2 DEF Result, MapUsages
  <2>4. results' = Append(results, r)
    BY <2>1, <2>2 DEF Parse
  <2> QED BY <1>4, <2>3, <2>4
<1>6. CASE d' = d + 1 /\ UNCHANGED <<pc, index, parsed, s_new_map>>
  <2>1. CallerType'
    BY <1>0, <1>4, <1>5, <1>6 DEF CallerType
  <2>2. PlaceInv'
    BY <1>0, <1>6, DepthIs DEF PlaceInv
  <2> QED BY <1>3, <2>1, <2>2 DEF ParseInv
<1>7. CASE pc' = "parse" /\ index' = 1 /\ parsed' = parsed + 1 /\ s_new_map' = TRUE
           /\ UNCHANGED d
  <2>1. CallerType'
    BY <1>0, <1>4, <1>5, <1>7 DEF CallerType
  <2>2. PICK m \in Maps : m = device[d].map
    BY <1>4, DescriptorIs
  <2>3. PICK p : p = Pl(1, 0, "cpage")
    OBVIOUS
  <2>4. p \in Places(m) /\ PlaceAt(m, p) = 1 /\ Level(m, p) = 0
    BY <2>3, MapEnds DEF Level, Pl
  <2>5. Here(p)'
    BY <1>0, <1>7, <2>2, <2>4 DEF Here
  <2>6. s_parse_step' = "END" /\ parsed' < 128 => \E b : DepthFrom(b, Level(m, p))'
    <3>1. SUFFICES ASSUME s_parse_step' = "END", parsed' < 128
                   PROVE  \E b : DepthFrom(b, Level(m, p))'
      OBVIOUS
    <3>2. s_collection_depth \in 1 .. 2 * parsed
      BY <1>0, <1>4, <1>7, <3>1, DepthIs
    <3>3. PICK b \in 1 .. 2 * parsed : b = s_collection_depth
      BY <3>2
    <3>4. PICK lp \in 0 .. 2 : lp = Level(m, p) /\ lp = 0
      BY <2>4
    <3>5. DepthFrom(b, lp)'
      BY <1>0, <1>4, <1>7, <3>3, <3>4 DEF DepthFrom
    <3> QED BY <3>4, <3>5
  <2>7. PlaceInv'
    BY <1>0, <1>7, <2>2, <2>5, <2>6 DEF PlaceInv
  <2> QED BY <1>3, <2>1, <2>7 DEF ParseInv
<1> QED BY <1>6, <1>7 DEF Parse

\* A device, as discovery leaves it.
LEMMA OpenStays ==
    ASSUME ParseInv, NEW dev \in Devices, Open(dev)
    PROVE  ParseInv'
<1>1. dev \in Seq(Service)
  BY ParserAssumption
<1>2. /\ UNCHANGED <<statics, parsed>> /\ device' = dev /\ d' = 1 /\ pc' = "service"
      /\ results' = <<>> /\ rpts' = Reverse(Found(dev))
  BY DEF Open, Listed, Found, DeviceSeqs
<1>3. StaticsType'
  BY <1>2 DEF ParseInv, StaticsType, statics, lenVars, mapVars
<1>4. rpts' \in Seq(RptRec)
  BY <1>1, <1>2, FoundAre
<1>5. Len(dev) \in Nat /\ parsed \in Nat /\ results' \in Seq(Result) /\ Len(results') = 0
  BY <1>1, <1>2 DEF ParseInv, CallerType
<1>6. CallerType'
  BY <1>1, <1>2, <1>4, <1>5 DEF CallerType
<1>7. PlaceInv'
  BY <1>2, DepthIs DEF PlaceInv, statics
<1> QED BY <1>3, <1>6, <1>7 DEF ParseInv

\* The end of a device, and a step that changes nothing.
LEMMA RestStays ==
    ASSUME ParseInv, DeviceDone \/ UNCHANGED vars
    PROVE  ParseInv'
<1>1. CASE DeviceDone
  <2>1. /\ pc = "service" /\ pc' = "idle" /\ d > Len(device)
        /\ UNCHANGED <<statics, index, desc, device, d, rpts, parsed, results>>
    BY <1>1 DEF DeviceDone
  <2>2. StaticsType'
    BY <2>1 DEF ParseInv, StaticsType, statics, lenVars, mapVars
  <2>3. CallerType'
    BY <2>1 DEF ParseInv, CallerType
  <2>4. PlaceInv'
    BY <2>1, DepthIs DEF PlaceInv, statics
  <2> QED BY <2>2, <2>3, <2>4 DEF ParseInv
<1>2. CASE UNCHANGED vars
  <2>1. StaticsType'
    BY <1>2 DEF ParseInv, StaticsType, vars, statics, lenVars, mapVars
  <2>2. CallerType'
    BY <1>2 DEF ParseInv, CallerType, vars, callVars
  <2>3. PlaceInv'
    BY <1>2 DEF ParseInv, PlaceInv, Here, DepthFrom, vars, statics, callVars
  <2> QED BY <2>1, <2>2, <2>3 DEF ParseInv
<1> QED BY <1>1, <1>2

\* A reset.
LEMMA RebootStays ==
    ASSUME Reboot
    PROVE  ParseInv'
<1>1. StaticsType'
  <2>1. s_parse_step' \in Steps /\ s_new_map' \in BOOLEAN
    BY DEF Reboot, Steps
  <2>2. s_collection_depth' \in 0 .. 255 /\ s_report_size' \in Nat /\ s_report_count' \in Nat
    BY DEF Reboot
  <2>3. s_report_params' \in Params
    BY StaticsAtReset DEF Reboot
  <2>4. s_temp' \in Collections /\ Len(s_temp'.reports) <= MaxReports
    BY StaticsAtReset, ParserAssumption DEF Reboot
  <2> QED BY <2>1, <2>2, <2>3, <2>4 DEF StaticsType
<1>2. /\ device' = <<>> /\ results' = <<>> /\ rpts' = <<>> /\ d' = 1 /\ pc' = "idle"
      /\ parsed' = 0 /\ s_parse_step' = "USAGE_PAGE"
  BY DEF Reboot
<1>3. device' \in Seq(Service) /\ results' \in Seq(Result) /\ rpts' \in Seq(RptRec)
      /\ Len(device') = 0 /\ Len(results') = 0
  BY <1>2
<1>4. CallerType'
  BY <1>2, <1>3 DEF CallerType
<1>5. PlaceInv'
  BY <1>2 DEF PlaceInv
<1> QED BY <1>1, <1>4, <1>5 DEF ParseInv

\* Every step keeps the types.
LEMMA ParseInvStays ==
    ASSUME ParseInv, [Next]_vars
    PROVE  ParseInv'
BY FailStays, PageStays, UsageStays, CollectionStays, MeasureStays, ReportIdStays, EndStays,
   ParseEndStays, ParseStays, OpenStays, RestStays, RebootStays DEF Next, Parser

\* Whatever descriptors devices send, the table holds at most its 64 reports, no length
\* leaves 16 bits, and inside a collection the depth is at least 1 until 128 descriptors
\* were parsed (esp_hid_common.c).
THEOREM ParserIsTyped == Spec => []ParserTypeOK
<1>1. Init => ParseInv
  BY InitParse, ParserAssumption
<1>2. ParseInv /\ [Next]_vars => ParseInv'
  BY ParseInvStays
<1>3. ParseInv => ParserTypeOK
  BY ParseInvGivesType
<1> QED BY <1>1, <1>2, <1>3, PTL DEF Spec

-----------------------------------------------------------------------------
(* The second invariant: the list of reports, entry by entry.              *)

\* The first of some positions is one of them.
LEMMA FirstIs ==
    ASSUME NEW S, S \subseteq Nat, S # {}
    PROVE  FirstOf(S) \in S
BY LeastIs DEF FirstOf

\* A packet without an id finds its report.
LEMMA BareIsFound ==
    ASSUME NEW rs \in Seq(Report), NEW i \in DOMAIN rs, PassesAsInput(rs[i]), rs[i].id = 0
    PROVE  \E n \in DOMAIN rs : /\ n = ReportByData(rs, rs[i].len, 1) /\ n # 0
                                /\ PassesAsInput(rs[n]) /\ rs[n].id = 0
<1> DEFINE bare == {j \in {j \in DOMAIN rs : PassesAsInput(rs[j])} :
                        rs[j].len = rs[i].len /\ rs[j].id = 0}
<1>1. i \in bare /\ bare \subseteq Nat /\ bare \subseteq DOMAIN rs
  OBVIOUS
<1>2. PICK n \in bare : n = FirstOf(bare)
  BY <1>1, FirstIs
<1>3. ReportByData(rs, rs[i].len, 1) = FirstOf(bare)
  BY <1>1 DEF ReportByData
<1>4. 0 \notin DOMAIN rs
  OBVIOUS
<1> QED BY <1>1, <1>2, <1>3, <1>4

\* A packet with an id in front finds its report, if there are no reports without.
LEMMA PrefixedIsFound ==
    ASSUME NEW rs \in Seq(Report), NEW i \in DOMAIN rs, PassesAsInput(rs[i]), rs[i].id # 0,
           NEW extra \in 0 .. 1, \A j \in DOMAIN rs : rs[j].id # 0
    PROVE  \E n \in DOMAIN rs : /\ n = ReportByData(rs, rs[i].len + 1 + extra, rs[i].id) /\ n # 0
                                /\ PassesAsInput(rs[n]) /\ rs[n].id = rs[i].id
<1>0. PICK len \in Nat : len = rs[i].len
  <2>1. PICK r \in Report : r = rs[i]
    OBVIOUS
  <2> QED BY <2>1 DEF Report
<1> DEFINE with == {j \in {j \in DOMAIN rs : PassesAsInput(rs[j])} :
                        rs[j].len <= len + 1 + extra - 1 /\ rs[j].id = rs[i].id}
           bare == {j \in {j \in DOMAIN rs : PassesAsInput(rs[j])} :
                        rs[j].len = len + 1 + extra /\ rs[j].id = 0}
<1>1. i \in with /\ with \subseteq Nat /\ with \subseteq DOMAIN rs
  <2>1. rs[i].len <= len + 1 + extra - 1
    BY <1>0
  <2> QED BY <2>1
<1>2. PICK n \in with : n = FirstOf(with)
  BY <1>1, FirstIs
<1>3. bare = {}
  OBVIOUS
<1>4. ReportByData(rs, len + 1 + extra, rs[i].id) = FirstOf(with)
  BY <1>3 DEF ReportByData
<1>5. 0 \notin DOMAIN rs
  OBVIOUS
<1> QED BY <1>0, <1>1, <1>2, <1>4, <1>5

\* Packets find their reports in the list of any map.
LEMMA DataIsFound ==
    ASSUME ParseInv
    PROVE  DataFindsReport
<1> DEFINE Ambiguous(rs, i, j) == /\ PassesAsInput(rs[j]) /\ rs[j].id = rs[i].id
                                  /\ (rs[j].usage # rs[i].usage \/ (rs[i].id = 0 /\ i # j))
           Found1(rs, i, n) == n # 0 /\ rs[n].id = rs[i].id /\ rs[n].usage = rs[i].usage
<1>1. ASSUME NEW rs \in Seq(Report), NEW i \in DOMAIN rs,
             rs[i].type = "INPUT", rs[i].proto = "REPORT",
             \A j \in DOMAIN rs : ~Ambiguous(rs, i, j)
      PROVE  IF rs[i].id = 0 THEN Found1(rs, i, ReportByData(rs, rs[i].len, 1))
             ELSE \A extra \in 0 .. 1 :
                     \/ \E j \in DOMAIN rs : rs[j].id = 0
                     \/ Found1(rs, i, ReportByData(rs, rs[i].len + 1 + extra, rs[i].id))
  <2>1. PassesAsInput(rs[i])
    BY <1>1 DEF PassesAsInput
  <2>2. CASE rs[i].id = 0
    BY <1>1, <2>1, <2>2, BareIsFound
  <2>3. CASE rs[i].id # 0
    <3>1. SUFFICES ASSUME NEW extra \in 0 .. 1, \A j \in DOMAIN rs : rs[j].id # 0
                   PROVE  Found1(rs, i, ReportByData(rs, rs[i].len + 1 + extra, rs[i].id))
      BY <2>3
    <3>2. PICK n \in DOMAIN rs : /\ n = ReportByData(rs, rs[i].len + 1 + extra, rs[i].id)
                                 /\ n # 0 /\ PassesAsInput(rs[n]) /\ rs[n].id = rs[i].id
      BY <2>1, <2>3, <3>1, PrefixedIsFound
    <3> QED BY <1>1, <3>2
  <2> QED BY <2>2, <2>3
<1>2. \A k \in DOMAIN results : Reverse(results[k].reports) \in Seq(Report)
  <2>1. results \in Seq(Result)
    BY DEF ParseInv, CallerType
  <2>2. SUFFICES ASSUME NEW k \in DOMAIN results
                 PROVE  Reverse(results[k].reports) \in Seq(Report)
    OBVIOUS
  <2>3. PICK s \in Seq(Report) : s = results[k].reports
    <3>1. PICK res \in Result : res = results[k]
      BY <2>1, <2>2
    <3> QED BY <3>1 DEF Result
  <2>4. Reverse(s) \in Seq(Report)
    BY DEF Reverse
  <2> QED BY <2>3, <2>4
<1> QED BY <1>1, <1>2 DEF DataFindsReport

\* An entry of the list that discovery leaves is a report of one of the services.
LEMMA ListedMap ==
    ASSUME NEW dev \in Seq(Service), NEW i \in 1 .. Len(Found(dev))
    PROVE  Listed(dev)[i].map \in 1 .. Len(dev) /\ Listed(dev)[i] \in RptRec
<1>1. PICK N \in Nat : N = Len(Found(dev))
  BY FoundAre
<1>2. PICK x \in 1 .. N : x = (N - i) + 1
  <2>1. i \in 1 .. N
    BY <1>1
  <2>2. (N - i) + 1 \in 1 .. N
    BY <1>1, <2>1
  <2> QED BY <2>2
<1>3. Listed(dev)[i] = Found(dev)[x] /\ Listed(dev)[i] \in RptRec
  <2>1. Listed(dev) = Reverse(Found(dev))
    BY DEF Listed, Found, DeviceSeqs
  <2>2. PICK fs \in Seq(RptRec) : fs = Reverse(Found(dev)) /\ i \in 1 .. Len(fs)
    BY FoundAre
  <2> QED BY <1>1, <1>2, <2>1, <2>2, FoundAre
<1>4. PICK L \in Nat : L = Len(dev)
  OBVIOUS
<1>5. DeviceSeqs(dev) \in Seqs(RptRec) /\ Len(DeviceSeqs(dev)) = L
  BY <1>4, DeviceSeqsAre
<1>6. PICK k, q \in Nat : /\ k \in 1 .. L /\ q \in 1 .. Len(DeviceSeqs(dev)[k])
                          /\ Found(dev)[x] = DeviceSeqs(dev)[k][q]
  <2>1. PICK ss \in Seqs(RptRec) : ss = DeviceSeqs(dev) /\ Len(ss) = L
    BY <1>5
  <2>2. x \in 1 .. Len(FlattenSeq(ss))
    BY <1>1, <1>2, <2>1 DEF Found
  <2>3. \E k, q \in Nat : /\ k \in 1 .. L /\ q \in 1 .. Len(ss[k])
                          /\ FlattenSeq(ss)[x] = ss[k][q]
    BY <1>4, <2>1, <2>2, FlattenFrom
  <2> QED BY <2>1, <2>3 DEF Found
<1>7. DeviceSeqs(dev)[k][q].map = k
  BY <1>4, <1>6, DeviceSeqsAre
<1> QED BY <1>3, <1>4, <1>6, <1>7

\* What a step can do to the caller's side: nothing, or the end of a service.
Still == UNCHANGED <<device, d, rpts, results>>
Given == pc = "parse" /\ (GiveUp("refused") \/ GiveUp("no_memory"))
Mapped ==
    /\ pc = "parse" /\ index > Len(desc) /\ s_temp.live /\ rpts' = Matched(s_temp.reports)
    /\ results' = [results EXCEPT ![d] = [@ EXCEPT !.how = "map", !.usage = Dominant(s_temp.mask),
                                                   !.reports = s_temp.reports]]
    /\ d' = d + 1 /\ device' = device /\ pc' = "service"

\* The steps, by what they do to the caller.
LEMMA CallerStep ==
    ASSUME [Next]_vars
    PROVE  \/ Still \/ Given \/ Mapped \/ Parse \/ Reboot
           \/ \E dev \in Devices : Open(dev)
<1>1. ASSUME UNCHANGED callVars
      PROVE  Still
  BY <1>1 DEF callVars, Still
<1>2. ASSUME pc = "parse", NEW how \in {"refused", "no_memory"}, Refuse(how)
      PROVE  Given
  BY <1>2 DEF Given, Refuse
<1>3. CASE UNCHANGED vars
  BY <1>3 DEF vars, callVars, Still
<1>4. CASE DeviceDone
  BY <1>4 DEF DeviceDone, Still
<1>5. CASE ParseCmdFails
  BY <1>5 DEF ParseCmdFails, Given
<1>6. CASE WaitUsagePage
  BY <1>1, <1>2, <1>6 DEF WaitUsagePage, Reading, Proceed
<1>7. CASE WaitUsage
  BY <1>1, <1>2, <1>7 DEF WaitUsage, Reading, Proceed
<1>8. CASE WaitCollection
  BY <1>1, <1>2, <1>8 DEF WaitCollection, Reading, Proceed
<1>9. CASE Measure
  BY <1>1, <1>9 DEF Measure, Proceed
<1>10. CASE ReportId
  <2>1. Proceed \/ Refuse("refused") \/ Refuse("no_memory")
    BY <1>10 DEF ReportId, HandleReport
  <2> QED BY <1>1, <1>2, <1>10, <2>1 DEF ReportId, Reading, Proceed
<1>11. CASE EndCollection
  <2>1. Proceed \/ Refuse("refused") \/ Refuse("no_memory")
    BY <1>11 DEF EndCollection, HandleReport
  <2> QED BY <1>1, <1>2, <1>11, <2>1 DEF EndCollection, Reading, Proceed
<1>12. CASE ParseEnd
  <2>1. pc = "parse" /\ index > Len(desc)
    BY <1>12 DEF ParseEnd
  <2>2. \/ GiveUp("no_memory")
        \/ UNCHANGED <<s_temp, index, desc, device, d, rpts, parsed, results>>
        \/ /\ s_temp.live /\ rpts' = Matched(s_temp.reports)
           /\ results' = [results EXCEPT ![d] =
                 [@ EXCEPT !.how = "map", !.usage = Dominant(s_temp.mask),
                           !.reports = s_temp.reports]]
           /\ pc' = "service" /\ d' = d + 1
           /\ UNCHANGED <<index, desc, device, parsed>>
    BY <1>12 DEF ParseEnd
  <2>3. CASE UNCHANGED <<s_temp, index, desc, device, d, rpts, parsed, results>>
    BY <2>3 DEF Still
  <2> QED BY <2>1, <2>2, <2>3 DEF Given, Mapped
<1> QED BY <1>3, <1>4, <1>5, <1>6, <1>7, <1>8, <1>9, <1>10, <1>11, <1>12 DEF Next, Parser

\* A report of the list is as discovery left it until its service's map completes it.
Done(k) == k < d /\ results[k].how = "map"
Now(i) == IF Done(Listed(device)[i].map)
          THEN MatchAll(Listed(device)[i], results[Listed(device)[i].map].reports)
          ELSE Listed(device)[i]
ListInv == /\ Len(rpts) = Len(Found(device))
           /\ \A i \in 1 .. Len(Found(device)) : rpts[i] = Now(i)

\* A device without services has no reports.
LEMMA NoneListed ==
    Len(Found(<<>>)) = 0
<1>1. <<>> \in Seq(Service) /\ Len(<<>>) = 0
  OBVIOUS
<1>2. PICK N \in Nat : N = Len(Found(<<>>))
  BY <1>1, FoundAre
<1>3. SUFFICES ASSUME N # 0
               PROVE  FALSE
  BY <1>2
<1>4. 1 \in 1 .. Len(Found(<<>>))
  BY <1>2, <1>3
<1>5. Listed(<<>>)[1].map \in 1 .. Len(<<>>)
  BY <1>1, <1>4, ListedMap
<1> QED BY <1>1, <1>5

\* The list is complete at the start.
LEMMA InitList ==
    ASSUME Init
    PROVE  ListInv
<1>1. device = <<>> /\ Len(rpts) = 0
  BY DEF Init
<1> QED BY <1>1, NoneListed DEF ListInv

\* A step that leaves a service done or not done leaves its reports.
LEMMA NowStays ==
    ASSUME ParseInv, ListInv, device' = device, rpts' = rpts,
           \A k \in 1 .. Len(device) : /\ Done(k)' = Done(k)
                                       /\ Done(k) => results'[k].reports = results[k].reports
    PROVE  ListInv'
<1>1. device \in Seq(Service)
  BY DEF ParseInv, CallerType
<1>2. ASSUME NEW i \in 1 .. Len(Found(device))
      PROVE  rpts'[i] = Now(i)'
  <2>1. PICK r \in RptRec : r = Listed(device)[i] /\ r.map \in 1 .. Len(device)
    BY <1>1, ListedMap
  <2>2. rpts[i] = Now(i) /\ Listed(device') = Listed(device)
    BY DEF ListInv
  <2>3. PICK k : k = r.map
    OBVIOUS
  <2>4. /\ Now(i) = IF Done(k) THEN MatchAll(r, results[k].reports) ELSE r
        /\ Now(i)' = IF Done(k)' THEN MatchAll(r, results'[k].reports) ELSE r
    BY <2>1, <2>2, <2>3 DEF Now
  <2> QED BY <2>1, <2>2, <2>3, <2>4
<1> QED BY <1>2 DEF ListInv

\* The caller's steps other than the end of a map.
LEMMA ListStays ==
    ASSUME ParseInv, ListInv, Still \/ Given \/ Parse \/ Reboot \/ \E dev \in Devices : Open(dev)
    PROVE  ListInv'
<1>0. /\ device \in Seq(Service) /\ results \in Seq(Result) /\ d \in 1 .. Len(device) + 1
      /\ pc = "parse" => Len(results) = d
      /\ pc = "service" => Len(results) = d - 1
  BY DEF ParseInv, CallerType
<1>1. CASE Still
  BY <1>1, NowStays DEF Still, Done
<1>2. CASE Given
  <2>1. PICK how \in {"refused", "no_memory"} : GiveUp(how)
    BY <1>2 DEF Given
  <2>2. /\ device' = device /\ rpts' = rpts /\ d' = d + 1 /\ Len(results) = d
        /\ results' = [results EXCEPT ![d].how = how]
    BY <1>0, <1>2, <2>1 DEF Given, GiveUp
  <2>3. ASSUME NEW k \in 1 .. Len(device)
        PROVE  /\ Done(k)' = Done(k)
               /\ Done(k) => results'[k].reports = results[k].reports
    <3>1. PICK e \in 1 .. Len(device) + 1 : e = d
      BY <1>0
    <3>2. CASE k < e
      BY <1>0, <2>2, <3>1, <3>2 DEF Done
    <3>3. CASE k = e
      BY <1>0, <2>1, <2>2, <3>1, <3>3 DEF Done
    <3>4. CASE k > e
      BY <1>0, <2>2, <3>1, <3>4 DEF Done
    <3> QED BY <3>1, <3>2, <3>3, <3>4
  <2> QED BY <2>2, <2>3, NowStays
<1>3. CASE Parse
  <2>1. /\ device' = device /\ rpts' = rpts /\ (d' = d \/ d' = d + 1) /\ Len(results) = d - 1
    BY <1>0, <1>3 DEF Parse
  <2>2. PICK r : r.how = "none" /\ results' = Append(results, r)
    BY <1>3 DEF Parse
  <2>3. ASSUME NEW k \in 1 .. Len(device)
        PROVE  /\ Done(k)' = Done(k)
               /\ Done(k) => results'[k].reports = results[k].reports
    <3>1. PICK e \in 1 .. Len(device) + 1 : e = d
      BY <1>0
    <3>2. CASE k < e
      BY <1>0, <2>1, <2>2, <3>1, <3>2 DEF Done
    <3>3. CASE k = e
      BY <1>0, <2>1, <2>2, <3>1, <3>3 DEF Done
    <3>4. CASE k > e
      BY <1>0, <2>1, <3>1, <3>4 DEF Done
    <3> QED BY <3>1, <3>2, <3>3, <3>4
  <2> QED BY <2>1, <2>3, NowStays
<1>4. CASE Reboot
  <2>1. device' = <<>> /\ Len(rpts') = 0
    BY <1>4 DEF Reboot
  <2> QED BY <2>1, NoneListed DEF ListInv
<1>5. ASSUME NEW dev \in Devices, Open(dev)
      PROVE  ListInv'
  <2>1. dev \in Seq(Service) /\ device' = dev /\ d' = 1 /\ rpts' = Listed(dev)
    BY <1>5, ParserAssumption DEF Open, Listed, Found, DeviceSeqs
  <2>2. Len(rpts') = Len(Found(dev))
    BY <2>1, FoundAre DEF Listed, Found, DeviceSeqs
  <2>3. ASSUME NEW i \in 1 .. Len(Found(dev))
        PROVE  rpts'[i] = Now(i)'
    <3>1. PICK k \in 1 .. Len(dev) : k = Listed(dev)[i].map
      BY <2>1, ListedMap
    <3> QED BY <2>1, <3>1 DEF Now, Done
  <2> QED BY <2>1, <2>2, <2>3 DEF ListInv
<1> QED BY <1>1, <1>2, <1>3, <1>4, <1>5

\* The end of a map completes the reports of its service.
LEMMA MappedStays ==
    ASSUME ParseInv, ListInv, Mapped
    PROVE  ListInv'
<1>0. /\ device \in Seq(Service) /\ results \in Seq(Result) /\ d \in 1 .. Len(device)
      /\ Len(results) = d /\ rpts \in Seq(RptRec) /\ device' = device /\ d' = d + 1
  BY DEF ParseInv, CallerType, Mapped
<1>1. PICK items \in Seq(Report) : items = s_temp.reports
  BY DEF ParseInv, StaticsType, Collections
<1>2. PICK N \in Nat : N = Len(Found(device)) /\ N = Len(rpts) /\ DOMAIN rpts = 1 .. N
  BY <1>0 DEF ListInv
<1>3. rpts' = [i \in 1 .. N |-> IF rpts[i].map = d THEN MatchAll(rpts[i], items) ELSE rpts[i]]
  BY <1>1, <1>2 DEF Mapped, Matched
<1>4. /\ results'[d].how = "map" /\ results'[d].reports = items
      /\ \A k \in 1 .. d : k # d => results'[k] = results[k]
  <2>1. PICK e \in 1 .. Len(device) : e = d
    BY <1>0
  <2>2. e \in DOMAIN results /\ DOMAIN results = 1 .. e
    BY <1>0, <2>1
  <2>3. PICK r \in Result : r = results[e]
    BY <1>0, <2>2
  <2>4. PICK mask : mask = s_temp.mask
    OBVIOUS
  <2>5. results' = [results EXCEPT ![e] = [r EXCEPT !.how = "map", !.usage = Dominant(mask),
                                                    !.reports = items]]
    BY <1>1, <2>1, <2>3, <2>4 DEF Mapped
  <2>6. results'[e] = [r EXCEPT !.how = "map", !.usage = Dominant(mask), !.reports = items]
    BY <2>2, <2>5
  <2>7. results'[e].how = "map" /\ results'[e].reports = items
    BY <2>6 DEF Result
  <2>8. \A k \in 1 .. e : k # e => results'[k] = results[k]
    BY <2>2, <2>5
  <2> QED BY <2>1, <2>7, <2>8
<1>5. ASSUME NEW i \in 1 .. N
      PROVE  rpts'[i] = Now(i)'
  <2>1. PICK r \in RptRec : r = Listed(device)[i] /\ r.map \in 1 .. Len(device)
    BY <1>0, <1>2, ListedMap
  <2>2. PICK e \in 1 .. Len(device) : e = d
    BY <1>0
  <2>3. PICK k \in 1 .. Len(device) : k = r.map
    BY <2>1
  <2>4. /\ rpts[i] = IF Done(k) THEN MatchAll(r, results[k].reports) ELSE r
        /\ Now(i)' = IF Done(k)' THEN MatchAll(r, results'[k].reports) ELSE r
    BY <1>0, <1>2, <2>1, <2>3 DEF ListInv, Now
  <2>5. rpts[i].map = k
    <3>1. CASE Done(k)
      <4>1. k \in DOMAIN results
        BY <1>0, <2>2, <3>1 DEF Done
      <4>2. PICK res \in Result : res = results[k]
        BY <1>0, <4>1
      <4>3. res.reports \in Seq(Report)
        BY DEF Result
      <4> QED BY <2>3, <2>4, <3>1, <4>2, <4>3, MatchAllIs
    <3> QED BY <2>3, <2>4, <3>1
  <2>6. CASE k < e
    <3>1. results'[k] = results[k] /\ rpts'[i] = rpts[i]
      BY <1>3, <1>4, <2>2, <2>5, <2>6
    <3>2. Done(k)' = Done(k)
      BY <1>0, <2>2, <2>6, <3>1 DEF Done
    <3> QED BY <2>4, <3>1, <3>2
  <2>7. CASE k = e
    <3>1. ~Done(k) /\ Done(k)'
      BY <1>0, <1>4, <2>2, <2>7 DEF Done
    <3> QED BY <1>3, <1>4, <2>2, <2>4, <2>5, <2>7, <3>1
  <2>8. CASE k > e
    <3>1. ~Done(k) /\ ~Done(k)'
      BY <1>0, <2>2, <2>8 DEF Done
    <3> QED BY <1>3, <2>2, <2>4, <2>5, <2>8, <3>1
  <2> QED BY <2>6, <2>7, <2>8
<1>6. Len(rpts') = N
  BY <1>3
<1> QED BY <1>0, <1>2, <1>5, <1>6 DEF ListInv

\* What maps never change of a report of the list: what it was discovered as.
KeptOf(r, e) == /\ r.map = e.map /\ r.proto = e.proto /\ r.type = e.type
                /\ e.proto = "REPORT" => r.id = e.id

\* A report of the list and the one that was discovered.
LEMMA KeptIs ==
    ASSUME ParseInv, ListInv, NEW i \in 1 .. Len(Found(device))
    PROVE  KeptOf(rpts[i], Listed(device)[i])
<1>1. /\ device \in Seq(Service) /\ results \in Seq(Result) /\ d \in 1 .. Len(device) + 1
      /\ Len(results) >= d - 1
  BY DEF ParseInv, CallerType
<1>2. PICK r \in RptRec : r = Listed(device)[i] /\ r.map \in 1 .. Len(device)
  BY <1>1, ListedMap
<1>3. PICK k \in 1 .. Len(device) : k = r.map
  BY <1>2
<1>4. rpts[i] = IF Done(k) THEN MatchAll(r, results[k].reports) ELSE r
  BY <1>2, <1>3 DEF ListInv, Now
<1>5. CASE Done(k)
  <2>1. k \in DOMAIN results
    BY <1>1, <1>5 DEF Done
  <2>2. PICK res \in Result : res = results[k]
    BY <1>1, <2>1
  <2>3. res.reports \in Seq(Report)
    BY DEF Result
  <2> QED BY <1>2, <1>4, <1>5, <2>2, <2>3, MatchAllIs DEF KeptOf
<1> QED BY <1>2, <1>4, <1>5 DEF KeptOf

\* A report is found by the service, the id and the type that it was discovered with.
LEMMA IdFinds ==
    ASSUME ParseInv, ListInv
    PROVE  IdFindsReport
<1>1. PICK N \in Nat : N = Len(Found(device)) /\ DOMAIN rpts = 1 .. N
  BY FoundAre DEF ParseInv, CallerType, ListInv
<1>2. SUFFICES ASSUME NEW i \in 1 .. N, NEW r, r = Listed(device)[i], r.proto = "REPORT",
                      \A j \in 1 .. N :
                          /\ Listed(device)[j].proto = "REPORT" /\ Listed(device)[j].map = r.map
                          /\ Listed(device)[j].id = r.id /\ Listed(device)[j].type = r.type
                          => j = i
               PROVE  ReportByIdAndType(rpts, r.map, r.id, r.type) = i
  BY <1>1 DEF IdFindsReport
<1> DEFINE S == {j \in 1 .. N : /\ rpts[j].map = r.map /\ rpts[j].id = r.id
                                /\ rpts[j].type = r.type /\ rpts[j].proto = "REPORT"}
<1>3. \A j \in 1 .. N : KeptOf(rpts[j], Listed(device)[j])
  BY <1>1, KeptIs
<1>4. S \subseteq Nat /\ S # {} /\ i \in S
  BY <1>2, <1>3 DEF KeptOf
<1>5. \A j \in S : j = i
  BY <1>2, <1>3 DEF KeptOf
<1>6. ReportByIdAndType(rpts, r.map, r.id, r.type) = FirstOf(S)
  BY <1>1 DEF ReportByIdAndType
<1> HIDE DEF S
<1> QED BY <1>4, <1>5, <1>6, FirstIs

\* Every step keeps the list.
LEMMA ListInvStays ==
    ASSUME ParseInv, ListInv, [Next]_vars
    PROVE  ListInv'
BY CallerStep, ListStays, MappedStays

\* Received packets reach the reports that they are for, and requests the report that
\* discovery found, whatever became of the maps (esp_hidh.c).
THEOREM ReportsFound == Spec => []ReportsAreFound
<1>1. Init => ParseInv /\ ListInv
  BY InitParse, InitList, ParserAssumption
<1>2. ParseInv /\ ListInv /\ [Next]_vars => ParseInv' /\ ListInv'
  BY ParseInvStays, ListInvStays
<1>3. ParseInv /\ ListInv => ReportsAreFound
  BY DataIsFound, IdFinds DEF ReportsAreFound
<1> QED BY <1>1, <1>2, <1>3, PTL DEF Spec

-----------------------------------------------------------------------------
(* The third invariant: at each place of a sound map the parser has        *)
(* collected the reports that the map declares up to there.                *)

\* The parser at a place of a sound map.  The field whose id the report that is
\* measured has, and the number of fields that were counted.
IdField(p) == IF p.ph = "id" /\ p.j > 1 THEN p.j - 1 ELSE p.j
Counted(p) == IF p.ph \in {"unnest", "close"} THEN p.j ELSE p.j - 1

\* The usages of the ids before id g of collection n.
UsedBefore(m, n, g) ==
    {u \in UsageNames : \E a \in 1 .. Len(m) : \E b \in 1 .. Len(m[a].fields) :
        StartsId(m[a], b) /\ u = IdUsage(m[a], b) /\ (a < n \/ (a = n /\ b < g))}

\* What was collected.
SoFar(rs, used) ==
    /\ (IF s_new_map THEN <<>> ELSE s_temp.reports) = rs
    /\ (IF s_new_map THEN {} ELSE s_temp.mask) = used
    /\ ~s_new_map => s_temp.live

\* In front of a collection.
InFront(m, p) ==
    /\ s_parse_step = CASE p.ph = "cpage" -> "USAGE_PAGE"
                        [] p.ph = "cusage" -> "USAGE"
                        [] p.ph = "copen" -> "COLLECTION"
    /\ SoFar(Parts(DeclaredSeqs(m))[p.n - 1], UsedBefore(m, p.n, 1))
    /\ s_new_map => p.n = 1
    /\ p.ph # "cpage" => s_report_params.page = m[p.n].page /\ s_report_params.bits = NoBits
    /\ p.ph = "copen" => s_report_params.usage = m[p.n].usage

\* The id of the report that is measured starts at field g of collection c.
Grouped(c, p, g) ==
    /\ g \in 1 .. Len(c.fields) /\ StartsId(c, g) /\ IdField(p) \in IdFields(c, g)
    /\ Parts(IdSeqs(c))[IdField(p)] = Parts(IdSeqs(c))[g]
    /\ c.fields[IdField(p)].id = c.fields[g].id
Measured(c, p, g) ==
    /\ s_report_params.id = IF p.ph = "id" /\ p.j = 1 THEN 0 ELSE c.fields[g].id
    /\ UsageOf(s_report_params.page, s_report_params.usage) = IdUsage(c, g)
    /\ \A t \in Types : s_report_params.bits[t] = BitsTo(c, g, t)[Counted(p)]

\* The items of the field that were read.
FieldRead(c, p) ==
    /\ p.ph \in {"id", "page"} /\ p.j > 1 => s_report_params.inner_page = c.fields[p.j - 1].page
    /\ p.ph \notin {"id", "page"} => s_report_params.inner_page = c.fields[p.j].page
    /\ p.ph \in {"id", "page", "usage"} /\ p.j > 1 =>
          s_report_params.inner_usage = c.fields[p.j - 1].usage
    /\ p.ph \notin {"id", "page", "usage"} => s_report_params.inner_usage = c.fields[p.j].usage
    /\ p.ph \in {"count", "main"} => s_report_size = c.fields[p.j].size
    /\ p.ph = "main" => s_report_count = c.fields[p.j].count

Inside(m, p, g) ==
    /\ s_parse_step = "END" /\ s_collection_depth = Level(m, p)
    /\ s_new_map => p.n = 1 /\ g = 1
    /\ SoFar(Parts(DeclaredSeqs(m))[p.n - 1] \o Parts(IdSeqs(m[p.n]))[g - 1],
             UsedBefore(m, p.n, g))
    /\ Grouped(m[p.n], p, g) /\ Measured(m[p.n], p, g) /\ FieldRead(m[p.n], p)

Heads == {"cpage", "cusage", "copen"}
ParserAt(m, p) == IF p.ph \in Heads THEN InFront(m, p) ELSE \E g \in Nat : Inside(m, p, g)
ExactInv ==
    pc = "parse" /\ results[d].fresh /\ Sound(device[d]) =>
        \E p : Here(p) /\ ParserAt(device[d].map, p)

\* The fields of an id follow each other.
LEMMA FieldsOfId ==
    ASSUME NEW c \in Collection, NEW L \in Nat, L = Len(c.fields), NEW g \in 1 .. L,
           NEW x \in 1 .. L
    PROVE  /\ x \in IdFields(c, g) => g <= x
           /\ g \in IdFields(c, g)
           /\ x \in IdFields(c, g) /\ x + 1 <= L /\ ~StartsId(c, x + 1) => x + 1 \in IdFields(c, g)
           /\ x \in IdFields(c, g) => \A k \in g + 1 .. x : ~StartsId(c, k)
           /\ x > g /\ StartsId(c, x) => \A k \in x .. L : k \notin IdFields(c, g)
<1>1. IdFields(c, g) = {j \in g .. L : \A k \in g + 1 .. j : ~StartsId(c, k)}
  BY DEF IdFields
<1>2. x \in IdFields(c, g) /\ x + 1 <= L /\ ~StartsId(c, x + 1) => x + 1 \in IdFields(c, g)
  <2>1. SUFFICES ASSUME x \in IdFields(c, g), x + 1 <= L, ~StartsId(c, x + 1),
                        NEW k \in g + 1 .. x + 1
                 PROVE  ~StartsId(c, k)
    BY <1>1
  <2>2. k \in g + 1 .. x \/ k = x + 1
    OBVIOUS
  <2> QED BY <1>1, <2>1, <2>2
<1>3. x > g /\ StartsId(c, x) => \A k \in x .. L : k \notin IdFields(c, g)
  <2>1. SUFFICES ASSUME x > g, StartsId(c, x), NEW k \in x .. L, k \in IdFields(c, g)
                 PROVE  FALSE
    OBVIOUS
  <2>2. x \in g + 1 .. k
    BY <2>1
  <2> QED BY <1>1, <2>1, <2>2
<1> QED BY <1>1, <1>2, <1>3

\* The bits of an id grow.
LEMMA BitsGrow ==
    ASSUME NEW c \in Collection, NEW L \in Nat, L = Len(c.fields), NEW g \in 1 .. L, NEW t,
           NEW j \in 0 .. L, NEW l \in j .. L
    PROVE  BitsTo(c, g, t)[j] <= BitsTo(c, g, t)[l]
<1> DEFINE b == BitsTo(c, g, t)
<1>1. BitsOf(b, c, L, g, t)
  BY BitsAre
<1> HIDE DEF b
<1>2. \A k \in 0 .. L : b[k] \in Nat
  BY <1>1 DEF BitsOf
<1>3. ASSUME NEW k \in 1 .. L
      PROVE  b[k - 1] <= b[k]
  <2>1. k \in 0 .. L /\ k - 1 \in 0 .. L
    OBVIOUS
  <2>2. CASE k < g
    <3>1. b[k] = 0 /\ b[k - 1] = 0
      BY <1>1, <2>1, <2>2 DEF BitsOf
    <3> QED BY <3>1
  <2>3. CASE k >= g
    <3>1. b[k] = b[k - 1] + Adds(c, g, k, t)
      BY <1>1, <2>3 DEF BitsOf
    <3>2. Adds(c, g, k, t) \in Nat
      BY AddsIs
    <3> QED BY <1>2, <2>1, <3>1, <3>2
  <2> QED BY <2>2, <2>3
<1> DEFINE S == {k \in 0 .. L : k >= j => b[j] <= b[k]}
<1>4. 0 \in S
  BY <1>2
<1>5. \A k \in 0 .. L - 1 : k \in S => k + 1 \in S
  <2>1. SUFFICES ASSUME NEW k \in 0 .. L - 1, k \in S, k + 1 >= j
                 PROVE  b[j] <= b[k + 1]
    OBVIOUS
  <2>2. PICK e \in 1 .. L : e = k + 1 /\ e - 1 = k /\ e \in 0 .. L /\ k \in 0 .. L
    OBVIOUS
  <2>3. b[k] <= b[e] /\ b[k] \in Nat /\ b[e] \in Nat /\ b[j] \in Nat
    BY <1>2, <1>3, <2>2
  <2>4. CASE k + 1 = j
    BY <2>2, <2>3, <2>4
  <2>5. CASE k >= j
    BY <2>1, <2>2, <2>3, <2>5
  <2> QED BY <2>1, <2>4, <2>5
<1> HIDE DEF S
<1>6. 0 .. L \subseteq S
  BY <1>4, <1>5, Inductive
<1>7. l \in 0 .. L /\ l >= j
  OBVIOUS
<1> QED BY <1>6, <1>7 DEF S, b

\* The bits of an id are complete where the next one starts.
LEMMA BitsEnd ==
    ASSUME NEW c \in Collection, NEW L \in Nat, L = Len(c.fields), NEW g \in 1 .. L, NEW t,
           NEW j \in g + 1 .. L, StartsId(c, j)
    PROVE  BitsTo(c, g, t)[L] = BitsTo(c, g, t)[j - 1]
<1> DEFINE b == BitsTo(c, g, t)
<1>1. BitsOf(b, c, L, g, t)
  BY BitsAre
<1> HIDE DEF b
<1>2. j \in 1 .. L /\ j > g
  OBVIOUS
<1>3. ASSUME NEW k \in j .. L
      PROVE  b[k] = b[k - 1]
  <2>1. k \notin IdFields(c, g)
    BY <1>2, FieldsOfId
  <2>2. k \in 1 .. L /\ k >= g /\ k \in 0 .. L /\ k - 1 \in 0 .. L
    OBVIOUS
  <2>3. b[k] = b[k - 1] + Adds(c, g, k, t) /\ b[k - 1] \in Nat
    BY <1>1, <2>2 DEF BitsOf
  <2>4. Adds(c, g, k, t) = 0
    BY <2>1 DEF Adds
  <2> QED BY <2>3, <2>4
<1> DEFINE S == {k \in 0 .. L : k >= j - 1 => b[k] = b[j - 1]}
<1>4. 0 \in S
  OBVIOUS
<1>5. \A k \in 0 .. L - 1 : k \in S => k + 1 \in S
  <2>1. SUFFICES ASSUME NEW k \in 0 .. L - 1, k \in S, k + 1 >= j - 1
                 PROVE  b[k + 1] = b[j - 1]
    OBVIOUS
  <2>2. CASE k + 1 = j - 1
    BY <2>2
  <2>3. CASE k + 1 >= j
    <3>1. k + 1 \in j .. L /\ (k + 1) - 1 = k /\ k >= j - 1
      BY <2>3
    <3>2. PICK e \in j .. L : e = k + 1 /\ e - 1 = k
      BY <3>1
    <3>3. b[e] = b[k] /\ b[k] = b[j - 1]
      BY <1>3, <2>1, <3>1, <3>2
    <3> QED BY <3>2, <3>3
  <2> QED BY <2>1, <2>2, <2>3
<1> HIDE DEF S
<1>6. 0 .. L \subseteq S
  BY <1>4, <1>5, Inductive
<1>7. L \in 0 .. L /\ L >= j - 1
  OBVIOUS
<1> QED BY <1>6, <1>7 DEF S, b

\* The reports of the first ids of a collection.
LEMMA IdPartsAre ==
    ASSUME NEW c \in Collection, NEW L \in Nat, L = Len(c.fields)
    PROVE  /\ Parts(IdSeqs(c))[0] = <<>> /\ Parts(IdSeqs(c))[L] = FlattenSeq(IdSeqs(c))
           /\ \A x \in 0 .. L : /\ Parts(IdSeqs(c))[x] \in Seq(Report)
                                /\ Len(Parts(IdSeqs(c))[x]) <= Len(Parts(IdSeqs(c))[L])
           /\ \A x \in 1 .. L : /\ Parts(IdSeqs(c))[x] = Parts(IdSeqs(c))[x - 1] \o IdReports(c, x)
                                /\ IdReports(c, x) \in Seq(Report)
                                /\ ~StartsId(c, x) => Parts(IdSeqs(c))[x] = Parts(IdSeqs(c))[x - 1]
<1>1. /\ c.fields \in Seq(Field) /\ DOMAIN c.fields = 1 .. L
      /\ \A x \in 1 .. L : IdReports(c, x) \in Seq(Report)
  BY IdIs DEF Collection
<1>2. PICK ss \in Seqs(Report) : ss = IdSeqs(c) /\ Len(ss) = L
  <2>1. IdSeqs(c) = [i \in 1 .. L |-> IdReports(c, i)]
    BY <1>1 DEF IdSeqs
  <2>2. IdSeqs(c) \in Seqs(Report) /\ Len(IdSeqs(c)) = L
    BY <1>1, <2>1 DEF Seqs
  <2> QED BY <2>2
<1>3. \A x \in 1 .. L : ss[x] = IdReports(c, x)
  BY <1>1, <1>2 DEF IdSeqs
<1>4. PartsOf(Parts(ss), ss, L, Report)
  BY <1>2, PartsAre
<1>5. Parts(ss)[L] = FlattenSeq(ss)
  <2>1. PICK f : AreParts(f, ss)
    BY <1>2, FlattenHasParts
  <2>2. AreParts(Parts(ss), ss)
    BY <2>1 DEF Parts
  <2> QED BY <1>2, <2>2 DEF AreParts
<1>6. \A x \in 0 .. L : Parts(ss)[x] \in Seq(Report) /\ Len(Parts(ss)[x]) <= Len(Parts(ss)[L])
  <2>1. SUFFICES ASSUME NEW x \in 0 .. L
                 PROVE  Parts(ss)[x] \in Seq(Report) /\ Len(Parts(ss)[x]) <= Len(Parts(ss)[L])
    OBVIOUS
  <2>2. L \in x .. L
    OBVIOUS
  <2> QED BY <1>2, <1>4, <2>2, PartsGrow DEF PartsOf
<1>7. \A x \in 1 .. L : /\ Parts(ss)[x] = Parts(ss)[x - 1] \o IdReports(c, x)
                        /\ x - 1 \in 0 .. L
  BY <1>3, <1>4 DEF PartsOf
<1>8. \A x \in 1 .. L : ~StartsId(c, x) => Parts(ss)[x] = Parts(ss)[x - 1]
  <2>1. SUFFICES ASSUME NEW x \in 1 .. L, ~StartsId(c, x)
                 PROVE  Parts(ss)[x] = Parts(ss)[x - 1]
    OBVIOUS
  <2>2. PICK s \in Seq(Report) : s = Parts(ss)[x - 1]
    BY <1>6, <1>7
  <2>3. IdReports(c, x) = <<>>
    BY <2>1 DEF IdReports
  <2>4. Parts(ss)[x] = s \o <<>>
    BY <1>7, <2>2, <2>3
  <2>5. s \o <<>> = s
    OBVIOUS
  <2> QED BY <2>2, <2>4, <2>5
<1>9. Parts(ss)[0] = <<>>
  BY <1>4 DEF PartsOf
<1> QED BY <1>1, <1>2, <1>5, <1>6, <1>7, <1>8, <1>9

\* The reports of the first collections of a map.
LEMMA MapPartsAre ==
    ASSUME NEW m \in Maps, NEW N \in Nat, N = Len(m)
    PROVE  /\ Parts(DeclaredSeqs(m))[0] = <<>> /\ Parts(DeclaredSeqs(m))[N] = Declared(m)
           /\ \A n \in 0 .. N : /\ Parts(DeclaredSeqs(m))[n] \in Seq(Report)
                                /\ Len(Parts(DeclaredSeqs(m))[n]) <= Len(Declared(m))
           /\ \A n \in 1 .. N : Parts(DeclaredSeqs(m))[n] =
                  Parts(DeclaredSeqs(m))[n - 1] \o FlattenSeq(IdSeqs(m[n]))
<1>1. PICK ss \in Seqs(Report) : ss = DeclaredSeqs(m) /\ Len(ss) = N
  BY DeclaredAre
<1>2. /\ \A n \in 1 .. N : ss[n] = FlattenSeq(IdSeqs(m[n]))
      /\ Declared(m) = FlattenSeq(ss)
  BY <1>1, DeclaredAre
<1>4. PartsOf(Parts(ss), ss, N, Report)
  BY <1>1, PartsAre
<1>5. Parts(ss)[N] = FlattenSeq(ss)
  <2>1. PICK f : AreParts(f, ss)
    BY <1>1, FlattenHasParts
  <2>2. AreParts(Parts(ss), ss)
    BY <2>1 DEF Parts
  <2> QED BY <1>1, <2>2 DEF AreParts
<1>6. \A n \in 0 .. N : Parts(ss)[n] \in Seq(Report) /\ Len(Parts(ss)[n]) <= Len(Parts(ss)[N])
  <2>1. SUFFICES ASSUME NEW n \in 0 .. N
                 PROVE  Parts(ss)[n] \in Seq(Report) /\ Len(Parts(ss)[n]) <= Len(Parts(ss)[N])
    OBVIOUS
  <2>2. N \in n .. N
    OBVIOUS
  <2> QED BY <1>1, <1>4, <2>2, PartsGrow DEF PartsOf
<1>7. \A n \in 1 .. N : Parts(ss)[n] = Parts(ss)[n - 1] \o FlattenSeq(IdSeqs(m[n]))
  BY <1>2, <1>4 DEF PartsOf
<1>8. Parts(ss)[0] = <<>>
  BY <1>4 DEF PartsOf
<1> QED BY <1>1, <1>2, <1>5, <1>6, <1>7, <1>8

\* Three sequences one behind the other.
LEMMA ThreeAre ==
    ASSUME NEW s \in Seq(Report), NEW t \in Seq(Report), NEW u \in Seq(Report),
           NEW tu \in Seq(Report), tu = t \o u
    PROVE  (s \o t) \o u = s \o tu
BY ConcatAssociative

\* What was collected before id g of collection n, and with it.
Before(m, n, g) == Parts(DeclaredSeqs(m))[n - 1] \o Parts(IdSeqs(m[n]))[g - 1]

\* The next id.
LEMMA NextBefore ==
    ASSUME NEW m \in Maps, NEW n \in 1 .. Len(m), NEW L \in Nat, L = Len(m[n].fields),
           NEW g \in 1 .. L, StartsId(m[n], g), NEW x \in 1 .. L,
           Parts(IdSeqs(m[n]))[x] = Parts(IdSeqs(m[n]))[g]
    PROVE  /\ Before(m, n, g) \o IdReports(m[n], g) \in Seq(Report)
           /\ Len(Before(m, n, g) \o IdReports(m[n], g)) <= Len(Declared(m))
           /\ Before(m, n, x + 1) = Before(m, n, g) \o IdReports(m[n], g)
           /\ x = L => Parts(DeclaredSeqs(m))[n] = Before(m, n, g) \o IdReports(m[n], g)
<1>0. PICK c \in Collection : c = m[n]
  BY DEF Maps
<1>1. PICK N \in Nat : N = Len(m) /\ n \in 1 .. N
  BY DEF Maps
<1>2. PICK u \in Seq(Report) : u = Parts(DeclaredSeqs(m))[n - 1]
  <2>1. n - 1 \in 0 .. N
    BY <1>1
  <2> QED BY <1>1, <2>1, MapPartsAre
<1>3. PICK v \in Seq(Report) : v = Parts(IdSeqs(c))[g - 1]
  <2>1. g - 1 \in 0 .. L
    OBVIOUS
  <2> QED BY <1>0, <2>1, IdPartsAre
<1>4. PICK w \in Seq(Report) : w = IdReports(c, g)
  BY <1>0, IdPartsAre
<1>5. PICK vw \in Seq(Report) : vw = v \o w
  BY ConcatProperties
<1>6. Parts(IdSeqs(c))[g] = vw /\ Parts(IdSeqs(c))[x] = vw
  BY <1>0, <1>3, <1>4, <1>5, IdPartsAre
<1>7. (u \o v) \o w = u \o vw
  BY <1>5, ThreeAre
<1>8. u \o vw \in Seq(Report)
  BY ConcatProperties
<1>9. Before(m, n, x + 1) = u \o vw
  <2>1. (x + 1) - 1 = x
    OBVIOUS
  <2> QED BY <1>0, <1>2, <1>6, <2>1 DEF Before
<1>10. Before(m, n, g) \o IdReports(m[n], g) = u \o vw
  BY <1>0, <1>2, <1>3, <1>4, <1>7 DEF Before
<1>11. PICK z \in Seq(Report) : z = Parts(IdSeqs(c))[L] /\ Len(vw) <= Len(z)
  <2>1. g \in 0 .. L /\ L \in 0 .. L
    OBVIOUS
  <2>2. /\ Parts(IdSeqs(c))[L] \in Seq(Report)
        /\ Len(Parts(IdSeqs(c))[g]) <= Len(Parts(IdSeqs(c))[L])
    BY <1>0, <2>1, IdPartsAre
  <2> QED BY <1>6, <2>2
<1>12. Parts(DeclaredSeqs(m))[n] = u \o z
  <2>1. FlattenSeq(IdSeqs(c)) = z
    BY <1>0, <1>11, IdPartsAre
  <2>2. Parts(DeclaredSeqs(m))[n] = Parts(DeclaredSeqs(m))[n - 1] \o FlattenSeq(IdSeqs(m[n]))
    BY <1>1, MapPartsAre
  <2> QED BY <1>0, <1>2, <2>1, <2>2
<1>13. Len(u \o z) <= Len(Declared(m)) /\ Len(Declared(m)) \in Nat
  <2>1. n \in 0 .. N
    BY <1>1
  <2>2. Len(Parts(DeclaredSeqs(m))[n]) <= Len(Declared(m))
    BY <1>1, <2>1, MapPartsAre
  <2>3. Declared(m) \in Seq(Report)
    BY DeclaredAre
  <2> QED BY <1>12, <2>2, <2>3
<1>14. Len(u \o vw) <= Len(Declared(m))
  <2>1. PICK a \in Nat, b \in Nat, e \in Nat : a = Len(u) /\ b = Len(vw) /\ e = Len(z)
    OBVIOUS
  <2>2. Len(u \o vw) = a + b /\ Len(u \o z) = a + e
    BY <2>1
  <2> QED BY <1>11, <1>13, <2>1, <2>2
<1>15. x = L => Parts(DeclaredSeqs(m))[n] = u \o vw
  BY <1>6, <1>11, <1>12
<1> QED BY <1>8, <1>9, <1>10, <1>14, <1>15

\* The usages before the first id, of the next one, and of all.
LEMMA UsedIs ==
    ASSUME NEW m \in Maps
    PROVE  /\ UsedBefore(m, 1, 1) = {}
           /\ UsedBefore(m, Len(m) + 1, 1) = Usages(m)
<1>1. PICK N \in Nat : N = Len(m) /\ DOMAIN m = 1 .. N
  BY DEF Maps
<1>2. UsedBefore(m, 1, 1) = {}
  <2>1. SUFFICES ASSUME NEW u \in UsedBefore(m, 1, 1)
                 PROVE  FALSE
    OBVIOUS
  <2>2. PICK a \in 1 .. N : \E b \in 1 .. Len(m[a].fields) : a < 1 \/ (a = 1 /\ b < 1)
    BY <1>1, <2>1 DEF UsedBefore
  <2>3. PICK b \in 1 .. Len(m[a].fields) : a < 1 \/ (a = 1 /\ b < 1)
    BY <2>2
  <2> QED BY <2>2, <2>3
<1>3. \A a \in 1 .. N : /\ m[a] \in Collection /\ DOMAIN m[a].fields = 1 .. Len(m[a].fields)
                        /\ \A b \in 1 .. Len(m[a].fields) : IdUsage(m[a], b) \in UsageNames
  <2>1. SUFFICES ASSUME NEW a \in 1 .. N
                 PROVE  /\ m[a] \in Collection /\ DOMAIN m[a].fields = 1 .. Len(m[a].fields)
                        /\ \A b \in 1 .. Len(m[a].fields) : IdUsage(m[a], b) \in UsageNames
    OBVIOUS
  <2>2. PICK c \in Collection : c = m[a]
    BY <1>1 DEF Maps
  <2>3. PICK L \in Nat : L = Len(c.fields) /\ DOMAIN c.fields = 1 .. L
    BY DEF Collection
  <2> QED BY <2>2, <2>3, IdIs
<1>4. UsedBefore(m, N + 1, 1) \subseteq Usages(m)
  <2>1. SUFFICES ASSUME NEW u \in UsedBefore(m, N + 1, 1)
                 PROVE  u \in Usages(m)
    OBVIOUS
  <2>2. PICK a \in 1 .. N : \E b \in 1 .. Len(m[a].fields) :
                StartsId(m[a], b) /\ u = IdUsage(m[a], b)
    BY <1>1, <2>1 DEF UsedBefore
  <2>3. PICK b \in 1 .. Len(m[a].fields) : StartsId(m[a], b) /\ u = IdUsage(m[a], b)
    BY <2>2
  <2>4. b \in {i \in DOMAIN m[a].fields : StartsId(m[a], i)}
    BY <1>3, <2>3
  <2>5. u \in {IdUsage(m[a], i) : i \in {i \in DOMAIN m[a].fields : StartsId(m[a], i)}}
    BY <2>3, <2>4
  <2> QED BY <1>1, <2>5 DEF Usages
<1>5. Usages(m) \subseteq UsedBefore(m, N + 1, 1)
  <2>1. SUFFICES ASSUME NEW u \in Usages(m)
                 PROVE  u \in UsedBefore(m, N + 1, 1)
    OBVIOUS
  <2>2. PICK a \in 1 .. N :
            u \in {IdUsage(m[a], i) : i \in {i \in DOMAIN m[a].fields : StartsId(m[a], i)}}
    BY <1>1, <2>1 DEF Usages
  <2>3. PICK b \in DOMAIN m[a].fields : StartsId(m[a], b) /\ u = IdUsage(m[a], b)
    BY <2>2
  <2>4. b \in 1 .. Len(m[a].fields) /\ u \in UsageNames /\ a < N + 1
    BY <1>3, <2>3
  <2> QED BY <1>1, <2>3, <2>4 DEF UsedBefore
<1> QED BY <1>1, <1>2, <1>4, <1>5

\* The usages with an id, before the next one.
LEMMA NextUsed ==
    ASSUME NEW m \in Maps, NEW n \in 1 .. Len(m), NEW L \in Nat, L = Len(m[n].fields),
           NEW g \in 1 .. L, StartsId(m[n], g), NEW x \in 1 .. L, x \in IdFields(m[n], g)
    PROVE  /\ UsedBefore(m, n, x + 1) = UsedBefore(m, n, g) \cup {IdUsage(m[n], g)}
           /\ x = L => UsedBefore(m, n + 1, 1) = UsedBefore(m, n, g) \cup {IdUsage(m[n], g)}
<1>0. PICK c \in Collection : c = m[n]
  BY DEF Maps
<1>1. PICK N \in Nat : N = Len(m) /\ n \in 1 .. N
  BY DEF Maps
<1>2. g <= x /\ \A k \in g + 1 .. x : ~StartsId(c, k)
  BY <1>0, FieldsOfId
<1>3. IdUsage(c, g) \in UsageNames
  BY <1>0, IdIs
<1> DEFINE Pair(u, a, b) == StartsId(m[a], b) /\ u = IdUsage(m[a], b)
<1>4. ASSUME NEW a \in 1 .. N, NEW b \in 1 .. Len(m[a].fields), StartsId(m[a], b)
      PROVE  /\ (a < n \/ (a = n /\ b < x + 1)) <=>
                   \/ a < n \/ (a = n /\ b < g)
                   \/ a = n /\ b = g
             /\ x = L => ((a < n + 1 \/ (a = n + 1 /\ b < 1)) <=>
                             (a < n \/ (a = n /\ b < x + 1)))
  <2>1. CASE a = n
    <3>1. b \in 1 .. L /\ StartsId(c, b)
      BY <1>0, <1>4, <2>1
    <3>2. b \notin g + 1 .. x
      BY <1>2, <3>1
    <3> QED BY <1>1, <1>2, <2>1, <3>1, <3>2
  <2>2. CASE a # n
    <3>1. PICK e \in Nat : e = b /\ e >= 1
      OBVIOUS
    <3> QED BY <1>1, <2>2, <3>1
  <2> QED BY <2>1, <2>2
<1>5. \A u : u \in UsedBefore(m, n, x + 1) <=> u \in UsedBefore(m, n, g) \cup {IdUsage(m[n], g)}
  BY <1>0, <1>1, <1>3, <1>4 DEF UsedBefore
<1>6. x = L => \A u : u \in UsedBefore(m, n + 1, 1) <=> u \in UsedBefore(m, n, x + 1)
  BY <1>1, <1>4 DEF UsedBefore
<1> QED BY <1>5, <1>6

\* Where the parser is in a sound map, and what it reads there.
LEMMA SoundHere ==
    ASSUME ParseInv, pc = "parse", Sound(device[d]), NEW m, m = device[d].map, NEW p, Here(p)
    PROVE  /\ m \in Maps /\ WellFormed(m) /\ Aligned(m) /\ m # <<>>
           /\ Len(Declared(m)) <= MaxReports
           /\ p \in Places(m) /\ index = PlaceAt(m, p) /\ index \in Nat
           /\ index <= Len(desc) <=> p # End(m)
           /\ index > Len(desc) <=> p = End(m)
           /\ p # End(m) => It = PlaceItem(m, p) /\ It.tag # "short"
<1>1. device \in Seq(Service) /\ d \in 1 .. Len(device)
  BY DEF ParseInv, CallerType
<1>2. PICK s \in Service : s = device[d]
  BY <1>1
<1>3. m \in Maps /\ desc = MapItems(m)
  BY <1>2, DescriptorIs DEF Sound, ParseInv, PlaceInv
<1>4. p \in Places(m) /\ index = PlaceAt(m, p)
  BY DEF Here
<1>5. PICK N \in Nat : N = Len(desc) /\ N = Len(MapItems(m)) /\ PlaceAt(m, End(m)) = N + 1
  BY <1>3, MapEnds
<1>6. CASE p = End(m)
  BY <1>2, <1>3, <1>4, <1>5, <1>6 DEF Sound
<1>7. CASE p # End(m)
  <2>1. /\ PlaceAt(m, p) \in 1 .. N /\ MapItems(m)[PlaceAt(m, p)] = PlaceItem(m, p)
        /\ PlaceItem(m, p) \in Items
    BY <1>3, <1>4, <1>5, <1>7, PlaceIs, LevelIs
  <2>2. It = PlaceItem(m, p)
    BY <1>3, <1>4, <2>1 DEF It
  <2>3. It.tag # "short"
    BY <2>1, <2>2 DEF Items, Tags, Types
  <2> QED BY <1>2, <1>3, <1>4, <1>5, <1>7, <2>1, <2>2, <2>3 DEF Sound
<1> QED BY <1>6, <1>7

\* A place of a map: of a collection, and of a field of it.
PlaceOf(m, p, c, L) ==
    /\ p = Pl(p.n, p.j, p.ph) /\ p.n \in 1 .. Len(m) /\ p.n \in Nat /\ c = m[p.n]
    /\ c \in Collection /\ L \in Nat /\ L = Len(c.fields) /\ L >= 1
    /\ p.ph \in Phases \cup Heads \cup {"close"}
    /\ p.ph \in Phases => /\ p.j \in 1 .. L /\ c.fields[p.j] \in Field
                          /\ Has(c.fields[p.j], p.ph)
    /\ p.ph = "close" => p.j = L
    /\ p.ph \in Heads => p.j = 0
    /\ \A i, j \in 1 .. L : c.fields[i].id = 0 => c.fields[j].id = 0

\* Every place but the end is one.
LEMMA PlaceOfIs ==
    ASSUME NEW m \in Maps, WellFormed(m), NEW p \in Places(m), p # End(m)
    PROVE  \E c, L : PlaceOf(m, p, c, L)
<1>1. p.n \in 1 .. Len(m) /\ p.n \in Nat
  BY PlaceIs
<1>2. PICK c \in Collection : c = m[p.n]
  BY <1>1 DEF Maps
<1>3. PICK L \in Nat : L = Len(c.fields) /\ DOMAIN c.fields = 1 .. L
  BY DEF Collection
<1>4. c.fields # <<>> /\ \A i, j \in 1 .. L : c.fields[i].id = 0 => c.fields[j].id = 0
  <2>1. p.n \in DOMAIN m
    BY <1>1 DEF Maps
  <2> QED BY <1>2, <1>3, <2>1 DEF WellFormed
<1>5. L >= 1
  BY <1>2, <1>3, <1>4 DEF Collection
<1>6. /\ p.j \in Nat /\ p = Pl(p.n, p.j, p.ph) /\ p.ph \in Phases \cup Heads \cup {"close"}
      /\ p.ph \in Phases => p.j \in 1 .. L /\ Has(c.fields[p.j], p.ph)
      /\ p.ph = "close" => p.j = L
      /\ p.ph \in Heads => p.j = 0
  BY <1>2, <1>3 DEF Places, Pl, Heads
<1>7. \A j \in 1 .. L : c.fields[j] \in Field
  BY <1>3 DEF Collection
<1> QED BY <1>1, <1>2, <1>3, <1>4, <1>5, <1>6, <1>7 DEF PlaceOf

\* What was collected stays with the two variables that say it.
LEMMA SoFarStays ==
    ASSUME NEW rs, NEW used, SoFar(rs, used), UNCHANGED mapVars
    PROVE  SoFar(rs, used)'
BY DEF SoFar, mapVars

\* The place after a field.
LEMMA FieldNext ==
    ASSUME NEW m \in Maps, NEW p, NEW c, NEW L, PlaceOf(m, p, c, L),
           p.ph \in {"main", "unnest"}, NEW g \in Nat, Grouped(c, p, g),
           NEW q, q = FieldOrClose(m, p.n, p.j + 1)
    PROVE  /\ q.n = p.n /\ q.ph \in {"id", "page", "close"}
           /\ Grouped(c, q, g) /\ Counted(q) = p.j /\ Level(m, q) = 1
           /\ q.ph \in {"id", "page"} => q.j = p.j + 1 /\ q.j > 1
           /\ q.ph = "close" => q.j = p.j
<1>1. /\ c = m[p.n] /\ c \in Collection /\ L \in Nat /\ L = Len(c.fields) /\ p.j \in 1 .. L
      /\ \A i, j \in 1 .. L : c.fields[i].id = 0 => c.fields[j].id = 0
  BY DEF PlaceOf, Phases
<1>2. PICK j \in 1 .. L : j = p.j
  BY <1>1
<1>3. IdField(p) = j
  BY <1>2 DEF IdField
<1>4. /\ g \in 1 .. L /\ StartsId(c, g) /\ j \in IdFields(c, g)
      /\ Parts(IdSeqs(c))[j] = Parts(IdSeqs(c))[g] /\ c.fields[j].id = c.fields[g].id
  BY <1>1, <1>3 DEF Grouped
<1>5. CASE j + 1 > L
  <2>1. q = Pl(p.n, L, "close") /\ j = L
    BY <1>1, <1>2, <1>5 DEF FieldOrClose
  <2>2. q.n = p.n /\ q.j = L /\ q.ph = "close"
    BY <2>1 DEF Pl
  <2>3. IdField(q) = j /\ Counted(q) = j /\ Level(m, q) = 1
    BY <2>1, <2>2 DEF IdField, Counted, Level
  <2> QED BY <1>1, <1>2, <1>4, <2>1, <2>2, <2>3 DEF Grouped
<1>6. CASE j + 1 <= L
  <2>1. PICK k \in 1 .. L : k = j + 1 /\ k - 1 = j /\ k > 1
    BY <1>6
  <2>2. q = Pl(p.n, k, First(c.fields[k]))
    BY <1>1, <1>2, <2>1 DEF FieldOrClose
  <2>3. CASE c.fields[k].id # 0
    <3>1. q.n = p.n /\ q.j = k /\ q.ph = "id"
      BY <2>2, <2>3 DEF Pl, First
    <3>2. IdField(q) = j /\ Counted(q) = j /\ Level(m, q) = 1
      BY <2>1, <3>1 DEF IdField, Counted, Level
    <3> QED BY <1>1, <1>2, <1>4, <2>1, <3>1, <3>2 DEF Grouped
  <2>4. CASE c.fields[k].id = 0
    <3>1. q.n = p.n /\ q.j = k /\ q.ph = "page"
      BY <2>2, <2>4 DEF Pl, First
    <3>2. IdField(q) = k /\ Counted(q) = j /\ Level(m, q) = 1
      BY <2>1, <3>1 DEF IdField, Counted, Level
    <3>3. c.fields[j].id = 0
      BY <1>1, <2>4
    <3>4. ~StartsId(c, k)
      BY <2>1, <2>4, <3>3 DEF StartsId
    <3>5. k \in IdFields(c, g)
      BY <1>1, <1>4, <2>1, <3>4, FieldsOfId
    <3>6. Parts(IdSeqs(c))[k] = Parts(IdSeqs(c))[j]
      BY <1>1, <2>1, <3>4, IdPartsAre
    <3> QED BY <1>1, <1>2, <1>4, <2>1, <2>4, <3>1, <3>2, <3>3, <3>5, <3>6 DEF Grouped
  <2> QED BY <2>3, <2>4
<1> QED BY <1>1, <1>2, <1>5, <1>6

\* The parser at place p of the sound map m.
Exact(m, p) == /\ pc = "parse" /\ Sound(device[d]) /\ m = device[d].map
               /\ Here(p) /\ ParserAt(m, p)
Reads == WaitUsagePage \/ WaitUsage \/ WaitCollection \/ Measure \/ ReportId \/ EndCollection

\* In front of a collection, its page is read.
LEMMA PageGoes ==
    ASSUME ParseInv, NEW m, NEW p, Exact(m, p), p # End(m), p.ph = "cpage", Reads
    PROVE  Proceed /\ ParserAt(m, After(m, p))'
<1>1. /\ m \in Maps /\ WellFormed(m) /\ p \in Places(m) /\ It = PlaceItem(m, p)
  BY SoundHere DEF Exact
<1>2. PICK c, L : PlaceOf(m, p, c, L)
  BY <1>1, PlaceOfIs
<1>3. PICK q : q = After(m, p) /\ q.ph = "cusage" /\ q.n = p.n
  <2>1. After(m, p) = Pl(p.n, 0, "cusage")
    BY DEF After
  <2> QED BY <2>1 DEF Pl
<1>4. InFront(m, p)
  BY DEF Exact, ParserAt, Heads
<1>5. It.tag = "USAGE_PAGE" /\ It.val = c.page
  BY <1>1, <1>2 DEF PlaceItem, PlaceOf, Item
<1>6. WaitUsagePage
  BY <1>4 DEF Reads, InFront, WaitUsage, WaitCollection, Measure, ReportId, EndCollection, Reading
<1>7. /\ s_report_params' = [NoParams EXCEPT !.page = It.val] /\ s_parse_step' = "USAGE"
      /\ Proceed /\ UNCHANGED mapVars
  BY <1>5, <1>6 DEF WaitUsagePage
<1>8. s_report_params'.page = c.page /\ s_report_params'.bits = NoBits
  BY <1>5, <1>7 DEF NoParams
<1>9. PICK rs, used : /\ rs = Parts(DeclaredSeqs(m))[p.n - 1]
                      /\ used = UsedBefore(m, p.n, 1)
  OBVIOUS
<1>10. SoFar(rs, used)'
  BY <1>4, <1>7, <1>9, SoFarStays DEF InFront
<1>11. s_new_map' => q.n = 1
  BY <1>3, <1>4, <1>7 DEF InFront, mapVars
<1>12. InFront(m, q)'
  BY <1>2, <1>3, <1>7, <1>8, <1>9, <1>10, <1>11 DEF InFront, PlaceOf
<1> QED BY <1>3, <1>7, <1>12 DEF ParserAt, Heads

\* Behind the page of a collection, its usage is read.
LEMMA UsageGoes ==
    ASSUME ParseInv, NEW m, NEW p, Exact(m, p), p # End(m), p.ph = "cusage", Reads
    PROVE  Proceed /\ ParserAt(m, After(m, p))'
<1>1. /\ m \in Maps /\ WellFormed(m) /\ p \in Places(m) /\ It = PlaceItem(m, p)
  BY SoundHere DEF Exact
<1>2. PICK c, L : PlaceOf(m, p, c, L)
  BY <1>1, PlaceOfIs
<1>3. PICK q : q = After(m, p) /\ q.ph = "copen" /\ q.n = p.n
  <2>1. After(m, p) = Pl(p.n, 0, "copen")
    BY DEF After
  <2> QED BY <2>1 DEF Pl
<1>4. InFront(m, p)
  BY DEF Exact, ParserAt, Heads
<1>5. It.tag = "USAGE" /\ It.val = c.usage
  BY <1>1, <1>2 DEF PlaceItem, PlaceOf, Item
<1>6. WaitUsage
  BY <1>4 DEF Reads, InFront, WaitUsagePage, WaitCollection, Measure, ReportId, EndCollection, Reading
<1>7. /\ s_report_params' = [s_report_params EXCEPT !.usage = It.val] /\ s_parse_step' = "COLLECTION"
      /\ Proceed /\ UNCHANGED mapVars
  BY <1>5, <1>6 DEF WaitUsage
<1>8. PICK pr \in Params : pr = s_report_params
  BY DEF ParseInv, StaticsType
<1>9. s_report_params'.page = c.page /\ s_report_params'.bits = NoBits
      /\ s_report_params'.usage = c.usage
  <2>1. pr.page = c.page /\ pr.bits = NoBits
    BY <1>2, <1>4, <1>8 DEF InFront, PlaceOf
  <2> QED BY <1>5, <1>7, <1>8, <2>1 DEF Params
<1>10. PICK rs, used : /\ rs = Parts(DeclaredSeqs(m))[p.n - 1]
                       /\ used = UsedBefore(m, p.n, 1)
  OBVIOUS
<1>11. SoFar(rs, used)'
  BY <1>4, <1>7, <1>10, SoFarStays DEF InFront
<1>12. s_new_map' => q.n = 1
  BY <1>3, <1>4, <1>7 DEF InFront, mapVars
<1>13. InFront(m, q)'
  BY <1>2, <1>3, <1>7, <1>9, <1>10, <1>11, <1>12 DEF InFront, PlaceOf
<1> QED BY <1>3, <1>7, <1>13 DEF ParserAt, Heads

\* The place before the first field: the first id starts there, with no bits.
LEMMA FirstPlace ==
    ASSUME NEW m \in Maps, NEW p, NEW c, NEW L, PlaceOf(m, p, c, L), p.ph = "copen",
           NEW q, q = FieldOrClose(m, p.n, 1)
    PROVE  /\ q.n = p.n /\ q.j = 1 /\ q.ph \in {"id", "page"} /\ Counted(q) = 0
           /\ Grouped(c, q, 1) /\ Level(m, q) = 1
           /\ q.ph = "page" => c.fields[1].id = 0
<1>1. c = m[p.n] /\ c \in Collection /\ L \in Nat /\ L = Len(c.fields) /\ L >= 1
  BY DEF PlaceOf
<1>2. q = Pl(p.n, 1, First(c.fields[1]))
  BY <1>1 DEF FieldOrClose
<1>3. q.n = p.n /\ q.j = 1 /\ q.ph \in {"id", "page"} /\ (q.ph = "page" => c.fields[1].id = 0)
  BY <1>2 DEF Pl, First
<1>4. IdField(q) = 1 /\ Counted(q) = 0 /\ Level(m, q) = 1
  BY <1>3 DEF IdField, Counted, Level
<1>5. StartsId(c, 1) /\ 1 \in IdFields(c, 1)
  BY <1>1, FieldsOfId DEF StartsId
<1> QED BY <1>1, <1>3, <1>4, <1>5 DEF Grouped

\* Behind the usage the collection starts, and with it the first id.
LEMMA OpenGoes ==
    ASSUME ParseInv, NEW m, NEW p, Exact(m, p), p # End(m), p.ph = "copen", Reads
    PROVE  Proceed /\ ParserAt(m, After(m, p))'
<1>1. /\ m \in Maps /\ WellFormed(m) /\ p \in Places(m) /\ It = PlaceItem(m, p)
  BY SoundHere DEF Exact
<1>2. PICK c, L : PlaceOf(m, p, c, L)
  BY <1>1, PlaceOfIs
<1>3. PICK q : q = After(m, p) /\ q = FieldOrClose(m, p.n, 1)
  BY DEF After
<1>4. InFront(m, p)
  BY DEF Exact, ParserAt, Heads
<1>5. It = Item("COLLECTION", "application")
  BY <1>1 DEF PlaceItem
<1>6. WaitCollection
  BY <1>4 DEF Reads, InFront, WaitUsagePage, WaitUsage, Measure, ReportId, EndCollection, Reading
<1>7. /\ s_report_params' = [s_report_params EXCEPT !.id = 0] /\ s_parse_step' = "END"
      /\ s_collection_depth' = 1 /\ Proceed /\ UNCHANGED mapVars
  BY <1>5, <1>6 DEF WaitCollection
<1>8. PICK pr \in Params : pr = s_report_params
  BY DEF ParseInv, StaticsType
<1>9. /\ s_report_params'.page = c.page /\ s_report_params'.bits = NoBits
      /\ s_report_params'.usage = c.usage /\ s_report_params'.id = 0
  <2>1. pr.page = c.page /\ pr.bits = NoBits /\ pr.usage = c.usage
    BY <1>2, <1>4, <1>8 DEF InFront, PlaceOf
  <2> QED BY <1>7, <1>8, <2>1 DEF Params
<1>10. /\ q.n = p.n /\ q.j = 1 /\ q.ph \in {"id", "page"} /\ Counted(q) = 0
       /\ Grouped(c, q, 1) /\ Level(m, q) = 1
       /\ q.ph = "page" => c.fields[1].id = 0
  BY <1>1, <1>2, <1>3, FirstPlace
<1>11. /\ c = m[p.n] /\ c \in Collection /\ L \in Nat /\ L = Len(c.fields) /\ L >= 1
       /\ p.n \in 1 .. Len(m)
  BY <1>2 DEF PlaceOf
<1>12. Measured(c, q, 1)'
  <2>1. IdUsage(c, 1) = UsageOf(c.page, c.usage)
    BY DEF IdUsage
  <2>2. \A t \in Types : BitsTo(c, 1, t)[0] = 0
    <3>1. 1 \in 1 .. L /\ 0 \in 0 .. L /\ 0 < 1
      BY <1>11
    <3> QED BY <1>11, <3>1, BitsAre DEF BitsOf
  <2>3. \A t \in Types : s_report_params'.bits[t] = BitsTo(c, 1, t)[0]
    BY <1>9, <2>2 DEF NoBits
  <2> QED BY <1>9, <1>10, <2>1, <2>3 DEF Measured
<1>13. FieldRead(c, q)'
  BY <1>10 DEF FieldRead
<1>14. PICK rs, used : /\ rs = Parts(DeclaredSeqs(m))[p.n - 1]
                       /\ used = UsedBefore(m, p.n, 1)
  OBVIOUS
<1>15. SoFar(rs, used)'
  BY <1>4, <1>7, <1>14, SoFarStays DEF InFront
<1>16. Parts(DeclaredSeqs(m))[p.n - 1] \o Parts(IdSeqs(c))[1 - 1] = rs
  <2>1. PICK N \in Nat : N = Len(m) /\ p.n \in 1 .. N
    BY <1>1, <1>11 DEF Maps
  <2>2. p.n - 1 \in 0 .. N
    BY <2>1
  <2>3. rs \in Seq(Report)
    BY <1>1, <1>14, <2>1, <2>2, MapPartsAre
  <2>4. Parts(IdSeqs(c))[1 - 1] = <<>>
    BY <1>11, IdPartsAre
  <2>5. rs \o <<>> = rs
    BY <2>3, ConcatEmptySeq
  <2> QED BY <1>14, <2>4, <2>5
<1>17. s_new_map' => q.n = 1
  BY <1>4, <1>7, <1>10 DEF InFront, mapVars
<1>18. Inside(m, q, 1)'
  BY <1>7, <1>10, <1>11, <1>12, <1>13, <1>14, <1>15, <1>16, <1>17 DEF Inside
<1> QED BY <1>3, <1>7, <1>10, <1>18 DEF ParserAt, Heads

\* What Measure does, part by part.
MeasureIs(pr, new, it) ==
    /\ new.id = pr.id /\ new.page = pr.page /\ new.usage = pr.usage
    /\ it.tag = "USAGE_PAGE" => new.inner_page = it.val
    /\ it.tag # "USAGE_PAGE" => new.inner_page = pr.inner_page
    /\ it.tag = "USAGE" => new.inner_usage = it.val
    /\ it.tag # "USAGE" => new.inner_usage = pr.inner_usage
    /\ it.tag \notin Types => new.bits = pr.bits
    /\ it.tag \in Types =>
          \A t \in Types : new.bits[t] = IF t = it.tag
              THEN (pr.bits[t] + s_report_size * s_report_count) % 65536 ELSE pr.bits[t]

\* The step does it.
LEMMA MeasureDoes ==
    ASSUME ParseInv, Measure, NEW pr, pr = s_report_params, NEW it, it = It
    PROVE  MeasureIs(pr, s_report_params', it)
<1>1. pr \in Params
  BY DEF ParseInv, StaticsType
<1>2. s_report_params' =
          CASE it.tag = "USAGE_PAGE" -> [pr EXCEPT !.inner_page = it.val]
            [] it.tag = "USAGE" -> [pr EXCEPT !.inner_usage = it.val]
            [] it.tag \in Types ->
                  [pr EXCEPT !.bits[it.tag] = (@ + s_report_size * s_report_count) % 65536]
            [] OTHER -> pr
  BY DEF Measure
<1>3. CASE it.tag = "USAGE_PAGE"
  <2>1. s_report_params' = [pr EXCEPT !.inner_page = it.val] /\ it.tag \notin Types
    BY <1>2, <1>3 DEF Types
  <2> QED BY <1>1, <1>3, <2>1 DEF MeasureIs, Params
<1>4. CASE it.tag = "USAGE"
  <2>1. s_report_params' = [pr EXCEPT !.inner_usage = it.val] /\ it.tag \notin Types
    BY <1>2, <1>4 DEF Types
  <2> QED BY <1>1, <1>4, <2>1 DEF MeasureIs, Params
<1>5. CASE it.tag \in Types
  <2>1. it.tag \notin {"USAGE_PAGE", "USAGE"}
    BY <1>5 DEF Types
  <2>2. PICK l : l = (pr.bits[it.tag] + s_report_size * s_report_count) % 65536
    OBVIOUS
  <2>3. s_report_params' = [pr EXCEPT !.bits[it.tag] = l]
    BY <1>2, <1>5, <2>1, <2>2
  <2>4. PICK bits \in [Types -> Lengths] : bits = pr.bits
    BY <1>1 DEF Params
  <2>5. s_report_params' = [pr EXCEPT !.bits = [bits EXCEPT ![it.tag] = l]]
    BY <2>3, <2>4
  <2>6. s_report_params'.bits = [bits EXCEPT ![it.tag] = l]
    BY <1>1, <2>5 DEF Params
  <2>7. \A t \in Types : s_report_params'.bits[t] = IF t = it.tag THEN l ELSE bits[t]
    BY <2>6
  <2>8. /\ s_report_params'.id = pr.id /\ s_report_params'.page = pr.page
        /\ s_report_params'.usage = pr.usage
        /\ s_report_params'.inner_page = pr.inner_page
        /\ s_report_params'.inner_usage = pr.inner_usage
    BY <1>1, <2>5 DEF Params
  <2> QED BY <1>5, <2>1, <2>2, <2>4, <2>7, <2>8 DEF MeasureIs
<1>6. CASE it.tag \notin {"USAGE_PAGE", "USAGE"} \cup Types
  <2>1. s_report_params' = pr
    BY <1>2, <1>6
  <2> QED BY <1>6, <2>1 DEF MeasureIs
<1> QED BY <1>3, <1>4, <1>5, <1>6

\* The places of a field whose items do not count it.
Quiet == {"page", "usage", "nest", "size", "count"}

\* The place after one of them is in the same field, with the same fields counted.
LEMMA QuietPlace ==
    ASSUME NEW m, NEW p, NEW c, NEW L, PlaceOf(m, p, c, L), p.ph \in Quiet,
           NEW q, q = After(m, p), NEW g, Grouped(c, p, g)
    PROVE  /\ q.n = p.n /\ q.j = p.j /\ Counted(q) = Counted(p) /\ Grouped(c, q, g)
           /\ p.ph = "page" => q.ph = "usage"
           /\ p.ph = "usage" => q.ph \in {"nest", "size"}
           /\ p.ph = "nest" => q.ph = "size"
           /\ p.ph = "size" => q.ph = "count"
           /\ p.ph = "count" => q.ph = "main"
           /\ q.ph \in {"usage", "nest", "size", "count", "main"}
<1>1. PICK ph : q = Pl(p.n, p.j, ph) /\ ph \in {"usage", "nest", "size", "count", "main"}
                /\ (p.ph = "page" => ph = "usage")
                /\ (p.ph = "usage" => ph \in {"nest", "size"})
                /\ (p.ph = "nest" => ph = "size")
                /\ (p.ph = "size" => ph = "count")
                /\ (p.ph = "count" => ph = "main")
  <2>1. CASE p.ph = "page"
    BY <2>1 DEF After
  <2>2. CASE p.ph = "usage"
    BY <2>2 DEF After
  <2>3. CASE p.ph = "nest"
    BY <2>3 DEF After
  <2>4. CASE p.ph = "size"
    BY <2>4 DEF After
  <2>5. CASE p.ph = "count"
    BY <2>5 DEF After
  <2> QED BY <2>1, <2>2, <2>3, <2>4, <2>5 DEF Quiet
<1>2. q.n = p.n /\ q.j = p.j /\ q.ph = ph
  BY <1>1 DEF Pl
<1>3. IdField(q) = IdField(p) /\ Counted(q) = Counted(p)
  BY <1>1, <1>2 DEF IdField, Counted, Quiet
<1>4. Grouped(c, q, g)
  BY <1>3 DEF Grouped
<1> QED BY <1>1, <1>2, <1>3, <1>4

\* An item of a field.
LEMMA FieldItemIs ==
    ASSUME NEW m, NEW p, NEW c, NEW L, PlaceOf(m, p, c, L), p.ph \in Phases,
           NEW it, it = PlaceItem(m, p)
    PROVE  /\ p.ph = "id" => it = Item("REPORT_ID", c.fields[p.j].id)
           /\ p.ph = "page" => it = Item("USAGE_PAGE", c.fields[p.j].page)
           /\ p.ph = "usage" => it = Item("USAGE", c.fields[p.j].usage)
           /\ p.ph = "nest" => it = Item("COLLECTION", "physical")
           /\ p.ph = "size" => it = Item("SIZE", c.fields[p.j].size)
           /\ p.ph = "count" => it = Item("COUNT", c.fields[p.j].count)
           /\ p.ph = "main" => it = Item(c.fields[p.j].type, 0)
           /\ p.ph = "unnest" => it = Item("END", 0)
<1>1. PICK f : f = c.fields[p.j] /\ f = m[p.n].fields[p.j]
  BY DEF PlaceOf
<1>2. it = FieldItem(f, p.ph)
  BY <1>1 DEF PlaceItem, Phases
<1> QED BY <1>1, <1>2 DEF FieldItem, Phases

\* The depth follows the level.
LEMMA DepthGoes ==
    ASSUME NEW l \in 0 .. 2, NEW k \in 0 .. 2
    PROVE  /\ k = l + 1 => (l + 1) % 256 = k
           /\ k + 1 = l => (l + 255) % 256 = k
OBVIOUS

\* Their items are read without a change of what was measured.
LEMMA QuietGoes ==
    ASSUME ParseInv, NEW m, NEW p, Exact(m, p), p # End(m), p.ph \in Quiet, Reads
    PROVE  Proceed /\ ParserAt(m, After(m, p))'
<1>1. /\ m \in Maps /\ WellFormed(m) /\ p \in Places(m) /\ It = PlaceItem(m, p)
  BY SoundHere DEF Exact
<1>2. PICK c, L : PlaceOf(m, p, c, L)
  BY <1>1, PlaceOfIs
<1>3. PICK q : q = After(m, p)
  OBVIOUS
<1>4. PICK g \in Nat : Inside(m, p, g)
  BY DEF Exact, ParserAt, Heads, Quiet
<1>5. c = m[p.n] /\ Grouped(c, p, g) /\ Measured(c, p, g) /\ FieldRead(c, p)
  BY <1>2, <1>4 DEF Inside, PlaceOf
<1>6. /\ q.n = p.n /\ q.j = p.j /\ Counted(q) = Counted(p) /\ Grouped(c, q, g)
      /\ p.ph = "page" => q.ph = "usage"
      /\ p.ph = "usage" => q.ph \in {"nest", "size"}
      /\ p.ph = "nest" => q.ph = "size"
      /\ p.ph = "size" => q.ph = "count"
      /\ p.ph = "count" => q.ph = "main"
      /\ q.ph \in {"usage", "nest", "size", "count", "main"}
  BY <1>2, <1>3, <1>5, QuietPlace
<1>7. PICK it : it = It /\ it = PlaceItem(m, p)
  BY <1>1
<1>8. PICK f : f = c.fields[p.j]
  OBVIOUS
<1>9. /\ p.ph = "page" => it.tag = "USAGE_PAGE" /\ it.val = f.page
      /\ p.ph = "usage" => it.tag = "USAGE" /\ it.val = f.usage
      /\ p.ph = "nest" => it.tag = "COLLECTION"
      /\ p.ph = "size" => it.tag = "SIZE" /\ it.val = f.size
      /\ p.ph = "count" => it.tag = "COUNT" /\ it.val = f.count
  <2>1. p.ph \in Phases
    BY DEF Quiet, Phases
  <2> QED BY <1>2, <1>7, <1>8, <2>1, FieldItemIs DEF Item
<1>10. it.tag \in {"USAGE_PAGE", "USAGE", "COLLECTION", "SIZE", "COUNT"}
  BY <1>9 DEF Quiet
<1>11. Measure
  BY <1>4, <1>7, <1>10 DEF Reads, Inside, WaitUsagePage, WaitUsage, WaitCollection, ReportId,
                           EndCollection, Reading
<1>12. PICK pr : pr = s_report_params
  OBVIOUS
<1>13. MeasureIs(pr, s_report_params', it)
  BY <1>7, <1>11, <1>12, MeasureDoes
<1>14. /\ Proceed /\ UNCHANGED <<s_parse_step, mapVars>>
       /\ s_report_size' = IF it.tag = "SIZE" THEN it.val ELSE s_report_size
       /\ s_report_count' = IF it.tag = "COUNT" THEN it.val ELSE s_report_count
       /\ s_collection_depth' = IF it.tag = "COLLECTION" THEN (s_collection_depth + 1) % 256
                                ELSE s_collection_depth
  <2>1. Proceed /\ UNCHANGED <<s_parse_step, mapVars>>
    BY <1>11 DEF Measure
  <2>2. /\ s_report_size' = IF It.tag = "SIZE" THEN It.val ELSE s_report_size
        /\ s_report_count' = IF It.tag = "COUNT" THEN It.val ELSE s_report_count
        /\ s_collection_depth' = IF It.tag = "COLLECTION" THEN (s_collection_depth + 1) % 256
                                 ELSE s_collection_depth
    BY <1>11 DEF Measure
  <2> QED BY <1>7, <2>1, <2>2
<1>15. Measured(c, q, g)'
  <2>1. q.ph # "id" /\ p.ph # "id"
    BY <1>6 DEF Quiet
  <2>2. /\ s_report_params'.id = pr.id /\ s_report_params'.page = pr.page
        /\ s_report_params'.usage = pr.usage /\ s_report_params'.bits = pr.bits
    BY <1>10, <1>13 DEF MeasureIs, Types
  <2>3. /\ pr.id = c.fields[g].id /\ UsageOf(pr.page, pr.usage) = IdUsage(c, g)
        /\ \A t \in Types : pr.bits[t] = BitsTo(c, g, t)[Counted(p)]
    BY <1>5, <1>12, <2>1 DEF Measured
  <2> QED BY <1>6, <2>1, <2>2, <2>3 DEF Measured
<1>16. FieldRead(c, q)'
  <2>1. /\ p.ph # "page" => pr.inner_page = f.page
        /\ p.ph \notin {"page", "usage"} => pr.inner_usage = f.usage
        /\ p.ph = "usage" /\ p.j > 1 => pr.inner_usage = c.fields[p.j - 1].usage
        /\ p.ph = "page" /\ p.j > 1 => pr.inner_usage = c.fields[p.j - 1].usage
        /\ p.ph = "count" => s_report_size = f.size
    BY <1>5, <1>8, <1>12 DEF FieldRead, Quiet
  <2>2. s_report_params'.inner_page = f.page
    BY <1>9, <1>10, <1>13, <2>1 DEF MeasureIs, Quiet
  <2>3. /\ p.ph # "page" => s_report_params'.inner_usage = f.usage
        /\ p.ph = "page" /\ p.j > 1 => s_report_params'.inner_usage = c.fields[p.j - 1].usage
    BY <1>9, <1>10, <1>13, <2>1 DEF MeasureIs, Quiet
  <2>4. /\ p.ph \in {"size", "count"} => s_report_size' = f.size
        /\ p.ph = "count" => s_report_count' = f.count
    BY <1>9, <1>14, <2>1
  <2>5. /\ q.ph \notin {"id", "page"}
        /\ q.ph = "usage" => p.ph = "page"
        /\ q.ph \in {"count", "main"} => p.ph \in {"size", "count"}
        /\ q.ph = "main" => p.ph = "count"
    BY <1>6 DEF Quiet
  <2> QED BY <1>6, <1>8, <2>2, <2>3, <2>4, <2>5 DEF FieldRead
<1>17. s_collection_depth' = Level(m, q)
  <2>1. PICK l, k \in 0 .. 2 : /\ l = Level(m, p) /\ k = Level(m, q)
                               /\ it.tag = "COLLECTION" => k = l + 1
                               /\ it.tag # "COLLECTION" => k = l
    BY <1>1, <1>3, <1>7, <1>10, LevelIs
  <2>2. s_collection_depth = l
    BY <1>4, <2>1 DEF Inside
  <2> QED BY <1>14, <2>1, <2>2, DepthGoes
<1>18. PICK rs, used : rs = Before(m, p.n, g) /\ used = UsedBefore(m, p.n, g)
  OBVIOUS
<1>19. SoFar(rs, used)'
  BY <1>4, <1>14, <1>18, SoFarStays DEF Inside, Before
<1>20. s_new_map' => q.n = 1 /\ g = 1
  BY <1>4, <1>6, <1>14 DEF Inside, mapVars
<1>21. s_parse_step' = "END" /\ m[q.n] = c
  BY <1>4, <1>5, <1>6, <1>14 DEF Inside
<1>22. /\ Parts(DeclaredSeqs(m))[q.n - 1] \o Parts(IdSeqs(m[q.n]))[g - 1] = rs
       /\ UsedBefore(m, q.n, g) = used
  BY <1>6, <1>18 DEF Before
<1>23. Inside(m, q, g)'
  BY <1>6, <1>15, <1>16, <1>17, <1>19, <1>20, <1>21, <1>22 DEF Inside
<1> QED BY <1>3, <1>6, <1>14, <1>23 DEF ParserAt, Heads

\* The bits of an id of a sound map fit into a length, and are full bytes.
LEMMA AlignedIs ==
    ASSUME NEW m \in Maps, Aligned(m), NEW p, NEW c, NEW L, PlaceOf(m, p, c, L),
           NEW g \in 1 .. L, StartsId(c, g), NEW t \in Types
    PROVE  /\ BitsTo(c, g, t)[L] % 8 = 0 /\ IdBits(c, g)[t] = BitsTo(c, g, t)[L]
           /\ \A k \in 0 .. L : /\ BitsTo(c, g, t)[k] \in Nat
                                /\ BitsTo(c, g, t)[k] % 65536 = BitsTo(c, g, t)[k]
<1>1. /\ c = m[p.n] /\ c \in Collection /\ L \in Nat /\ L = Len(c.fields) /\ p.n \in 1 .. Len(m)
  BY DEF PlaceOf
<1>2. p.n \in DOMAIN m /\ g \in DOMAIN m[p.n].fields
  BY <1>1 DEF Maps, Collection
<1>3. IdBits(c, g)[t] = BitsTo(c, g, t)[L]
  BY <1>1 DEF IdBits
<1>4. BitsTo(c, g, t)[L] % 8 = 0 /\ BitsTo(c, g, t)[L] < 65536
  BY <1>1, <1>2, <1>3, SMT DEF Aligned
<1>5. ASSUME NEW k \in 0 .. L
      PROVE  /\ BitsTo(c, g, t)[k] \in Nat
             /\ BitsTo(c, g, t)[k] % 65536 = BitsTo(c, g, t)[k]
  <2>1. BitsOf(BitsTo(c, g, t), c, L, g, t)
    BY <1>1, BitsAre
  <2>2. L \in k .. L /\ L \in 0 .. L
    BY <1>1
  <2>3. BitsTo(c, g, t)[k] <= BitsTo(c, g, t)[L]
    BY <1>1, <2>2, BitsGrow
  <2>4. BitsTo(c, g, t)[k] \in Nat /\ BitsTo(c, g, t)[L] \in Nat
    BY <2>1, <2>2 DEF BitsOf
  <2>5. PICK x, y \in Nat : x = BitsTo(c, g, t)[k] /\ y = BitsTo(c, g, t)[L]
    BY <2>4
  <2>6. x <= y /\ y < 65536
    BY <1>4, <2>3, <2>5, SMT
  <2>7. x % 65536 = x
    BY <2>6, SMT
  <2> QED BY <2>5, <2>7
<1> QED BY <1>3, <1>4, <1>5, SMT

\* The place after the item that counts a field.
LEMMA MainPlace ==
    ASSUME NEW m \in Maps, NEW p, NEW c, NEW L, PlaceOf(m, p, c, L), p.ph = "main",
           NEW g \in Nat, Grouped(c, p, g), NEW q, q = After(m, p)
    PROVE  /\ q.n = p.n /\ q.ph \in {"unnest", "id", "page", "close"}
           /\ Grouped(c, q, g) /\ Counted(q) = p.j
           /\ q.ph \in {"id", "page"} => q.j = p.j + 1 /\ q.j > 1
           /\ q.ph \in {"unnest", "close"} => q.j = p.j
<1>1. c = m[p.n]
  BY DEF PlaceOf
<1>2. q = IF m[p.n].fields[p.j].nest THEN Pl(p.n, p.j, "unnest")
          ELSE FieldOrClose(m, p.n, p.j + 1)
  BY DEF After
<1>3. CASE m[p.n].fields[p.j].nest
  <2>1. q.n = p.n /\ q.j = p.j /\ q.ph = "unnest"
    BY <1>2, <1>3 DEF Pl
  <2>2. IdField(q) = IdField(p) /\ Counted(q) = p.j
    BY <2>1 DEF IdField, Counted
  <2> QED BY <2>1, <2>2 DEF Grouped
<1>4. CASE ~m[p.n].fields[p.j].nest
  <2>1. q = FieldOrClose(m, p.n, p.j + 1)
    BY <1>2, <1>4
  <2> QED BY <2>1, FieldNext
<1> QED BY <1>3, <1>4

\* The item that counts a field.
LEMMA MainGoes ==
    ASSUME ParseInv, NEW m, NEW p, Exact(m, p), p # End(m), p.ph = "main", Reads
    PROVE  Proceed /\ ParserAt(m, After(m, p))'
<1>1. /\ m \in Maps /\ WellFormed(m) /\ p \in Places(m) /\ It = PlaceItem(m, p) /\ Aligned(m)
  BY SoundHere DEF Exact
<1>2. PICK c, L : PlaceOf(m, p, c, L)
  BY <1>1, PlaceOfIs
<1>3. PICK q : q = After(m, p)
  OBVIOUS
<1>4. PICK g \in Nat : Inside(m, p, g)
  BY DEF Exact, ParserAt, Heads
<1>5. c = m[p.n] /\ Grouped(c, p, g) /\ Measured(c, p, g) /\ FieldRead(c, p)
  BY <1>2, <1>4 DEF Inside, PlaceOf
<1>6. /\ q.n = p.n /\ q.ph \in {"unnest", "id", "page", "close"}
      /\ Grouped(c, q, g) /\ Counted(q) = p.j
      /\ q.ph \in {"id", "page"} => q.j = p.j + 1 /\ q.j > 1
      /\ q.ph \in {"unnest", "close"} => q.j = p.j
  BY <1>1, <1>2, <1>3, <1>5, MainPlace
<1>7. PICK it : it = It /\ it = PlaceItem(m, p)
  BY <1>1
<1>8. /\ c \in Collection /\ L \in Nat /\ L = Len(c.fields) /\ p.j \in 1 .. L
  BY <1>2 DEF PlaceOf, Phases
<1>9. PICK j \in 1 .. L : j = p.j /\ j \in Nat /\ j - 1 \in 0 .. L /\ j \in 0 .. L
  BY <1>8
<1>10. PICK f \in Field : f = c.fields[j]
  BY <1>8 DEF Collection
<1>11. it.tag = f.type
  BY <1>2, <1>7, <1>9, <1>10, FieldItemIs DEF Item, Phases
<1>12. it.tag \in Types /\ it.tag \notin {"USAGE_PAGE", "USAGE", "COLLECTION", "REPORT_ID",
                                          "SIZE", "COUNT", "END"}
  BY <1>11 DEF Field, Types
<1>13. Measure
  BY <1>4, <1>7, <1>12 DEF Reads, Inside, WaitUsagePage, WaitUsage, WaitCollection, ReportId,
                           EndCollection, Reading
<1>14. PICK pr : pr = s_report_params
  OBVIOUS
<1>15. MeasureIs(pr, s_report_params', it)
  BY <1>7, <1>13, <1>14, MeasureDoes
<1>16. Proceed /\ UNCHANGED <<s_parse_step, mapVars>> /\ s_collection_depth' = s_collection_depth
  <2>1. Proceed /\ UNCHANGED <<s_parse_step, mapVars>>
    BY <1>13 DEF Measure
  <2>2. s_collection_depth' = IF It.tag = "COLLECTION" THEN (s_collection_depth + 1) % 256
                              ELSE s_collection_depth
    BY <1>13 DEF Measure
  <2> QED BY <1>7, <1>12, <2>1, <2>2
<1>17. s_report_size = f.size /\ s_report_count = f.count
       /\ pr.inner_page = f.page /\ pr.inner_usage = f.usage
  BY <1>5, <1>9, <1>10, <1>14 DEF FieldRead
<1>18. g \in 1 .. L /\ StartsId(c, g) /\ j \in IdFields(c, g)
  BY <1>5, <1>8, <1>9 DEF Grouped, IdField
<1>19. ASSUME NEW t \in Types
       PROVE  s_report_params'.bits[t] = BitsTo(c, g, t)[j]
  <2>1. pr.bits[t] = BitsTo(c, g, t)[j - 1]
    BY <1>5, <1>9, <1>14 DEF Measured, Counted
  <2>2. g <= j
    BY <1>8, <1>18, FieldsOfId
  <2>3. BitsTo(c, g, t)[j] = BitsTo(c, g, t)[j - 1] + Adds(c, g, j, t)
    <3>1. BitsOf(BitsTo(c, g, t), c, L, g, t)
      BY <1>8, <1>18, BitsAre
    <3> QED BY <2>2, <3>1 DEF BitsOf
  <2>4. /\ BitsTo(c, g, t)[j] % 65536 = BitsTo(c, g, t)[j]
        /\ BitsTo(c, g, t)[j] \in Nat /\ BitsTo(c, g, t)[j - 1] \in Nat
    BY <1>1, <1>2, <1>9, <1>18, AlignedIs
  <2>5. CASE t = f.type
    <3>1. Adds(c, g, j, t) = f.size * f.count
      BY <1>10, <1>18, <2>5 DEF Adds
    <3>2. s_report_params'.bits[t] = (pr.bits[t] + s_report_size * s_report_count) % 65536
      BY <1>11, <1>12, <1>15, <2>5 DEF MeasureIs
    <3> QED BY <1>17, <2>1, <2>3, <2>4, <3>1, <3>2
  <2>6. CASE t # f.type
    <3>1. Adds(c, g, j, t) = 0
      BY <1>10, <2>6 DEF Adds
    <3>2. s_report_params'.bits[t] = pr.bits[t]
      BY <1>11, <1>12, <1>15, <2>6 DEF MeasureIs
    <3> QED BY <2>1, <2>3, <2>4, <3>1, <3>2
  <2> QED BY <2>5, <2>6
<1>20. Measured(c, q, g)'
  <2>1. /\ s_report_params'.id = pr.id /\ s_report_params'.page = pr.page
        /\ s_report_params'.usage = pr.usage
    BY <1>15 DEF MeasureIs
  <2>2. pr.id = c.fields[g].id /\ UsageOf(pr.page, pr.usage) = IdUsage(c, g)
    BY <1>5, <1>14 DEF Measured
  <2>3. ~(q.ph = "id" /\ q.j = 1)
    BY <1>6, <1>9
  <2> QED BY <1>6, <1>9, <1>19, <2>1, <2>2, <2>3 DEF Measured
<1>21. FieldRead(c, q)'
  <2>1. s_report_params'.inner_page = f.page /\ s_report_params'.inner_usage = f.usage
    BY <1>12, <1>15, <1>17 DEF MeasureIs
  <2>2. q.ph \in {"id", "page"} => q.j - 1 = j
    BY <1>6, <1>9
  <2> QED BY <1>6, <1>9, <1>10, <2>1, <2>2 DEF FieldRead
<1>22. s_collection_depth' = Level(m, q)
  <2>1. Level(m, q) = Level(m, p)
    BY <1>1, <1>3, <1>7, <1>12, LevelIs
  <2> QED BY <1>4, <1>16, <2>1 DEF Inside
<1>23. PICK rs, used : rs = Before(m, p.n, g) /\ used = UsedBefore(m, p.n, g)
  OBVIOUS
<1>24. SoFar(rs, used)'
  BY <1>4, <1>16, <1>23, SoFarStays DEF Inside, Before
<1>25. s_new_map' => q.n = 1 /\ g = 1
  BY <1>4, <1>6, <1>16 DEF Inside, mapVars
<1>26. s_parse_step' = "END" /\ m[q.n] = c
  BY <1>4, <1>5, <1>6, <1>16 DEF Inside
<1>27. /\ Parts(DeclaredSeqs(m))[q.n - 1] \o Parts(IdSeqs(m[q.n]))[g - 1] = rs
       /\ UsedBefore(m, q.n, g) = used
  BY <1>6, <1>23 DEF Before
<1>28. Inside(m, q, g)'
  BY <1>6, <1>20, <1>21, <1>22, <1>24, <1>25, <1>26, <1>27 DEF Inside
<1> QED BY <1>3, <1>6, <1>16, <1>28 DEF ParserAt, Heads

\* The end of an inner collection.
LEMMA UnnestGoes ==
    ASSUME ParseInv, NEW m, NEW p, Exact(m, p), p # End(m), p.ph = "unnest", Reads
    PROVE  Proceed /\ ParserAt(m, After(m, p))'
<1>1. /\ m \in Maps /\ WellFormed(m) /\ p \in Places(m) /\ It = PlaceItem(m, p)
  BY SoundHere DEF Exact
<1>2. PICK c, L : PlaceOf(m, p, c, L)
  BY <1>1, PlaceOfIs
<1>3. PICK q : q = After(m, p) /\ q = FieldOrClose(m, p.n, p.j + 1)
  BY DEF After
<1>4. PICK g \in Nat : Inside(m, p, g)
  BY DEF Exact, ParserAt, Heads
<1>5. c = m[p.n] /\ Grouped(c, p, g) /\ Measured(c, p, g) /\ FieldRead(c, p)
  BY <1>2, <1>4 DEF Inside, PlaceOf
<1>6. /\ q.n = p.n /\ q.ph \in {"id", "page", "close"}
      /\ Grouped(c, q, g) /\ Counted(q) = p.j /\ Level(m, q) = 1
      /\ q.ph \in {"id", "page"} => q.j = p.j + 1 /\ q.j > 1
      /\ q.ph = "close" => q.j = p.j
  BY <1>1, <1>2, <1>3, <1>5, FieldNext
<1>7. It.tag = "END"
  BY <1>1, <1>2, FieldItemIs DEF Item, Phases
<1>8. p.j \in Nat /\ Has(c.fields[p.j], "unnest")
  BY <1>2 DEF PlaceOf, Phases
<1>9. s_collection_depth = 2
  <2>1. m[p.n].fields[p.j].nest
    BY <1>5, <1>8 DEF Has
  <2> QED BY <1>4, <2>1 DEF Inside, Level, NestItems
<1>10. EndCollection
  BY <1>4, <1>7 DEF Reads, Inside, WaitUsagePage, WaitUsage, WaitCollection, ReportId,
                    Measure, Reading
<1>11. /\ Proceed /\ UNCHANGED <<s_parse_step, lenVars, mapVars>>
       /\ s_collection_depth' = (s_collection_depth + 255) % 256
  BY <1>9, <1>10 DEF EndCollection
<1>12. s_collection_depth' = 1
  BY <1>9, <1>11
<1>13. s_report_params' = s_report_params
  BY <1>11 DEF lenVars
<1>14. Measured(c, q, g)'
  <2>1. Counted(p) = p.j /\ ~(q.ph = "id" /\ q.j = 1)
    BY <1>6, <1>8 DEF Counted
  <2>2. PICK pr : pr = s_report_params /\ pr = s_report_params'
    BY <1>13
  <2>3. /\ pr.id = c.fields[g].id /\ UsageOf(pr.page, pr.usage) = IdUsage(c, g)
        /\ \A t \in Types : pr.bits[t] = BitsTo(c, g, t)[p.j]
    BY <1>5, <2>1, <2>2 DEF Measured
  <2> QED BY <1>6, <2>1, <2>2, <2>3 DEF Measured
<1>15. FieldRead(c, q)'
  <2>1. PICK pr : pr = s_report_params /\ pr = s_report_params'
    BY <1>13
  <2>2. pr.inner_page = c.fields[p.j].page /\ pr.inner_usage = c.fields[p.j].usage
    BY <1>5, <2>1 DEF FieldRead
  <2>3. q.ph \in {"id", "page"} => q.j - 1 = p.j
    BY <1>6, <1>8
  <2> QED BY <1>6, <2>1, <2>2, <2>3 DEF FieldRead
<1>23. PICK rs, used : rs = Before(m, p.n, g) /\ used = UsedBefore(m, p.n, g)
  OBVIOUS
<1>24. SoFar(rs, used)'
  BY <1>4, <1>11, <1>23, SoFarStays DEF Inside, Before
<1>25. s_new_map' => q.n = 1 /\ g = 1
  BY <1>4, <1>6, <1>11 DEF Inside, mapVars
<1>26. s_parse_step' = "END" /\ m[q.n] = c
  BY <1>4, <1>5, <1>6, <1>11 DEF Inside
<1>27. /\ Parts(DeclaredSeqs(m))[q.n - 1] \o Parts(IdSeqs(m[q.n]))[g - 1] = rs
       /\ UsedBefore(m, q.n, g) = used
  BY <1>6, <1>23 DEF Before
<1>28. Inside(m, q, g)'
  BY <1>6, <1>12, <1>14, <1>15, <1>24, <1>25, <1>26, <1>27 DEF Inside
<1> QED BY <1>3, <1>6, <1>11, <1>28 DEF ParserAt, Heads

\* The report that is measured, complete: all fields of its id were counted.
Complete(c, g, L) ==
    /\ s_report_params.id = c.fields[g].id
    /\ UsageOf(s_report_params.page, s_report_params.usage) = IdUsage(c, g)
    /\ \A t \in Types : s_report_params.bits[t] = BitsTo(c, g, t)[L]
Adding(rs, used, u) ==
    /\ FullBytes /\ Collected = rs /\ Len(Collected) <= MaxReports /\ Fitting(Collected) = rs
    /\ (IF s_new_map THEN {} ELSE s_temp.mask)
          \cup {UsageOf(s_report_params.page, s_report_params.usage)} = used \cup {u}

\* A complete report adds to the table what the map declares for its id.
LEMMA CompleteIsAdded ==
    ASSUME ParseInv, NEW m \in Maps, Aligned(m), Len(Declared(m)) <= MaxReports,
           NEW p, NEW c, NEW L, PlaceOf(m, p, c, L),
           NEW g \in 1 .. L, StartsId(c, g), NEW x \in 1 .. L,
           Parts(IdSeqs(c))[x] = Parts(IdSeqs(c))[g],
           Complete(c, g, L), SoFar(Before(m, p.n, g), UsedBefore(m, p.n, g))
    PROVE  Adding(Before(m, p.n, g) \o IdReports(c, g), UsedBefore(m, p.n, g), IdUsage(c, g))
<1>1. /\ c = m[p.n] /\ c \in Collection /\ L \in Nat /\ L = Len(c.fields) /\ p.n \in 1 .. Len(m)
  BY DEF PlaceOf
<1>2. PICK pr \in Params : pr = s_report_params
  BY DEF ParseInv, StaticsType
<1>3. /\ pr.id = c.fields[g].id /\ UsageOf(pr.page, pr.usage) = IdUsage(c, g)
      /\ \A t \in Types : pr.bits[t] = IdBits(c, g)[t] /\ pr.bits[t] % 8 = 0
  BY <1>2, AlignedIs DEF Complete
<1>4. FullBytes
  BY <1>2, <1>3 DEF FullBytes
<1>5. pr.bits = IdBits(c, g)
  <2>1. pr.bits \in [Types -> Lengths] /\ IdBits(c, g) \in [Types -> Nat]
    BY <1>1, IdIs DEF Params
  <2> QED BY <1>3, <2>1
<1>6. ReportsOf(UsageOf(pr.page, pr.usage), pr.id, pr.bits) = IdReports(c, g)
  BY <1>3, <1>5 DEF IdReports
<1>7. PICK rs, used : rs = Before(m, p.n, g) /\ used = UsedBefore(m, p.n, g)
  OBVIOUS
<1>8. /\ (IF s_new_map THEN <<>> ELSE s_temp.reports) = rs
      /\ (IF s_new_map THEN {} ELSE s_temp.mask) = used
  BY <1>7 DEF SoFar
<1>9. Collected = rs \o IdReports(c, g)
  BY <1>2, <1>6, <1>8 DEF Collected
<1>10. PICK all \in Seq(Report) : all = rs \o IdReports(c, g) /\ Len(all) <= Len(Declared(m))
  BY <1>1, <1>7, NextBefore
<1>11. Declared(m) \in Seq(Report) /\ MaxReports \in Nat
  BY DeclaredAre, ParserAssumption
<1>12. Len(all) <= MaxReports
  <2>1. PICK a, b \in Nat : a = Len(all) /\ b = Len(Declared(m))
    BY <1>10, <1>11
  <2> QED BY <1>10, <1>11, <2>1
<1>13. Fitting(all) = all
  BY <1>10, <1>11, <1>12, FittingIs
<1>14. UsageOf(s_report_params.page, s_report_params.usage) = IdUsage(c, g)
  BY <1>2, <1>3
<1> QED BY <1>4, <1>7, <1>8, <1>9, <1>10, <1>12, <1>13, <1>14 DEF Adding

\* The table after the report was added.
LEMMA AddedIs ==
    ASSUME NEW rs, NEW used, NEW u, Adding(rs, used, u),
           s_temp' = [mask |-> (IF s_new_map THEN {} ELSE s_temp.mask)
                        \cup {UsageOf(s_report_params.page, s_report_params.usage)},
                      reports |-> Fitting(Collected), live |-> TRUE],
           s_new_map' = FALSE
    PROVE  SoFar(rs, used \cup {u})'
<1>1. s_temp' = [mask |-> used \cup {u}, reports |-> rs, live |-> TRUE]
  BY DEF Adding
<1> QED BY <1>1 DEF SoFar

\* The end of a collection adds its last report.
LEMMA CloseGoes ==
    ASSUME ParseInv, NEW m, NEW p, Exact(m, p), p # End(m), p.ph = "close", Reads
    PROVE  (Proceed /\ ParserAt(m, After(m, p))') \/ Refuse("no_memory")
<1>1. /\ m \in Maps /\ WellFormed(m) /\ p \in Places(m) /\ It = PlaceItem(m, p)
      /\ Aligned(m) /\ Len(Declared(m)) <= MaxReports
  BY SoundHere DEF Exact
<1>2. PICK c, L : PlaceOf(m, p, c, L)
  BY <1>1, PlaceOfIs
<1>3. PICK q : q = After(m, p) /\ q = Pl(p.n + 1, 0, "cpage")
  BY DEF After
<1>4. PICK g \in Nat : Inside(m, p, g)
  BY DEF Exact, ParserAt, Heads
<1>5. c = m[p.n] /\ Grouped(c, p, g) /\ Measured(c, p, g)
  BY <1>2, <1>4 DEF Inside, PlaceOf
<1>6. /\ c \in Collection /\ L \in Nat /\ L = Len(c.fields) /\ L >= 1 /\ p.j = L
      /\ p.n \in 1 .. Len(m) /\ p.n \in Nat
  BY <1>2 DEF PlaceOf
<1>7. It = Item("END", 0)
  BY <1>1 DEF PlaceItem
<1>8. s_collection_depth = 1
  BY <1>4 DEF Inside, Level
<1>9. EndCollection
  BY <1>4, <1>7 DEF Reads, Inside, WaitUsagePage, WaitUsage, WaitCollection, ReportId,
                    Measure, Reading, Item
<1>10. /\ g \in 1 .. L /\ StartsId(c, g) /\ L \in IdFields(c, g)
       /\ Parts(IdSeqs(c))[L] = Parts(IdSeqs(c))[g]
  BY <1>5, <1>6 DEF Grouped, IdField
<1>11. Complete(c, g, L)
  BY <1>5, <1>6 DEF Complete, Measured, Counted
<1>12. SoFar(Before(m, p.n, g), UsedBefore(m, p.n, g))
  BY <1>4 DEF Inside, Before
<1>13. L \in 1 .. L
  BY <1>6
<1>14. PICK rs, used, u : /\ rs = Before(m, p.n, g) \o IdReports(c, g)
                          /\ used = UsedBefore(m, p.n, g) /\ u = IdUsage(c, g)
  OBVIOUS
<1>15. Adding(rs, used, u)
  BY <1>1, <1>2, <1>10, <1>11, <1>12, <1>13, <1>14, CompleteIsAdded
<1>16. FullBytes /\ Len(Collected) <= MaxReports
  BY <1>15 DEF Adding
<1>17. HandleReport(/\ s_parse_step' = "USAGE_PAGE" /\ s_collection_depth' = 0
                    /\ UNCHANGED lenVars /\ Proceed)
  BY <1>8, <1>9, <1>16 DEF EndCollection
<1>18. \/ /\ s_temp' = [mask |-> (IF s_new_map THEN {} ELSE s_temp.mask)
                      \cup {UsageOf(s_report_params.page, s_report_params.usage)},
                   reports |-> Fitting(Collected), live |-> TRUE]
          /\ s_new_map' = FALSE /\ s_parse_step' = "USAGE_PAGE" /\ Proceed
       \/ Refuse("no_memory")
  BY <1>16, <1>17 DEF HandleReport
<1>19. CASE /\ s_temp' = [mask |-> (IF s_new_map THEN {} ELSE s_temp.mask)
                      \cup {UsageOf(s_report_params.page, s_report_params.usage)},
                   reports |-> Fitting(Collected), live |-> TRUE]
            /\ s_new_map' = FALSE /\ s_parse_step' = "USAGE_PAGE" /\ Proceed
  <2>1. SoFar(rs, used \cup {u})'
    BY <1>15, <1>19, AddedIs
  <2>2. rs = Parts(DeclaredSeqs(m))[p.n]
    BY <1>1, <1>5, <1>6, <1>10, <1>13, <1>14, NextBefore
  <2>3. used \cup {u} = UsedBefore(m, p.n + 1, 1)
    <3>1. /\ p.n \in 1 .. Len(m) /\ L = Len(m[p.n].fields) /\ g \in 1 .. L
          /\ StartsId(m[p.n], g) /\ L \in IdFields(m[p.n], g)
      BY <1>5, <1>6, <1>10
    <3>2. UsedBefore(m, p.n + 1, 1) = UsedBefore(m, p.n, g) \cup {IdUsage(m[p.n], g)}
      BY <1>1, <1>6, <1>13, <3>1, NextUsed
    <3> QED BY <1>5, <1>14, <3>2
  <2>4. q.n = p.n + 1 /\ q.ph = "cpage"
    BY <1>3 DEF Pl
  <2>5. q.n - 1 = p.n
    BY <1>6, <2>4
  <2>6. SoFar(Parts(DeclaredSeqs(m))[q.n - 1], UsedBefore(m, q.n, 1))'
    BY <2>1, <2>2, <2>3, <2>4, <2>5
  <2>7. InFront(m, q)'
    BY <1>19, <2>4, <2>6 DEF InFront
  <2> QED BY <1>3, <1>19, <2>4, <2>7 DEF ParserAt, Heads
<1> QED BY <1>18, <1>19

\* An id that starts no other report.
LEMMA SameIdGoes ==
    ASSUME ParseInv, NEW m, NEW p, Exact(m, p), p # End(m), p.ph = "id", Reads,
           p.j > 1 => ~StartsId(m[p.n], p.j)
    PROVE  Proceed /\ ParserAt(m, After(m, p))'
<1>1. /\ m \in Maps /\ WellFormed(m) /\ p \in Places(m) /\ It = PlaceItem(m, p)
  BY SoundHere DEF Exact
<1>2. PICK c, L : PlaceOf(m, p, c, L)
  BY <1>1, PlaceOfIs
<1>3. PICK q : q = After(m, p) /\ q = Pl(p.n, p.j, "page")
  BY DEF After
<1>4. PICK g \in Nat : Inside(m, p, g)
  BY DEF Exact, ParserAt, Heads
<1>5. c = m[p.n] /\ Grouped(c, p, g) /\ Measured(c, p, g) /\ FieldRead(c, p)
  BY <1>2, <1>4 DEF Inside, PlaceOf
<1>6. /\ c \in Collection /\ L \in Nat /\ L = Len(c.fields) /\ p.j \in 1 .. L
  BY <1>2 DEF PlaceOf, Phases
<1>7. PICK j \in 1 .. L : j = p.j
  BY <1>6
<1>8. It.tag = "REPORT_ID" /\ It.val = c.fields[j].id
  BY <1>1, <1>2, <1>7, FieldItemIs DEF Item, Phases
<1>9. q.n = p.n /\ q.j = j /\ q.ph = "page"
  BY <1>3, <1>7 DEF Pl
<1>10. /\ IdField(q) = j /\ Counted(q) = Counted(p)
       /\ Level(m, q) = 1 /\ Level(m, p) = 1
  BY <1>7, <1>9 DEF IdField, Counted, Level
<1>11. g \in 1 .. L /\ StartsId(c, g)
  BY <1>5, <1>6 DEF Grouped
<1>12. /\ j \in IdFields(c, g) /\ Parts(IdSeqs(c))[j] = Parts(IdSeqs(c))[g]
       /\ c.fields[j].id = c.fields[g].id
  <2>1. CASE j = 1
    <3>1. IdField(p) = 1
      BY <1>7, <2>1 DEF IdField
    <3> QED BY <1>5, <2>1, <3>1 DEF Grouped
  <2>2. CASE j # 1
    <3>1. PICK i \in 1 .. L : i = j - 1 /\ i + 1 = j /\ i + 1 <= L /\ j > 1
      BY <1>6, <2>2
    <3>2. IdField(p) = i
      BY <1>7, <3>1 DEF IdField
    <3>3. ~StartsId(c, j)
      BY <1>5, <1>7, <3>1
    <3>4. c.fields[j].id = c.fields[i].id
      BY <3>1, <3>3 DEF StartsId
    <3>5. /\ i \in IdFields(c, g) /\ Parts(IdSeqs(c))[i] = Parts(IdSeqs(c))[g]
          /\ c.fields[i].id = c.fields[g].id
      BY <1>5, <3>2 DEF Grouped
    <3>6. j \in IdFields(c, g)
      <4>1. i \in 1 .. L /\ i + 1 <= L /\ ~StartsId(c, i + 1)
        BY <3>1, <3>3
      <4>2. i + 1 \in IdFields(c, g)
        BY <1>6, <1>11, <3>5, <4>1, FieldsOfId
      <4> QED BY <3>1, <4>2
    <3>7. Parts(IdSeqs(c))[j] = Parts(IdSeqs(c))[i]
      BY <1>6, <3>1, <3>3, IdPartsAre
    <3> QED BY <3>4, <3>5, <3>6, <3>7
  <2> QED BY <2>1, <2>2
<1>13. Grouped(c, q, g)
  BY <1>6, <1>10, <1>11, <1>12 DEF Grouped
<1>14. PICK pr \in Params : pr = s_report_params
  BY DEF ParseInv, StaticsType
<1>15. /\ pr.id = IF j = 1 THEN 0 ELSE c.fields[g].id
       /\ UsageOf(pr.page, pr.usage) = IdUsage(c, g)
       /\ \A t \in Types : pr.bits[t] = BitsTo(c, g, t)[Counted(p)]
  BY <1>5, <1>7, <1>14 DEF Measured
<1>16. ReportId
  BY <1>4, <1>8 DEF Reads, Inside, WaitUsagePage, WaitUsage, WaitCollection, EndCollection,
                    Measure, Reading
<1>17. s_report_params.id \in {0, It.val}
  BY <1>8, <1>12, <1>14, <1>15
<1>18. /\ s_report_params' = [pr EXCEPT !.id = c.fields[j].id] /\ Proceed
       /\ UNCHANGED <<s_parse_step, s_collection_depth, s_report_size, s_report_count, mapVars>>
  BY <1>8, <1>14, <1>16, <1>17 DEF ReportId
<1>19. /\ s_report_params'.id = c.fields[j].id /\ s_report_params'.page = pr.page
       /\ s_report_params'.usage = pr.usage /\ s_report_params'.bits = pr.bits
       /\ s_report_params'.inner_page = pr.inner_page
       /\ s_report_params'.inner_usage = pr.inner_usage
  BY <1>14, <1>18 DEF Params
<1>20. Measured(c, q, g)'
  BY <1>9, <1>10, <1>12, <1>15, <1>19 DEF Measured
<1>21. FieldRead(c, q)'
  <2>1. j > 1 => /\ pr.inner_page = c.fields[j - 1].page
                 /\ pr.inner_usage = c.fields[j - 1].usage
    BY <1>5, <1>7, <1>14 DEF FieldRead
  <2> QED BY <1>9, <1>19, <2>1 DEF FieldRead
<1>22. s_collection_depth' = Level(m, q)
  BY <1>4, <1>10, <1>18 DEF Inside
<1>23. PICK rs, used : rs = Before(m, p.n, g) /\ used = UsedBefore(m, p.n, g)
  OBVIOUS
<1>24. SoFar(rs, used)'
  BY <1>4, <1>18, <1>23, SoFarStays DEF Inside, Before
<1>25. s_new_map' => q.n = 1 /\ g = 1
  BY <1>4, <1>9, <1>18 DEF Inside, mapVars
<1>26. s_parse_step' = "END" /\ m[q.n] = c
  BY <1>4, <1>5, <1>9, <1>18 DEF Inside
<1>27. /\ Parts(DeclaredSeqs(m))[q.n - 1] \o Parts(IdSeqs(m[q.n]))[g - 1] = rs
       /\ UsedBefore(m, q.n, g) = used
  BY <1>9, <1>23 DEF Before
<1>28. Inside(m, q, g)'
  BY <1>13, <1>20, <1>21, <1>22, <1>24, <1>25, <1>26, <1>27 DEF Inside
<1> QED BY <1>3, <1>9, <1>18, <1>28 DEF ParserAt, Heads

\* The bits of the types at the field where an id starts.
LEMMA BitsBegin ==
    ASSUME NEW c \in Collection, NEW L \in Nat, L = Len(c.fields), NEW j \in 1 .. L
    PROVE  \A t \in Types : BitsTo(c, j, t)[j - 1] = 0
<1> SUFFICES ASSUME NEW t \in Types PROVE BitsTo(c, j, t)[j - 1] = 0
  OBVIOUS
<1>1. j - 1 \in 0 .. L /\ j - 1 < j
  OBVIOUS
<1> QED BY <1>1, BitsAre DEF BitsOf

\* An id that starts another report.
LEMMA NewIdGoes ==
    ASSUME ParseInv, NEW m, NEW p, Exact(m, p), p # End(m), p.ph = "id", Reads,
           p.j > 1, StartsId(m[p.n], p.j)
    PROVE  (Proceed /\ ParserAt(m, After(m, p))') \/ Refuse("no_memory")
<1>1. /\ m \in Maps /\ WellFormed(m) /\ p \in Places(m) /\ It = PlaceItem(m, p)
      /\ Aligned(m) /\ Len(Declared(m)) <= MaxReports
  BY SoundHere DEF Exact
<1>2. PICK c, L : PlaceOf(m, p, c, L)
  BY <1>1, PlaceOfIs
<1>3. PICK q : q = After(m, p) /\ q = Pl(p.n, p.j, "page")
  BY DEF After
<1>4. PICK g \in Nat : Inside(m, p, g)
  BY DEF Exact, ParserAt, Heads
<1>5. c = m[p.n] /\ Grouped(c, p, g) /\ Measured(c, p, g) /\ FieldRead(c, p)
  BY <1>2, <1>4 DEF Inside, PlaceOf
<1>6. /\ c \in Collection /\ L \in Nat /\ L = Len(c.fields) /\ p.j \in 1 .. L
      /\ p.n \in 1 .. Len(m) /\ Has(c.fields[p.j], "id")
  BY <1>2 DEF PlaceOf, Phases
<1>7. PICK j \in 1 .. L : j = p.j
  BY <1>6
<1>8. It.tag = "REPORT_ID" /\ It.val = c.fields[j].id
  BY <1>1, <1>2, <1>7, FieldItemIs DEF Item, Phases
<1>9. q.n = p.n /\ q.j = j /\ q.ph = "page"
  BY <1>3, <1>7 DEF Pl
<1>10. PICK i \in 1 .. L : i = j - 1 /\ i + 1 = j /\ j > 1 /\ j # 1
  BY <1>6, <1>7
<1>11. IdField(p) = i /\ Counted(p) = i /\ IdField(q) = j /\ Counted(q) = i
  BY <1>7, <1>9, <1>10 DEF IdField, Counted
<1>12. StartsId(c, j) /\ c.fields[j].id # c.fields[i].id
  BY <1>5, <1>7, <1>10 DEF StartsId
<1>13. /\ g \in 1 .. L /\ StartsId(c, g) /\ i \in IdFields(c, g)
       /\ Parts(IdSeqs(c))[i] = Parts(IdSeqs(c))[g] /\ c.fields[i].id = c.fields[g].id
  BY <1>5, <1>6, <1>11 DEF Grouped
<1>14. g <= i
  BY <1>6, <1>13, FieldsOfId
<1>15. j \in g + 1 .. L
  BY <1>6, <1>10, <1>13, <1>14
<1>16. c.fields[j].id # 0 /\ c.fields[g].id # 0
  <2>1. c.fields[j].id # 0
    BY <1>6, <1>7 DEF Has, IdItems
  <2> QED BY <1>2, <1>6, <1>7, <1>13, <2>1 DEF PlaceOf
<1>17. PICK pr \in Params : pr = s_report_params
  BY DEF ParseInv, StaticsType
<1>18. /\ pr.id = c.fields[g].id /\ UsageOf(pr.page, pr.usage) = IdUsage(c, g)
       /\ \A t \in Types : pr.bits[t] = BitsTo(c, g, t)[i]
  BY <1>5, <1>7, <1>10, <1>11, <1>17 DEF Measured
<1>19. Complete(c, g, L)
  <2>1. \A t : BitsTo(c, g, t)[L] = BitsTo(c, g, t)[j - 1]
    BY <1>6, <1>12, <1>13, <1>15, BitsEnd
  <2> QED BY <1>10, <1>17, <1>18, <2>1 DEF Complete
<1>20. SoFar(Before(m, p.n, g), UsedBefore(m, p.n, g))
  BY <1>4 DEF Inside, Before
<1>21. PICK rs, used, u : /\ rs = Before(m, p.n, g) \o IdReports(c, g)
                          /\ used = UsedBefore(m, p.n, g) /\ u = IdUsage(c, g)
  OBVIOUS
<1>22. Adding(rs, used, u)
  BY <1>1, <1>2, <1>13, <1>19, <1>20, <1>21, CompleteIsAdded
<1>23. FullBytes /\ Len(Collected) <= MaxReports
  BY <1>22 DEF Adding
<1>24. s_report_params.id \notin {0, It.val}
  BY <1>8, <1>12, <1>13, <1>16, <1>17, <1>18
<1>25. ReportId
  BY <1>4, <1>8 DEF Reads, Inside, WaitUsagePage, WaitUsage, WaitCollection, EndCollection,
                    Measure, Reading
<1>26. HandleReport(/\ s_report_params' = NextId
                    /\ UNCHANGED <<s_parse_step, s_collection_depth,
                                   s_report_size, s_report_count>>
                    /\ Proceed)
  BY <1>23, <1>24, <1>25 DEF ReportId
<1>27. \/ /\ s_temp' = [mask |-> (IF s_new_map THEN {} ELSE s_temp.mask)
                      \cup {UsageOf(s_report_params.page, s_report_params.usage)},
                   reports |-> Fitting(Collected), live |-> TRUE]
          /\ s_new_map' = FALSE /\ s_report_params' = NextId
          /\ UNCHANGED <<s_parse_step, s_collection_depth, s_report_size, s_report_count>>
          /\ Proceed
       \/ Refuse("no_memory")
  BY <1>23, <1>26 DEF HandleReport
<1>28. CASE /\ s_temp' = [mask |-> (IF s_new_map THEN {} ELSE s_temp.mask)
                      \cup {UsageOf(s_report_params.page, s_report_params.usage)},
                   reports |-> Fitting(Collected), live |-> TRUE]
            /\ s_new_map' = FALSE /\ s_report_params' = NextId
            /\ UNCHANGED <<s_parse_step, s_collection_depth, s_report_size, s_report_count>>
            /\ Proceed
  <2>1. SoFar(rs, used \cup {u})'
    BY <1>22, <1>28, AddedIs
  <2>2. /\ p.n \in 1 .. Len(m) /\ L = Len(m[p.n].fields) /\ g \in 1 .. L /\ c = m[p.n]
        /\ StartsId(m[p.n], g) /\ i \in IdFields(m[p.n], g)
        /\ Parts(IdSeqs(m[p.n]))[i] = Parts(IdSeqs(m[p.n]))[g]
    BY <1>5, <1>6, <1>13
  <2>3. Before(m, p.n, i + 1) = Before(m, p.n, g) \o IdReports(m[p.n], g)
    BY <1>1, <1>6, <1>10, <2>2, NextBefore
  <2>4. UsedBefore(m, p.n, i + 1) = UsedBefore(m, p.n, g) \cup {IdUsage(m[p.n], g)}
    <3>1. /\ p.n \in 1 .. Len(m) /\ L \in Nat /\ i \in 1 .. L /\ L = Len(m[p.n].fields)
          /\ g \in 1 .. L /\ StartsId(m[p.n], g) /\ i \in IdFields(m[p.n], g)
      BY <1>6, <1>10, <2>2
    <3> QED BY <1>1, <3>1, NextUsed
  <2>5. /\ Parts(DeclaredSeqs(m))[q.n - 1] \o Parts(IdSeqs(m[q.n]))[j - 1] = rs
        /\ UsedBefore(m, q.n, j) = used \cup {u}
    BY <1>9, <1>10, <1>21, <2>2, <2>3, <2>4 DEF Before
  <2>6. Grouped(c, q, j)
    BY <1>6, <1>11, <1>12, FieldsOfId DEF Grouped
  <2>7. /\ s_report_params'.id = c.fields[j].id /\ s_report_params'.bits = NoBits
        /\ s_report_params'.page = pr.inner_page /\ s_report_params'.usage = pr.inner_usage
        /\ s_report_params'.inner_page = pr.inner_page
        /\ s_report_params'.inner_usage = pr.inner_usage
    <3>1. s_report_params' = [pr EXCEPT !.bits = NoBits, !.usage = pr.inner_usage,
                                        !.page = pr.inner_page, !.id = c.fields[j].id]
      BY <1>8, <1>17, <1>28 DEF NextId
    <3> QED BY <3>1 DEF Params
  <2>8. pr.inner_page = c.fields[i].page /\ pr.inner_usage = c.fields[i].usage
    BY <1>5, <1>7, <1>10, <1>17 DEF FieldRead
  <2>9. UsageOf(s_report_params'.page, s_report_params'.usage) = IdUsage(c, j)
    BY <1>10, <2>7, <2>8 DEF IdUsage
  <2>10. \A t \in Types : s_report_params'.bits[t] = BitsTo(c, j, t)[i]
    BY <1>6, <1>10, <2>7, BitsBegin DEF NoBits
  <2>11. Measured(c, q, j)'
    BY <1>9, <1>11, <2>7, <2>9, <2>10 DEF Measured
  <2>12. FieldRead(c, q)'
    BY <1>9, <1>10, <2>7, <2>8 DEF FieldRead
  <2>13. s_collection_depth' = Level(m, q) /\ s_parse_step' = "END" /\ m[q.n] = c
    BY <1>4, <1>5, <1>9, <1>28 DEF Inside, Level
  <2>14. Inside(m, q, j)'
    BY <1>28, <2>1, <2>5, <2>6, <2>11, <2>12, <2>13 DEF Inside
  <2> QED BY <1>3, <1>7, <1>9, <1>28, <2>14 DEF ParserAt, Heads
<1> QED BY <1>27, <1>28

\* A sound map is read item by item to its end, unless there is no memory.
LEMMA ExactGoes ==
    ASSUME ParseInv, NEW m, NEW p, Exact(m, p), p # End(m), Reads
    PROVE  (Proceed /\ ParserAt(m, After(m, p))') \/ Refuse("no_memory")
<1>1. m \in Maps /\ WellFormed(m) /\ p \in Places(m)
  BY SoundHere DEF Exact
<1>2. PICK c, L : PlaceOf(m, p, c, L)
  BY <1>1, PlaceOfIs
<1>3. p.ph \in Phases \cup Heads \cup {"close"}
  BY <1>2 DEF PlaceOf
<1>4. CASE p.ph = "id"
  BY <1>4, SameIdGoes, NewIdGoes
<1>5. CASE p.ph \in Quiet
  BY <1>5, QuietGoes
<1>6. CASE p.ph \in {"cpage", "cusage", "copen", "close", "main", "unnest"}
  BY <1>6, PageGoes, UsageGoes, OpenGoes, CloseGoes, MainGoes, UnnestGoes
<1> QED BY <1>3, <1>4, <1>5, <1>6 DEF Phases, Heads, Quiet

\* A descriptor that is to be understood exactly, from its first item on.
Understood(k) == results[k].fresh /\ Sound(device[k])

\* A parse that starts in the first step is at the first place.
LEMMA ExactStarts ==
    ASSUME ParseInv, Parse, pc' = "parse"
    PROVE  ExactInv'
<1>1. /\ device \in Seq(Service) /\ d \in 1 .. Len(device) /\ device' = device /\ d' = d
      /\ results \in Seq(Result) /\ Len(results) = d - 1
      /\ index' = 1 /\ s_new_map' = TRUE /\ s_parse_step' = s_parse_step
  BY DEF ParseInv, CallerType, Parse
<1>2. PICK fresh : fresh = (s_parse_step = "USAGE_PAGE")
  OBVIOUS
<1>3. results' = Append(results, [how |-> "none", reports |-> <<>>, usage |-> "none",
                                  fresh |-> fresh])
  BY <1>2 DEF Parse
<1>4. results'[d].fresh = fresh
  <2>1. PICK e \in Nat : e = d /\ Len(results) + 1 = e
    BY <1>1
  <2> QED BY <1>1, <1>3, <2>1
<1>5. SUFFICES ASSUME results'[d].fresh, Sound(device[d])
               PROVE  \E p : Here(p)' /\ ParserAt(device[d].map, p)'
  BY <1>1 DEF ExactInv
<1>6. s_parse_step' = "USAGE_PAGE"
  BY <1>1, <1>2, <1>4, <1>5
<1>7. PICK m \in Maps : m = device[d].map
  <2>1. device[d] \in Service
    BY <1>1
  <2> QED BY <2>1, DescriptorIs
<1>8. PICK p : p = Pl(1, 0, "cpage")
  OBVIOUS
<1>9. p.n = 1 /\ p.ph = "cpage"
  BY <1>8 DEF Pl
<1>10. p \in Places(m) /\ PlaceAt(m, p) = 1
  BY <1>7, <1>8, MapEnds
<1>11. Here(p)'
  BY <1>1, <1>7, <1>10 DEF Here
<1>12. Parts(DeclaredSeqs(m))[p.n - 1] = <<>> /\ UsedBefore(m, p.n, 1) = {}
  <2>1. Len(m) \in Nat /\ 1 - 1 = 0
    BY <1>7 DEF Maps
  <2> QED BY <1>7, <1>9, <2>1, MapPartsAre, UsedIs
<1>13. SoFar(<<>>, {})'
  BY <1>1 DEF SoFar
<1>14. InFront(m, p)'
  BY <1>6, <1>9, <1>12, <1>13 DEF InFront
<1>15. ParserAt(m, p)'
  BY <1>9, <1>14 DEF ParserAt, Heads
<1> QED BY <1>1, <1>7, <1>11, <1>15

\* An item is read inside the descriptor.
LEMMA ReadsInside ==
    ASSUME Reads
    PROVE  pc = "parse" /\ index <= Len(desc) /\ It.tag # "short"
<1>1. PICK step : Reading(step)
  <2>1. CASE WaitUsagePage \/ WaitUsage \/ WaitCollection
    BY <2>1 DEF WaitUsagePage, WaitUsage, WaitCollection
  <2>2. CASE Measure
    BY <2>2 DEF Measure
  <2>3. CASE ReportId
    BY <2>3 DEF ReportId
  <2>4. CASE EndCollection
    BY <2>4 DEF EndCollection
  <2> QED BY <2>1, <2>2, <2>3, <2>4 DEF Reads
<1> QED BY <1>1 DEF Reading

\* An item that is read leads to the next place.
LEMMA ExactReads ==
    ASSUME ParseInv, ExactInv, Reads, pc' = "parse"
    PROVE  ExactInv'
<1>1. pc = "parse" /\ index <= Len(desc) /\ It.tag # "short"
  BY ReadsInside
<1>2. Proceed
  <2>1. ~Refuse("refused") /\ ~Refuse("no_memory")
    BY DEF Refuse, GiveUp
  <2>2. CASE WaitUsagePage
    BY <2>1, <2>2 DEF WaitUsagePage
  <2>3. CASE WaitUsage
    BY <2>1, <2>3 DEF WaitUsage
  <2>4. CASE WaitCollection
    BY <2>1, <2>4 DEF WaitCollection
  <2>5. CASE Measure
    BY <2>5 DEF Measure
  <2>6. CASE ReportId
    BY <2>1, <2>6 DEF ReportId, HandleReport
  <2>7. CASE EndCollection
    BY <2>1, <2>7 DEF EndCollection, HandleReport
  <2> QED BY <2>2, <2>3, <2>4, <2>5, <2>6, <2>7 DEF Reads
<1>3. device' = device /\ d' = d /\ results' = results /\ index' = index + 1
  BY <1>2 DEF Proceed, callVars
<1>4. SUFFICES ASSUME results[d].fresh, Sound(device[d])
               PROVE  \E p : Here(p)' /\ ParserAt(device[d].map, p)'
  BY <1>3 DEF ExactInv
<1>5. PICK m : m = device[d].map
  OBVIOUS
<1>6. PICK p : Here(p) /\ ParserAt(m, p)
  BY <1>1, <1>4, <1>5 DEF ExactInv
<1>7. Exact(m, p)
  BY <1>1, <1>4, <1>5, <1>6 DEF Exact
<1>8. p # End(m)
  BY <1>1, <1>4, <1>5, <1>6, SoundHere
<1>9. ParserAt(m, After(m, p))'
  <2>1. ~Refuse("no_memory")
    BY DEF Refuse, GiveUp
  <2> QED BY <1>7, <1>8, <2>1, ExactGoes
<1>10. After(m, p) \in Places(m) /\ index + 1 = PlaceAt(m, After(m, p))
  BY <1>1, <1>5, <1>6, ReadIs
<1>11. Here(After(m, p))'
  BY <1>3, <1>5, <1>10 DEF Here
<1> QED BY <1>3, <1>5, <1>9, <1>11

\* A step that changes nothing leaves the parser at its place.
LEMMA ExactRests ==
    ASSUME ExactInv, UNCHANGED vars
    PROVE  ExactInv'
<1>1. UNCHANGED <<s_parse_step, s_collection_depth, s_report_params, s_report_size,
                  s_report_count, s_new_map, s_temp, index, device, d, pc, results>>
  BY DEF vars, statics, lenVars, mapVars, callVars
<1>2. SUFFICES ASSUME pc = "parse", results[d].fresh, Sound(device[d])
               PROVE  \E p : Here(p)' /\ ParserAt(device[d].map, p)'
  BY <1>1 DEF ExactInv
<1>3. PICK m, p : m = device[d].map /\ Here(p) /\ ParserAt(m, p)
  BY <1>2 DEF ExactInv
<1>4. Here(p)'
  BY <1>1, <1>3 DEF Here
<1>5. ASSUME NEW rs, NEW used, SoFar(rs, used)
      PROVE  SoFar(rs, used)'
  BY <1>1, <1>5 DEF SoFar
<1>6. ASSUME p.ph \in Heads
      PROVE  ParserAt(m, p)'
  <2>1. InFront(m, p)
    BY <1>3, <1>6 DEF ParserAt
  <2>2. InFront(m, p)'
    BY <1>1, <1>5, <2>1 DEF InFront
  <2> QED BY <1>6, <2>2 DEF ParserAt
<1>7. ASSUME p.ph \notin Heads
      PROVE  ParserAt(m, p)'
  <2>1. PICK g \in Nat : Inside(m, p, g)
    BY <1>3, <1>7 DEF ParserAt
  <2>2. Measured(m[p.n], p, g)' /\ FieldRead(m[p.n], p)'
    BY <1>1, <2>1 DEF Inside, Measured, FieldRead
  <2>3. Inside(m, p, g)'
    BY <1>1, <1>5, <2>1, <2>2 DEF Inside
  <2> QED BY <1>7, <2>3 DEF ParserAt
<1> QED BY <1>1, <1>3, <1>4, <1>6, <1>7

\* So the parser is at a place of every descriptor that it understands.
LEMMA ExactInvStays ==
    ASSUME ParseInv, ExactInv, [Next]_vars
    PROVE  ExactInv'
<1>1. SUFFICES ASSUME pc' = "parse"
               PROVE  ExactInv'
  BY DEF ExactInv
<1>2. CASE UNCHANGED vars
  BY <1>2, ExactRests
<1>3. CASE Parse
  BY <1>1, <1>3, ExactStarts
<1>4. CASE Reads
  BY <1>1, <1>4, ExactReads
<1>5. ~(\E dev \in Devices : Open(dev)) /\ ~DeviceDone /\ ~Reboot /\ ~ParseCmdFails /\ ~ParseEnd
  <2>1. ~(\E dev \in Devices : Open(dev)) /\ ~DeviceDone /\ ~Reboot
    BY <1>1 DEF Open, DeviceDone, Reboot
  <2>2. ~ParseCmdFails
    BY <1>1 DEF ParseCmdFails, GiveUp
  <2>3. ~ParseEnd
    BY <1>1 DEF ParseEnd, GiveUp
  <2> QED BY <2>1, <2>2, <2>3
<1> QED BY <1>2, <1>3, <1>4, <1>5 DEF Next, Parser, Reads

\* Where the descriptor ends, all that it declares was collected.
LEMMA EndIs ==
    ASSUME ParseInv, ExactInv, pc = "parse", Understood(d), index > Len(desc)
    PROVE  /\ s_temp.live /\ s_temp.reports = Declared(device[d].map)
           /\ s_temp.mask = Usages(device[d].map)
<1>1. PICK m : m = device[d].map
  OBVIOUS
<1>2. PICK p : Here(p) /\ ParserAt(m, p)
  BY <1>1 DEF ExactInv, Understood
<1>3. m \in Maps /\ m # <<>> /\ p = End(m)
  BY <1>1, <1>2, SoundHere DEF Understood
<1>4. PICK N \in Nat : N = Len(m) /\ N # 0
  BY <1>3 DEF Maps
<1>5. p.n = N + 1 /\ p.ph = "cpage" /\ p.n - 1 = N /\ p.n # 1
  BY <1>3, <1>4 DEF End, Pl
<1>6. InFront(m, p)
  BY <1>2, <1>5 DEF ParserAt, Heads
<1>7. /\ Parts(DeclaredSeqs(m))[p.n - 1] = Declared(m)
      /\ UsedBefore(m, p.n, 1) = Usages(m)
  BY <1>3, <1>4, <1>5, MapPartsAre, UsedIs
<1>8. ~s_new_map /\ SoFar(Declared(m), Usages(m))
  BY <1>5, <1>6, <1>7 DEF InFront
<1> QED BY <1>1, <1>8 DEF SoFar

\* Such a descriptor is not refused, and its end is not a crash.
LEMMA UnderstoodEnds ==
    ASSUME ParseInv, ExactInv, pc = "parse", Understood(d), [Next]_vars
    PROVE  /\ Given => GiveUp("no_memory")
           /\ pc' # "crashed"
<1>1. CASE UNCHANGED vars
  BY <1>1 DEF vars, callVars, Given, GiveUp
<1>2. CASE (\E dev \in Devices : Open(dev)) \/ Parse \/ DeviceDone \/ Reboot
  BY <1>2 DEF Open, Parse, DeviceDone, Reboot
<1>3. PICK m : m = device[d].map
  OBVIOUS
<1>4. PICK p : Here(p) /\ ParserAt(m, p)
  BY <1>3 DEF ExactInv, Understood
<1>5. index <= Len(desc) => It.tag # "short" /\ p # End(m)
  BY <1>3, <1>4, SoundHere DEF Understood
<1>6. CASE ParseCmdFails
  BY <1>5, <1>6 DEF ParseCmdFails, GiveUp
<1>7. CASE Reads
  <2>1. index <= Len(desc)
    BY <1>7, ReadsInside
  <2>2. Proceed \/ Refuse("no_memory")
    BY <1>3, <1>4, <1>5, <1>7, <2>1, ExactGoes DEF Exact, Understood
  <2> QED BY <2>2 DEF Proceed, callVars, Refuse, Given, GiveUp
<1>8. CASE ParseEnd
  <2>1. index > Len(desc)
    BY <1>8 DEF ParseEnd
  <2>2. s_temp.live
    BY <2>1, EndIs
  <2>3. GiveUp("no_memory") \/ (pc' = "service" /\ results' = [results EXCEPT ![d] =
                [@ EXCEPT !.how = "map", !.usage = Dominant(s_temp.mask),
                          !.reports = s_temp.reports]])
    BY <1>8, <2>2 DEF ParseEnd
  <2>4. ASSUME GiveUp("refused"), ~GiveUp("no_memory")
        PROVE  FALSE
    <3>1. PICK e : e = d /\ e \in DOMAIN results
      BY DEF ParseInv, CallerType
    <3>2. results' = [results EXCEPT ![e].how = "refused"]
      BY <2>4, <3>1 DEF GiveUp
    <3>3. results[e] \in Result
      BY <3>1 DEF ParseInv, CallerType
    <3>4. results'[e].how = "refused"
      BY <3>1, <3>2, <3>3 DEF Result
    <3>5. results'[e].how = "map"
      BY <2>3, <2>4, <3>1, <3>3 DEF Result
    <3> QED BY <3>4, <3>5
  <2> QED BY <2>3, <2>4 DEF Given, GiveUp
<1> QED BY <1>1, <1>2, <1>6, <1>7, <1>8 DEF Next, Parser, Reads

-----------------------------------------------------------------------------
(* The results of the parses, and the reports that they complete.          *)

\* What is said of descriptor k by ParsedExact.
Exactly(k) ==
    Understood(k) /\ results[k].how # "no_memory" =>
        /\ results[k].how = "map"
        /\ results[k].reports = Declared(device[k].map)
        /\ results[k].usage = Dominant(Usages(device[k].map))

\* It holds of the descriptors that were parsed, if the device has reports.
LEMMA ParsedIs ==
    ASSUME ParseInv, ParsedExact, rpts # <<>>, NEW k \in 1 .. d - 1
    PROVE  Exactly(k)
<1>1. k \in DOMAIN results /\ k < d
  BY DEF ParseInv, CallerType
<1> QED BY <1>1 DEF ParsedExact, Exactly, Understood

\* So the next state is right where all of them are and there was no crash.
LEMMA IsParsed ==
    ASSUME ParseInv', rpts' # <<>> => \A k \in 1 .. d' - 1 : Exactly(k)',
           pc' = "crashed" /\ rpts' # <<>> => Exactly(d)'
    PROVE  ParsedExact'
<1>0. /\ device' \in Seq(Service) /\ d' \in 1 .. Len(device') + 1 /\ results' \in Seq(Result)
      /\ Len(results') = IF pc' \in {"parse", "crashed"} THEN d' ELSE d' - 1
  BY DEF ParseInv, CallerType
<1>1. PICK e \in Nat, l \in Nat : e = d' /\ l = Len(results') /\ l <= e
                                /\ DOMAIN results' = 1 .. l
  <2>1. PICK e \in Nat : e = d' /\ e >= 1
    BY <1>0
  <2>2. PICK rs \in Seq(Result) : rs = results'
    BY <1>0
  <2>3. PICK l \in Nat : l = Len(rs) /\ DOMAIN rs = 1 .. l
    BY <2>2
  <2>4. l = e \/ l = e - 1
    BY <1>0, <2>1, <2>2, <2>3
  <2>5. l <= e
    <3>1. \A x, y \in Nat : x = y \/ x = y - 1 => x <= y
      OBVIOUS
    <3>2. l \in Nat /\ e \in Nat
      BY <2>1, <2>3
    <3> QED BY <2>4, <3>1, <3>2
  <2> QED BY <2>1, <2>2, <2>3, <2>5
<1>2. SUFFICES ASSUME NEW k \in DOMAIN results', results'[k].fresh, Sound(device'[k]),
                      rpts' # <<>>, k < d' \/ pc' = "crashed", results'[k].how # "no_memory"
               PROVE  /\ results'[k].how = "map"
                      /\ results'[k].reports = Declared(device'[k].map)
                      /\ results'[k].usage = Dominant(Usages(device'[k].map))
  BY DEF ParsedExact
<1>3. k \in 1 .. e - 1 \/ k = e
  BY <1>1, <1>2
<1>4. Exactly(k)'
  <2>1. k = d' => pc' = "crashed"
    BY <1>1, <1>2, <1>3
  <2>2. CASE k \in 1 .. e - 1
    BY <1>1, <1>2, <2>2
  <2>3. CASE k = e
    <3>1. Exactly(d)'
      BY <1>1, <1>2, <2>1, <2>3
    <3> QED BY <1>1, <2>3, <3>1 DEF Exactly, Understood
  <2> QED BY <1>3, <2>2, <2>3
<1> QED BY <1>2, <1>4 DEF Exactly, Understood

\* A crash happens with descriptors that are not understood.
LEMMA CrashedIs ==
    ASSUME ParseInv, ParsedExact, pc = "crashed", rpts # <<>>
    PROVE  Exactly(d)
<1>1. d \in DOMAIN results
  BY DEF ParseInv, CallerType
<1> QED BY <1>1 DEF ParsedExact, Exactly, Understood

\* Results that stay, of a device that stays.
LEMMA ExactlyStays ==
    ASSUME NEW k, Exactly(k), device' = device, results'[k] = results[k]
    PROVE  Exactly(k)'
BY DEF Exactly, Understood

\* Only a parse crashes.
LEMMA CrashesParsing ==
    ASSUME [Next]_vars, pc \notin {"parse", "crashed"}
    PROVE  pc' # "crashed"
<1>1. ~Reads /\ ~ParseCmdFails /\ ~ParseEnd
  BY ReadsInside DEF ParseCmdFails, ParseEnd
<1>2. CASE UNCHANGED vars
  BY <1>2 DEF vars, callVars
<1>3. CASE (\E dev \in Devices : Open(dev)) \/ Parse \/ DeviceDone \/ Reboot
  BY <1>3 DEF Open, Parse, DeviceDone, Reboot
<1> QED BY <1>1, <1>2, <1>3 DEF Next, Parser, Reads

\* A step that leaves the caller where it is.
LEMMA StillParsed ==
    ASSUME ParseInv, ParseInv', ExactInv, ParsedExact, [Next]_vars, Still
    PROVE  ParsedExact'
<1>1. device' = device /\ results' = results /\ d' = d /\ rpts' = rpts
  BY DEF Still
<1>2. ASSUME rpts # <<>>, NEW k \in 1 .. d - 1
      PROVE  Exactly(k)'
  BY <1>1, <1>2, ParsedIs, ExactlyStays
<1>3. ASSUME rpts # <<>>, pc' = "crashed"
      PROVE  Exactly(d)'
  <2>1. CASE pc = "crashed"
    BY <1>1, <1>3, <2>1, CrashedIs, ExactlyStays
  <2>2. CASE pc = "parse"
    <3>1. ~Understood(d)
      BY <1>3, <2>2, UnderstoodEnds
    <3> QED BY <1>1, <3>1 DEF Exactly, Understood
  <2>3. CASE pc \notin {"parse", "crashed"}
    BY <1>3, <2>3, CrashesParsing
  <2> QED BY <2>1, <2>2, <2>3
<1> QED BY <1>1, <1>2, <1>3, IsParsed

\* A descriptor that is given up.
LEMMA GivenParsed ==
    ASSUME ParseInv, ParseInv', ExactInv, ParsedExact, [Next]_vars, Given
    PROVE  ParsedExact'
<1>1. PICK e \in Nat : e = d /\ e \in DOMAIN results /\ results \in Seq(Result)
  BY DEF ParseInv, CallerType, Given
<1>2. PICK how : GiveUp(how) /\ how \in {"refused", "no_memory"}
  BY DEF Given
<1>3. /\ device' = device /\ d' = e + 1 /\ rpts' = rpts /\ pc' = "service"
      /\ results' = [results EXCEPT ![e].how = how]
  BY <1>1, <1>2 DEF GiveUp
<1>4. ASSUME rpts # <<>>, NEW k \in 1 .. e - 1
      PROVE  Exactly(k)'
  <2>1. Exactly(k) /\ results'[k] = results[k]
    BY <1>1, <1>3, <1>4, ParsedIs
  <2> QED BY <1>3, <2>1, ExactlyStays
<1>5. Exactly(e)'
  <2>0. PICK r \in Result : r = results[e]
    BY <1>1
  <2>1. /\ results'[e].how = how /\ results'[e].fresh = results[e].fresh
    <3>1. results'[e] = [r EXCEPT !.how = how]
      BY <1>1, <1>3, <2>0
    <3> QED BY <2>0, <3>1 DEF Result
  <2>2. CASE Understood(e)
    <3>1. GiveUp("no_memory")
      BY <1>1, <2>2, UnderstoodEnds DEF Given
    <3>2. results' = [results EXCEPT ![e].how = "no_memory"]
      BY <1>1, <3>1 DEF GiveUp
    <3>3. results'[e].how = "no_memory"
      <4>1. results'[e] = [r EXCEPT !.how = "no_memory"]
        BY <1>1, <2>0, <3>2
      <4> QED BY <4>1 DEF Result
    <3> QED BY <3>3 DEF Exactly
  <2>3. CASE ~Understood(e)
    BY <1>3, <2>1, <2>3 DEF Exactly, Understood
  <2> QED BY <2>2, <2>3
<1>6. ASSUME rpts' # <<>>, NEW k \in 1 .. d' - 1
      PROVE  Exactly(k)'
  <2>1. k \in 1 .. e - 1 \/ k = e
    BY <1>1, <1>3, <1>6
  <2> QED BY <1>3, <1>4, <1>5, <1>6, <2>1
<1> QED BY <1>3, <1>6, IsParsed

\* A descriptor whose map the caller takes.
LEMMA MappedParsed ==
    ASSUME ParseInv, ParseInv', ExactInv, ParsedExact, Mapped
    PROVE  ParsedExact'
<1>1. PICK e \in Nat : e = d /\ e \in DOMAIN results /\ results \in Seq(Result)
  BY DEF ParseInv, CallerType, Mapped
<1>2. PICK r \in Result : r = results[e]
  BY <1>1
<1>3. PICK temp : temp = s_temp
  OBVIOUS
<1>4. /\ device' = device /\ d' = e + 1 /\ pc' = "service"
      /\ results' = [results EXCEPT ![e] = [r EXCEPT !.how = "map",
                        !.usage = Dominant(temp.mask), !.reports = temp.reports]]
  BY <1>1, <1>2, <1>3 DEF Mapped
<1>5. rpts' # <<>> => rpts # <<>>
  <2>1. DOMAIN rpts' = DOMAIN rpts
    BY DEF Mapped, Matched
  <2>2. rpts \in Seq(RptRec) /\ rpts' \in Seq(RptRec)
    BY DEF ParseInv, CallerType
  <2> QED BY <2>1, <2>2
<1>6. ASSUME rpts # <<>>, NEW k \in 1 .. e - 1
      PROVE  Exactly(k)'
  <2>1. Exactly(k) /\ results'[k] = results[k]
    BY <1>1, <1>4, <1>6, ParsedIs
  <2> QED BY <1>4, <2>1, ExactlyStays
<1>7. Exactly(e)'
  <2>1. results'[e] = [r EXCEPT !.how = "map", !.usage = Dominant(temp.mask),
                                !.reports = temp.reports]
    BY <1>1, <1>4
  <2>2. /\ results'[e].how = "map" /\ results'[e].fresh = r.fresh
        /\ results'[e].usage = Dominant(temp.mask) /\ results'[e].reports = temp.reports
    BY <2>1 DEF Result
  <2>3. SUFFICES ASSUME Understood(e)
                 PROVE  temp.reports = Declared(device[e].map) /\ temp.mask = Usages(device[e].map)
    BY <1>2, <1>4, <2>2 DEF Exactly, Understood
  <2> QED BY <1>1, <1>3, <2>3, EndIs DEF Mapped
<1>8. ASSUME rpts' # <<>>, NEW k \in 1 .. d' - 1
      PROVE  Exactly(k)'
  <2>1. k \in 1 .. e - 1 \/ k = e
    BY <1>1, <1>4, <1>8
  <2> QED BY <1>5, <1>6, <1>7, <1>8, <2>1
<1> QED BY <1>4, <1>8, IsParsed

\* A parse that starts, or a descriptor that is not parsed.
LEMMA StartParsed ==
    ASSUME ParseInv, ParseInv', ParsedExact, Parse
    PROVE  ParsedExact'
<1>1. /\ device \in Seq(Service) /\ d \in 1 .. Len(device) /\ device' = device
      /\ results \in Seq(Result) /\ Len(results) = d - 1 /\ rpts' = rpts /\ pc' # "crashed"
      /\ d' \in {d, d + 1}
  BY DEF ParseInv, CallerType, Parse
<1>2. PICK e \in Nat : e = d /\ e \in 1 .. Len(device)
  BY <1>1
<1>3. PICK r : results' = Append(results, r)
  BY DEF Parse
<1>4. ASSUME rpts # <<>>, NEW k \in 1 .. e - 1
      PROVE  Exactly(k)'
  <2>1. results'[k] = results[k]
    BY <1>1, <1>2, <1>3, <1>4
  <2>2. Exactly(k)
    BY <1>2, <1>4, ParsedIs
  <2> QED BY <1>1, <2>1, <2>2, ExactlyStays
<1>5. ASSUME rpts # <<>>, d' = e + 1
      PROVE  Exactly(e)'
  <2>1. Descriptor(device[e]) = <<>>
    BY <1>2, <1>5 DEF Parse
  <2>2. PICK s \in Service : s = device[e]
    BY <1>1, <1>2
  <2>3. SUFFICES ASSUME Sound(s)
                 PROVE  FALSE
    BY <1>1, <2>2 DEF Exactly, Understood
  <2>4. s.map \in Maps /\ s.map # <<>> /\ Descriptor(s) = MapItems(s.map)
    BY <2>3, DescriptorIs DEF Sound
  <2>5. Pl(1, 0, "cpage") # End(s.map)
    <3>1. Len(s.map) \in Nat /\ Len(s.map) # 0
      BY <2>4 DEF Maps
    <3>2. Pl(1, 0, "cpage").n = 1 /\ End(s.map).n = Len(s.map) + 1
      BY DEF Pl, End
    <3> QED BY <3>1, <3>2
  <2>6. 1 \in 1 .. Len(MapItems(s.map))
    BY <2>4, <2>5, MapEnds, PlaceIs
  <2>7. Len(<<>>) = 0 /\ Len(MapItems(s.map)) # 0
    BY <2>6
  <2> QED BY <2>1, <2>2, <2>4, <2>7
<1>6. ASSUME rpts' # <<>>, NEW k \in 1 .. d' - 1
      PROVE  Exactly(k)'
  <2>1. CASE d' = e
    BY <1>1, <1>4, <1>6, <2>1
  <2>2. CASE d' = e + 1
    <3>1. k \in 1 .. e - 1 \/ k = e
      BY <1>2, <1>6, <2>2
    <3> QED BY <1>1, <1>4, <1>5, <1>6, <2>2, <3>1
  <2> QED BY <1>1, <1>2, <2>1, <2>2
<1> QED BY <1>1, <1>6, IsParsed

\* Every step keeps the results exact.
LEMMA ParsedExactStays ==
    ASSUME ParseInv, ExactInv, ParsedExact, [Next]_vars
    PROVE  ParsedExact'
<1>1. ParseInv'
  BY ParseInvStays
<1>2. ASSUME Reboot \/ \E dev \in Devices : Open(dev)
      PROVE  ParsedExact'
  <2>1. results' = <<>>
    BY <1>2 DEF Reboot, Open
  <2> QED BY <2>1 DEF ParsedExact
<1> QED BY <1>1, <1>2, CallerStep, StillParsed, GivenParsed, MappedParsed, StartParsed

\* The invariants of the whole.
MapInv == ParseInv /\ ListInv /\ ExactInv /\ ParsedExact

\* At the start nothing was parsed.
LEMMA InitMapInv ==
    ASSUME Init
    PROVE  MapInv
<1>1. pc = "idle" /\ results = <<>>
  BY DEF Init
<1>2. ExactInv /\ ParsedExact
  BY <1>1 DEF ExactInv, ParsedExact
<1> QED BY <1>2, InitParse, InitList, ParserAssumption DEF MapInv

\* Every step keeps them.
LEMMA MapInvStays ==
    ASSUME MapInv, [Next]_vars
    PROVE  MapInv'
BY ParseInvStays, ListInvStays, ExactInvStays, ParsedExactStays DEF MapInv

\* A descriptor that arrives whole is understood exactly (esp_hid_parse_report_map),
\* whatever was parsed before it.
THEOREM ParsedExactly == Spec => []ParsedExact
<1>1. Init => MapInv
  BY InitMapInv
<1>2. MapInv /\ [Next]_vars => MapInv'
  BY MapInvStays
<1>3. MapInv => ParsedExact
  BY DEF MapInv
<1> QED BY <1>1, <1>2, <1>3, PTL DEF Spec

\* One declaration and a report as discovery left it: the one about it completes
\* it, another one leaves it.
LEMMA MatchOne ==
    ASSUME NEW r \in RptRec, NEW it \in Report
    PROVE  /\ Means(r, it) => Match(r, it) = Completed(r.map, it)
           /\ ~Means(r, it) /\ ~PassesFor(r, it) => Match(r, it) = r
<1>1. r.proto \in {"REPORT", "BOOT"} /\ it.proto \in {"REPORT", "BOOT"}
  BY DEF Report, RptRec
<1>2. it.id \in Nat /\ it.len \in Nat /\ it.usage \in UsageNames /\ it.type \in Types
  BY DEF Report
<1>3. Completed(r.map, it) \in RptRec
  BY <1>1, <1>2 DEF Completed, RptRec
<1>4. ASSUME Means(r, it), r.proto = "BOOT"
      PROVE  Match(r, it) = Completed(r.map, it)
  <2>1. PICK y : y = [r EXCEPT !.id = it.id, !.len = it.len]
    OBVIOUS
  <2>2. Match(r, it) = y
    BY <1>4, <2>1 DEF Match, Means
  <2>3. /\ y \in RptRec /\ y.map = r.map /\ y.proto = it.proto /\ y.type = it.type
        /\ y.id = it.id /\ y.usage = it.usage /\ y.len = it.len
    BY <1>2, <1>4, <2>1 DEF Means, RptRec
  <2>4. y = Completed(r.map, it)
    BY <1>3, <2>3 DEF Completed, RptRec
  <2> QED BY <2>2, <2>4
<1>5. ASSUME Means(r, it), r.proto = "REPORT"
      PROVE  Match(r, it) = Completed(r.map, it)
  <2>1. PICK y : y = [r EXCEPT !.usage = it.usage, !.len = it.len]
    OBVIOUS
  <2>2. Match(r, it) = y
    BY <1>5, <2>1 DEF Match, Means
  <2>3. /\ y \in RptRec /\ y.map = r.map /\ y.proto = it.proto /\ y.type = it.type
        /\ y.id = it.id /\ y.usage = it.usage /\ y.len = it.len
    BY <1>2, <1>5, <2>1 DEF Means, RptRec
  <2>4. y = Completed(r.map, it)
    BY <1>3, <2>3 DEF Completed, RptRec
  <2> QED BY <2>2, <2>4
<1>6. ASSUME ~Means(r, it), ~PassesFor(r, it)
      PROVE  Match(r, it) = r
  BY <1>1, <1>6 DEF Means, PassesFor, Match
<1> QED BY <1>1, <1>4, <1>5, <1>6

\* Two declarations of a map that can be told apart.
Apart(x, y) == ~(/\ x.proto = y.proto /\ x.type = y.type
                 /\ x.id = y.id \/ (x.proto = "BOOT" /\ x.usage = y.usage))

\* Another declaration leaves a report that was completed.
LEMMA MatchOther ==
    ASSUME NEW k \in Nat, NEW x \in Report, NEW it \in Report, Apart(x, it)
    PROVE  Match(Completed(k, x), it) = Completed(k, x)
<1>1. PICK e : e = Completed(k, x)
  OBVIOUS
<1>2. e.proto = x.proto /\ e.type = x.type /\ e.id = x.id /\ e.usage = x.usage
  BY <1>1 DEF Completed
<1>3. Match(e, it) = e
  BY <1>2 DEF Match, Apart
<1> QED BY <1>1, <1>3

\* No declaration of the map is about the report.
LEMMA Undeclared ==
    ASSUME NEW r \in RptRec, NEW rs \in Seq(Report),
           \A n \in DOMAIN rs : ~Means(r, rs[n]) /\ ~PassesFor(r, rs[n])
    PROVE  MatchAll(r, rs) = r
<1>0. PICK L \in Nat : L = Len(rs) /\ DOMAIN rs = 1 .. L /\ \A n \in 1 .. L : rs[n] \in Report
  OBVIOUS
<1>1. PICK f : AreSteps(f, r, rs, L)
  BY <1>0, MatchSteps
<1> DEFINE S == {n \in 0 .. L : f[n] = r}
<1>2. 0 \in S
  BY <1>0, <1>1 DEF AreSteps
<1>3. \A n \in 0 .. L - 1 : n \in S => n + 1 \in S
  <2> SUFFICES ASSUME NEW n \in 0 .. L - 1, n \in S
               PROVE  n + 1 \in S
    OBVIOUS
  <2>1. PICK x \in 1 .. L : x = n + 1 /\ x - 1 = n /\ x \in 0 .. L
    OBVIOUS
  <2>2. f[x] = Match(r, rs[x])
    BY <1>1, <2>1 DEF AreSteps
  <2>3. f[x] = r
    BY <1>0, <2>2, MatchOne
  <2> QED BY <2>1, <2>3
<1> HIDE DEF S
<1>4. 0 .. L \subseteq S /\ L \in 0 .. L
  BY <1>2, <1>3, Inductive
<1>5. f[L] = r
  BY <1>4 DEF S
<1> QED BY <1>1, <1>5 DEF AreSteps

\* Declaration q of the map is about the report.
LEMMA MatchedIs ==
    ASSUME NEW m \in Maps, Distinct(m), NEW r \in RptRec, NEW rs \in Seq(Report),
           rs = Declared(m), NEW q \in 1 .. Len(rs), Means(r, rs[q]),
           \A n \in DOMAIN rs : ~PassesFor(r, rs[n])
    PROVE  MatchAll(r, rs) = Completed(r.map, rs[q])
<1>0. PICK L \in Nat : /\ L = Len(rs) /\ q \in 1 .. L /\ DOMAIN rs = 1 .. L
                       /\ \A n \in 1 .. L : rs[n] \in Report
  OBVIOUS
<1>1. PICK y \in Report : y = rs[q]
  BY <1>0
<1> DEFINE e == Completed(r.map, y)
<1> HIDE DEF e
<1>2. r.map \in Nat
  BY DEF RptRec
<1>3. PICK f : AreSteps(f, r, rs, L)
  BY <1>0, MatchSteps
<1>4. ASSUME NEW x \in 1 .. L, x # q
      PROVE  Apart(y, rs[x]) /\ ~Means(r, rs[x])
  <2>1. Apart(y, rs[x])
    BY <1>0, <1>1, <1>4 DEF Distinct, Apart
  <2> QED BY <1>1, <2>1 DEF Apart, Means
<1> DEFINE S == {n \in 0 .. L : f[n] = IF n < q THEN r ELSE e}
<1>5. 0 \in S
  BY <1>0, <1>3 DEF AreSteps
<1>6. \A n \in 0 .. L - 1 : n \in S => n + 1 \in S
  <2> SUFFICES ASSUME NEW n \in 0 .. L - 1, n \in S
               PROVE  n + 1 \in S
    OBVIOUS
  <2>1. PICK x \in 1 .. L : x = n + 1 /\ x - 1 = n /\ x \in 0 .. L
    OBVIOUS
  <2>2. PICK it \in Report : it = rs[x] /\ ~PassesFor(r, it)
    BY <1>0
  <2>3. f[x] = Match(f[n], it)
    BY <1>3, <2>1, <2>2 DEF AreSteps
  <2>4. CASE x < q
    <3>1. f[n] = r /\ x # q
      BY <1>0, <2>1, <2>4
    <3>2. f[x] = r
      BY <1>4, <2>2, <2>3, <3>1, MatchOne
    <3> QED BY <2>1, <2>4, <3>2
  <2>5. CASE x = q
    <3>1. f[n] = r /\ it = y
      BY <1>0, <1>1, <2>1, <2>2, <2>5
    <3>2. f[x] = e
      BY <1>1, <2>3, <3>1, MatchOne DEF e
    <3> QED BY <1>0, <2>1, <2>5, <3>2
  <2>6. CASE x > q
    <3>1. f[n] = e /\ x # q
      BY <1>0, <2>1, <2>6
    <3>2. f[x] = e
      BY <1>1, <1>2, <1>4, <2>2, <2>3, <3>1, MatchOther DEF e
    <3> QED BY <1>0, <2>1, <2>6, <3>2
  <2> QED BY <1>0, <2>4, <2>5, <2>6
<1> HIDE DEF S
<1>7. 0 .. L \subseteq S /\ L \in 0 .. L
  BY <1>5, <1>6, Inductive
<1>8. f[L] = e
  BY <1>0, <1>7 DEF S
<1>9. f[L] = MatchAll(r, rs)
  BY <1>3 DEF AreSteps
<1> QED BY <1>1, <1>8, <1>9 DEF e

\* What MatchedExact says of report i, found as r at a service with these declarations.
Matching(i, r, k, rs) ==
    /\ results[k].how # "map" => rpts[i] = r
    /\ /\ results[k].how = "map" /\ results[k].fresh /\ Sound(device[k])
       /\ Distinct(device[k].map) /\ \A n \in DOMAIN rs : ~PassesFor(r, rs[n])
       => /\ {n \in DOMAIN rs : Means(r, rs[n])} = {} => rpts[i] = r
          /\ \A n \in {n \in DOMAIN rs : Means(r, rs[n])} : rpts[i] = Completed(k, rs[n])

\* The reports of a device are what the descriptors say.
LEMMA ReportsMatched ==
    ASSUME MapInv
    PROVE  MatchedExact
<1> SUFFICES ASSUME pc = "idle", NEW i \in DOMAIN rpts
             PROVE  Matching(i, Listed(device)[i], Listed(device)[i].map,
                             Declared(device[Listed(device)[i].map].map))
  BY DEF MatchedExact, Matching
<1>1. /\ device \in Seq(Service) /\ rpts \in Seq(RptRec) /\ results \in Seq(Result)
      /\ d = Len(device) + 1 /\ Len(results) = Len(device)
  BY DEF MapInv, ParseInv, CallerType
<1>2. PICK N \in Nat : N = Len(rpts) /\ N = Len(Found(device)) /\ i \in 1 .. N
  BY <1>1 DEF MapInv, ListInv
<1>3. PICK r \in RptRec : r = Listed(device)[i] /\ r.map \in 1 .. Len(device)
  BY <1>1, <1>2, ListedMap
<1>4. PICK k \in 1 .. Len(device) : k = r.map /\ k \in DOMAIN results /\ k < d
  BY <1>1, <1>3
<1>5. PICK m \in Maps : m = device[k].map
  BY <1>1, DescriptorIs
<1>6. PICK rs \in Seq(Report) : rs = Declared(m)
  BY DeclaredAre
<1>7. PICK res \in Result : res = results[k] /\ res.reports \in Seq(Report)
  <2>1. PICK res \in Result : res = results[k]
    BY <1>1, <1>4
  <2>2. res.reports \in Seq(Report)
    BY DEF Result
  <2> QED BY <2>1, <2>2
<1>8. rpts[i] = IF res.how = "map" THEN MatchAll(r, res.reports) ELSE r
  BY <1>2, <1>3, <1>4, <1>7 DEF MapInv, ListInv, Now, Done
<1>9. ASSUME res.how = "map", res.fresh, Sound(device[k]), Distinct(m),
             \A n \in DOMAIN rs : ~PassesFor(r, rs[n])
      PROVE  /\ (\A n \in DOMAIN rs : ~Means(r, rs[n])) => rpts[i] = r
             /\ \A n \in DOMAIN rs : Means(r, rs[n]) => rpts[i] = Completed(k, rs[n])
  <2>1. rpts # <<>>
    BY <1>1, <1>2
  <2>2. rpts[i] = MatchAll(r, rs)
    BY <1>4, <1>5, <1>6, <1>7, <1>8, <1>9, <2>1 DEF MapInv, ParsedExact
  <2>3. ASSUME NEW n \in DOMAIN rs, Means(r, rs[n])
        PROVE  rpts[i] = Completed(k, rs[n])
    BY <1>4, <1>6, <1>9, <2>2, <2>3, MatchedIs
  <2> QED BY <1>9, <2>2, <2>3, Undeclared
<1>10. Matching(i, r, k, rs)
  BY <1>5, <1>7, <1>8, <1>9 DEF Matching
<1> QED BY <1>3, <1>4, <1>5, <1>6, <1>10

\* Each report that discovery found is completed by the declaration of its own service
\* that is about it and by no other one, or stays as it was found (the end of
\* read_device_services, nimble_hidh.c).
THEOREM MatchedExactly == Spec => []MatchedExact
<1>1. Init => MapInv
  BY InitMapInv
<1>2. MapInv /\ [Next]_vars => MapInv'
  BY MapInvStays
<1>3. MapInv => MatchedExact
  BY ReportsMatched
<1> QED BY <1>1, <1>2, <1>3, PTL DEF Spec
===============================================================================
