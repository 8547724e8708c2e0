----------------------- MODULE BackfillSequenceProofs -----------------------
(***************************************************************************)
(* What the operators of Backfill compute, for any number of batches: the  *)
(* moves of the sequencer, the batches that may be imported, the order the *)
(* pool and the workers take them in.  Then the inductive invariant, IInv, *)
(* and the router of the pool, which keeps it.                             *)
(***************************************************************************)
EXTENDS Backfill, FiniteSetTheorems, TLAPS

\* A step is first-order unless it says otherwise.
USE ZenonT(30)

-----------------------------------------------------------------------------
(* Natural numbers, finite sets and sequences.                             *)

\* The least-number principle.
LEMMA LeastNat ==
    ASSUME NEW T, T \subseteq Nat, T # {}
    PROVE  \E x \in T : \A y \in T : x <= y
<1>1. PICK x \in T : \A y \in T : ~(<<y, x>> \in OpToRel(<, Nat))
  BY WFMin, NatLessThanWellFounded
<1>2. \A y \in T : ~(y < x)
  BY <1>1 DEF OpToRel
<1> QED
  BY SMTT(30), <1>2

\* Induction for the members of a set, for what a loop over batches computes.
LEMMA NatSetInduction ==
    ASSUME NEW S, 0 \in S, \A n \in Nat : n \in S => n + 1 \in S
    PROVE  Nat \subseteq S
<1> SUFFICES ASSUME Nat \ S # {} PROVE FALSE
  OBVIOUS
<1>1. PICK x \in Nat \ S : \A y \in Nat \ S : x <= y
  BY LeastNat
<1>2. x # 0 /\ x - 1 \in Nat
  BY SMTT(30), <1>1
<1>3. x - 1 \in S
  BY SMTT(30), <1>1, <1>2
<1> QED
  BY SMTT(30), <1>1, <1>2, <1>3

\* There is a batch for each worker, and there are workers.
LEMMA NType == N \in Nat /\ N >= 1 /\ 1 \in 1..N /\ N \in 1..N
<1>1. N \in Nat /\ N # 0
  BY BatchesAssumption, FS_CardinalityType, FS_EmptySet DEF N
<1> QED
  BY SMTT(30), <1>1

\* A function on 1..n is a sequence.
LEMMA FunctionIsSeq ==
    ASSUME NEW S, NEW n \in Nat, NEW f \in [1..n -> S]
    PROVE  f \in Seq(S) /\ Len(f) = n
  BY SMTT(30)

\* What the channels hold when a batch is put in or taken out.
LEMMA RangeFacts ==
    ASSUME NEW S, NEW s \in Seq(S)
    PROVE  /\ Range(s) \subseteq S
           /\ \A x \in S : Range(Append(s, x)) = Range(s) \cup {x}
           /\ \A t \in Seq(S) : Range(s \o t) = Range(s) \cup Range(t)
           /\ s # <<>> => /\ Head(s) \in S /\ Tail(s) \in Seq(S)
                          /\ Range(s) = {Head(s)} \cup Range(Tail(s)) /\ Len(Tail(s)) = Len(s) - 1
           /\ Range(<<>>) = {}
<1>1. \A q \in Seq(S) : \A y : y \in Range(q) <=> \E i \in 1..Len(q) : y = q[i]
  <2> SUFFICES ASSUME NEW q \in Seq(S), NEW y
               PROVE  y \in Range(q) <=> \E i \in 1..Len(q) : y = q[i]
    OBVIOUS
  <2>1. DOMAIN q = 1..Len(q)
    BY SMTT(30)
  <2> QED
    BY <2>1 DEF Range
<1>2. Range(s) \subseteq S
  BY SMTT(30), <1>1
<1>3. ASSUME NEW x \in S PROVE Range(Append(s, x)) = Range(s) \cup {x}
  <2>1. /\ Append(s, x) \in Seq(S) /\ Len(Append(s, x)) = Len(s) + 1 /\ Len(s) \in Nat
        /\ Append(s, x)[Len(s) + 1] = x /\ \A i \in 1..Len(s) : Append(s, x)[i] = s[i]
    BY SMTT(30)
  <2>2. \A i : i \in 1..Len(Append(s, x)) <=> i \in 1..Len(s) \/ i = Len(s) + 1
    BY SMTT(30), <2>1
  <2>3. ASSUME NEW y PROVE y \in Range(Append(s, x)) <=> y \in Range(s) \/ y = x
    <3>1. PICK q \in Seq(S) : q = Append(s, x)
      BY <2>1
    <3>2. /\ y \in Range(s) <=> \E i \in 1..Len(s) : y = s[i]
          /\ y \in Range(q) <=> \E i \in 1..Len(q) : y = q[i]
      BY <1>1
    <3> QED
      BY <2>1, <2>2, <3>1, <3>2
  <2> QED
    BY <2>3
<1>4. ASSUME NEW t \in Seq(S) PROVE Range(s \o t) = Range(s) \cup Range(t)
  <2>1. /\ s \o t \in Seq(S) /\ Len(s \o t) = Len(s) + Len(t) /\ Len(s) \in Nat /\ Len(t) \in Nat
        /\ \A i \in 1..Len(s) : (s \o t)[i] = s[i]
        /\ \A i \in Len(s) + 1..Len(s) + Len(t) : (s \o t)[i] = t[i - Len(s)]
    BY SMTT(30)
  <2>2. /\ \A i \in 1..Len(t) : Len(s) + i \in 1..Len(s \o t) /\ (s \o t)[Len(s) + i] = t[i]
        /\ \A i \in 1..Len(s) : i \in 1..Len(s \o t)
        /\ \A i \in 1..Len(s \o t) :
             i \in 1..Len(s) \/ (i - Len(s) \in 1..Len(t) /\ (s \o t)[i] = t[i - Len(s)])
    BY SMTT(30), <2>1
  <2>3. ASSUME NEW y PROVE y \in Range(s \o t) <=> y \in Range(s) \/ y \in Range(t)
    <3>1. PICK q \in Seq(S) : q = s \o t
      BY <2>1
    <3>2. /\ y \in Range(s) <=> \E i \in 1..Len(s) : y = s[i]
          /\ y \in Range(t) <=> \E i \in 1..Len(t) : y = t[i]
          /\ y \in Range(q) <=> \E i \in 1..Len(q) : y = q[i]
      BY <1>1
    <3> QED
      BY <2>1, <2>2, <3>1, <3>2
  <2> QED
    BY <2>3
<1>5. ASSUME s # <<>>
      PROVE  /\ Head(s) \in S /\ Tail(s) \in Seq(S)
             /\ Range(s) = {Head(s)} \cup Range(Tail(s)) /\ Len(Tail(s)) = Len(s) - 1
  <2>1. /\ Head(s) = s[1] /\ Len(s) \in Nat /\ Len(s) >= 1 /\ Tail(s) \in Seq(S) /\ Head(s) \in S
        /\ Len(Tail(s)) = Len(s) - 1 /\ \A i \in 1..Len(s) - 1 : Tail(s)[i] = s[i + 1]
    BY SMTT(30), <1>5
  <2>2. /\ \A i \in 1..Len(s) : i = 1 \/ (i - 1 \in 1..Len(Tail(s)) /\ s[i] = Tail(s)[i - 1])
        /\ \A i \in 1..Len(Tail(s)) : i + 1 \in 1..Len(s) /\ Tail(s)[i] = s[i + 1]
        /\ 1 \in 1..Len(s)
    BY SMTT(30), <2>1
  <2>3. ASSUME NEW y PROVE y \in Range(s) <=> y = Head(s) \/ y \in Range(Tail(s))
    <3>1. PICK q \in Seq(S) : q = Tail(s)
      BY <2>1
    <3>2. /\ y \in Range(s) <=> \E i \in 1..Len(s) : y = s[i]
          /\ y \in Range(q) <=> \E i \in 1..Len(q) : y = q[i]
      BY <1>1
    <3> QED
      BY <2>1, <2>2, <3>1, <3>2
  <2> QED
    BY <2>1, <2>3
<1>6. Range(<<>>) = {}
  BY SMTT(30) DEF Range
<1> QED
  BY <1>2, <1>3, <1>4, <1>5, <1>6

\* f is what a loop that goes n times has after each of them.
IsLoop(f, n, V, v, step) ==
    f \in [0..n -> V] /\ f[0] = v /\ \A i \in 1..n : f[i] = step[i][f[i - 1]]

\* A loop that goes from a value to the next one n times has results.
LEMMA Loop ==
    ASSUME NEW n \in Nat, NEW V, NEW v \in V, NEW step \in [1..n -> [V -> V]]
    PROVE  \E f : IsLoop(f, n, V, v, step)
<1> DEFINE To(f, m) == f[0] = v /\ \A i \in 1..m : f[i] = step[i][f[i - 1]]
           S == {m \in Nat : m <= n => \E f \in [0..m -> V] : To(f, m)}
<1>1. 0 \in S
  <2>1. [i \in 0..0 |-> v] \in [0..0 -> V] /\ To([i \in 0..0 |-> v], 0)
    BY SMTT(30)
  <2> QED
    BY <2>1
<1>2. ASSUME NEW m \in Nat, m \in S PROVE m + 1 \in S
  <2> SUFFICES ASSUME m + 1 <= n
               PROVE  \E f \in [0..m + 1 -> V] : To(f, m + 1)
    BY SMTT(30)
  <2>1. PICK f \in [0..m -> V] : To(f, m)
    BY SMTT(30), <1>2
  <2> DEFINE x == step[m + 1][f[m]]
             g == [i \in 0..m + 1 |-> IF i = m + 1 THEN x ELSE f[i]]
  <2>2. x \in V
    BY SMTT(30)
  <2>3. g \in [0..m + 1 -> V]
    BY SMTT(30), <2>2
  <2>4. /\ g[m + 1] = x /\ \A i \in 0..m : g[i] = f[i]
        /\ m + 1 - 1 = m /\ m \in 0..m /\ 0 \in 0..m
        /\ \A i \in 1..m + 1 : i = m + 1 \/ (i \in 1..m /\ i \in 0..m /\ i - 1 \in 0..m)
    BY SMTT(30)
  <2> HIDE DEF g
  <2>5. ASSUME NEW i \in 1..m + 1 PROVE g[i] = step[i][g[i - 1]]
    <3>1. CASE i = m + 1
      BY SMTT(30), <2>4, <3>1
    <3>2. CASE i \in 1..m /\ i \in 0..m /\ i - 1 \in 0..m
      BY <2>1, <2>4, <3>2
    <3> QED
      BY <2>4, <3>1, <3>2
  <2>6. To(g, m + 1)
    BY <2>1, <2>4, <2>5
  <2> QED
    BY <2>3, <2>6
<1> HIDE DEF S
<1>3. n \in S
  BY <1>1, <1>2, NatSetInduction
<1> QED
  BY SMTT(30), <1>3 DEF S, IsLoop

\* f is what selected has collected from the first batches.
IsSelection(f, S, bs, is) ==
    /\ f \in [0..Len(bs) -> Seq(S)] /\ f[0] = <<>>
    /\ \A i \in 1..Len(bs) : f[i] = IF i \in is THEN Append(f[i - 1], bs[i]) ELSE f[i - 1]
    /\ selected(bs, is) = f[Len(bs)]

\* selected goes from the first batch to the last.
LEMMA SelectedDefined ==
    ASSUME NEW S, NEW bs \in Seq(S), NEW is
    PROVE  \E f : IsSelection(f, S, bs, is)
<1>1. PICK L \in Nat : L = Len(bs)
  BY SMTT(30)
<1> DEFINE Is(f) == f = [i \in 0..L |->
                           IF i = 0 THEN <<>> ELSE IF i \in is THEN Append(f[i - 1], bs[i]) ELSE f[i - 1]]
           step == [i \in 1..L |-> [s \in Seq(S) |-> IF i \in is THEN Append(s, bs[i]) ELSE s]]
           g == CHOOSE f : Is(f)
<1>2. <<>> \in Seq(S) /\ step \in [1..L -> [Seq(S) -> Seq(S)]]
  BY SMTT(30), <1>1
<1>3. PICK f : IsLoop(f, L, Seq(S), <<>>, step)
  <2> HIDE DEF step
  <2> QED
    BY <1>2, Loop
<1>4. \A i \in 1..L : i - 1 \in 0..L /\ i \in 0..L
  BY SMTT(30)
<1>5. \A i \in 1..L : f[i] = IF i \in is THEN Append(f[i - 1], bs[i]) ELSE f[i - 1]
  BY <1>3, <1>4 DEF IsLoop
<1>6. \A i \in 0..L : i = 0 \/ i \in 1..L
  BY SMTT(30)
<1>7. Is(f)
  BY <1>3, <1>5, <1>6 DEF IsLoop
<1>8. Is(g)
  BY <1>7
<1>9. selected(bs, is) = g[L]
  BY <1>1 DEF selected
<1> HIDE DEF g
<1>10. g[0] = <<>> /\ \A i \in 1..L : g[i] = IF i \in is THEN Append(g[i - 1], bs[i]) ELSE g[i - 1]
  <2>1. 0 \in 0..L /\ \A i \in 1..L : i \in 0..L /\ i # 0
    BY SMTT(30)
  <2> QED
    BY <1>8, <2>1
<1>11. \A m \in 0..L : g[m] \in Seq(S)
  <2> DEFINE T == {m \in Nat : m <= L => g[m] \in Seq(S)}
  <2>1. 0 \in T
    BY <1>2, <1>10
  <2>2. ASSUME NEW m \in Nat, m \in T PROVE m + 1 \in T
    <3> SUFFICES ASSUME m + 1 <= L PROVE g[m + 1] \in Seq(S)
      BY SMTT(30)
    <3>1. m + 1 \in 1..L /\ m + 1 - 1 = m /\ g[m] \in Seq(S) /\ bs[m + 1] \in S
      BY SMTT(30), <1>1, <2>2
    <3>2. Append(g[m], bs[m + 1]) \in Seq(S)
      BY SMTT(30), <3>1
    <3>3. g[m + 1] = IF m + 1 \in is THEN Append(g[m], bs[m + 1]) ELSE g[m]
      BY SMTT(30), <1>10, <3>1
    <3> QED
      BY <3>1, <3>2, <3>3
  <2> HIDE DEF T
  <2>3. Nat \subseteq T
    BY <2>1, <2>2, NatSetInduction
  <2> QED
    BY SMTT(30), <2>3 DEF T
<1>12. g \in [0..L -> Seq(S)]
  BY <1>8, <1>11
<1> QED
  BY <1>1, <1>9, <1>10, <1>12 DEF IsSelection

\* What a channel holds after another sequence is put in.
LEMMA RangeConcat ==
    ASSUME NEW S, NEW s \in Seq(S), NEW t \in Seq(S), NEW r, r = s \o t
    PROVE  \A y : y \in Range(r) <=> y \in Range(s) \/ y \in Range(t)
<1>1. Range(s \o t) = Range(s) \cup Range(t)
  BY SMTT(30), RangeFacts
<1> QED
  BY <1>1

\* The indices up to m.
UpTo(is, m) == is \cap (1..m)

\* The indices up to m, when m grows.
LEMMA IndicesUpTo ==
    ASSUME NEW L \in Nat, NEW is, is \subseteq 1..L, NEW m \in Nat
    PROVE  /\ m + 1 \in is => /\ UpTo(is, m + 1) = UpTo(is, m) \cup {m + 1}
                              /\ m + 1 \notin UpTo(is, m)
           /\ m + 1 \notin is => UpTo(is, m + 1) = UpTo(is, m)
           /\ UpTo(is, 0) = {}
           /\ UpTo(is, L) = is
           /\ IsFiniteSet(UpTo(is, m))
<1>1. m + 1 \in is => is \cap (1..m + 1) = (is \cap (1..m)) \cup {m + 1} /\ m + 1 \notin is \cap (1..m)
  BY SMTT(30)
<1>2. m + 1 \notin is => is \cap (1..m + 1) = is \cap (1..m)
  BY SMTT(30)
<1>3. 1..0 = {}
  BY SMTT(30)
<1>4. is \cap (1..L) = is
  OBVIOUS
<1>5. IsFiniteSet(1..m) /\ is \cap (1..m) \in SUBSET (1..m)
  BY SMTT(30), FS_Interval
<1>6. IsFiniteSet(is \cap (1..m))
  BY <1>5, FS_Subset
<1> QED
  BY <1>1, <1>2, <1>3, <1>4, <1>6 DEF UpTo

\* s consists of the members of bs at the indices is.
Picked(s, S, bs, is) ==
    s \in Seq(S) /\ Len(s) = Cardinality(is) /\ \A y : y \in Range(s) <=> \E i \in is : y = bs[i]

\* selected returns as many batches as there are indices, and those at the indices.
LEMMA SelectedFacts ==
    ASSUME NEW S, NEW bs \in Seq(S), NEW is, is \subseteq 1..Len(bs)
    PROVE  Picked(selected(bs, is), S, bs, is)
<1>0. PICK f : IsSelection(f, S, bs, is)
  BY SelectedDefined
<1>1. PICK L \in Nat : L = Len(bs)
  BY SMTT(30)
<1>2. /\ f \in [0..L -> Seq(S)] /\ f[0] = <<>> /\ selected(bs, is) = f[L]
      /\ \A i \in 1..L : f[i] = IF i \in is THEN Append(f[i - 1], bs[i]) ELSE f[i - 1]
  BY <1>0, <1>1 DEF IsSelection
<1> DEFINE J(m) == UpTo(is, m)
           P(m) == /\ Len(f[m]) = Cardinality(J(m))
                   /\ \A y : y \in Range(f[m]) <=> \E i \in J(m) : y = bs[i]
           T == {m \in Nat : m <= L => P(m)}
<1>3. \A m \in Nat : /\ m + 1 \in is => J(m + 1) = J(m) \cup {m + 1} /\ m + 1 \notin J(m)
                     /\ m + 1 \notin is => J(m + 1) = J(m)
                     /\ J(0) = {} /\ J(L) = is /\ IsFiniteSet(J(m))
  <2>1. is \subseteq 1..L
    BY <1>1
  <2> SUFFICES ASSUME NEW m \in Nat
               PROVE  /\ m + 1 \in is => J(m + 1) = J(m) \cup {m + 1} /\ m + 1 \notin J(m)
                      /\ m + 1 \notin is => J(m + 1) = J(m)
                      /\ J(0) = {} /\ J(L) = is /\ IsFiniteSet(J(m))
    OBVIOUS
  <2>2. m + 1 \in is => J(m + 1) = J(m) \cup {m + 1} /\ m + 1 \notin J(m)
    BY <2>1, IndicesUpTo
  <2>3. m + 1 \notin is => J(m + 1) = J(m)
    BY SMTT(30), <2>1 DEF UpTo
  <2>4. J(0) = {} 
    BY <2>1, IndicesUpTo
  <2>5. J(L) = is 
    BY <2>1, IndicesUpTo
  <2>6. IsFiniteSet(J(m))
    BY <2>1, IndicesUpTo
  <2> QED
    BY <2>2, <2>3, <2>4, <2>5, <2>6
<1> HIDE DEF J
<1>4. 0 \in T
  <2>1. J(0) = {}
    BY <1>3
  <2>2. Range(f[0]) = {} /\ Len(f[0]) = 0
    BY SMTT(30), <1>2 DEF Range
  <2> QED
    BY <2>1, <2>2, FS_EmptySet
<1>5. ASSUME NEW m \in Nat, m \in T PROVE m + 1 \in T
  <2> SUFFICES ASSUME m + 1 <= L PROVE P(m + 1)
    BY SMTT(30)
  <2>0. m + 1 \in 1..L /\ m + 1 - 1 = m /\ m \in 0..L /\ bs[m + 1] \in S
    BY SMTT(30), <1>1
  <2>1. m + 1 \in 1..L /\ m + 1 - 1 = m /\ f[m] \in Seq(S) /\ bs[m + 1] \in S
    BY <1>2, <2>0
  <2>2. P(m)
    BY SMTT(30), <1>5
  <2>3. f[m + 1] = IF m + 1 \in is THEN Append(f[m], bs[m + 1]) ELSE f[m]
    BY SMTT(30), <1>2, <2>0
  <2>4. CASE m + 1 \in is
    <3>1. J(m + 1) = J(m) \cup {m + 1} /\ m + 1 \notin J(m)
      BY <1>3, <2>4
    <3>2. Cardinality(J(m + 1)) = Cardinality(J(m)) + 1
      BY SMTT(30), <1>3, <3>1, FS_AddElement
    <3>3. Len(f[m + 1]) = Len(f[m]) + 1
      BY SMTT(30), <2>1, <2>3, <2>4
    <3>4. Range(f[m + 1]) = Range(f[m]) \cup {bs[m + 1]}
      <4>1. f[m + 1] = Append(f[m], bs[m + 1])
        BY <2>3, <2>4
      <4> QED
        BY SMTT(30), <2>1, <4>1, RangeFacts
    <3> QED
      BY <2>2, <3>1, <3>2, <3>3, <3>4
  <2>5. CASE m + 1 \notin is
    <3>1. J(m + 1) = J(m)
      BY <1>3, <2>5
    <3> QED
      BY <2>2, <2>3, <2>5, <3>1
  <2> QED
    BY <2>4, <2>5
<1>6. J(L) = is
  BY <1>3
<1>7. P(L)
  <2> HIDE DEF T
  <2>1. L \in T
    BY <1>4, <1>5, NatSetInduction
  <2> QED
    BY SMTT(30), <2>1 DEF T
<1>8. f[L] \in Seq(S)
  BY SMTT(30), <1>2
<1> QED
  BY <1>2, <1>6, <1>7, <1>8 DEF Picked

\* s has the members of bs after p up to q.
IsSegment(s, bs, p, q) == Len(s) = q - p /\ \A k \in 1..q - p : s[k] = bs[p + k]

\* selected returns a segment when the indices are one.
LEMMA SelectedSegment ==
    ASSUME NEW S, NEW bs \in Seq(S), NEW p \in Nat, NEW q \in Nat, p <= q, q <= Len(bs)
    PROVE  IsSegment(selected(bs, p + 1..q), bs, p, q)
<1>0. PICK f : IsSelection(f, S, bs, p + 1..q)
  BY SelectedDefined
<1>1. PICK L \in Nat : L = Len(bs)
  BY SMTT(30)
<1>2. /\ f \in [0..L -> Seq(S)] /\ f[0] = <<>> /\ selected(bs, p + 1..q) = f[L]
      /\ \A i \in 1..L : f[i] = IF i \in p + 1..q THEN Append(f[i - 1], bs[i]) ELSE f[i - 1]
  BY <1>0, <1>1 DEF IsSelection
<1> DEFINE P(m) == /\ m <= p => Len(f[m]) = 0
                   /\ m > p /\ m <= q => Len(f[m]) = m - p /\ \A k \in 1..m - p : f[m][k] = bs[p + k]
                   /\ m > q => Len(f[m]) = q - p /\ \A k \in 1..q - p : f[m][k] = bs[p + k]
           T == {m \in Nat : m <= L => P(m)}
<1>3. 0 \in T
  BY SMTT(30), <1>2
<1>4. ASSUME NEW m \in Nat, m \in T PROVE m + 1 \in T
  <2> SUFFICES ASSUME m + 1 <= L PROVE P(m + 1)
    BY SMTT(30)
  <2>0. m + 1 \in 1..L /\ m + 1 - 1 = m /\ m \in 0..L /\ bs[m + 1] \in S
    BY SMTT(30), <1>1
  <2>1. m + 1 \in 1..L /\ m + 1 - 1 = m /\ f[m] \in Seq(S) /\ bs[m + 1] \in S
    BY <1>2, <2>0
  <2>2. P(m)
    BY SMTT(30), <1>4
  <2>3. f[m + 1] = IF m + 1 \in p + 1..q THEN Append(f[m], bs[m + 1]) ELSE f[m]
    <3>1. PICK i \in 1..L : i = m + 1 /\ i - 1 = m
      BY SMTT(30), <2>0
    <3>2. f[i] = IF i \in p + 1..q THEN Append(f[i - 1], bs[i]) ELSE f[i - 1]
      BY <1>2
    <3> QED
      BY <3>1, <3>2
  <2>4. CASE m + 1 \in p + 1..q
    <3>1. /\ Len(f[m + 1]) = Len(f[m]) + 1 /\ f[m + 1][Len(f[m]) + 1] = bs[m + 1]
          /\ \A k \in 1..Len(f[m]) : f[m + 1][k] = f[m][k]
      BY SMTT(30), <2>1, <2>3, <2>4
    <3>2. Len(f[m]) = m - p
      BY SMTT(30), <2>2, <2>4
    <3>3. \A k \in 1..m - p : f[m][k] = bs[p + k]
      BY SMTT(30), <2>2, <2>4
    <3>4. \A k \in 1..m + 1 - p : k \in 1..m - p \/ (k = m - p + 1 /\ p + k = m + 1)
      BY SMTT(30)
    <3>5. \A k \in 1..m + 1 - p : f[m + 1][k] = bs[p + k]
      BY <3>1, <3>2, <3>3, <3>4
    <3> QED
      BY SMTT(30), <2>4, <3>1, <3>2, <3>5
  <2>5. CASE m + 1 \notin p + 1..q
    BY SMTT(30), <2>2, <2>3, <2>5
  <2> QED
    BY <2>4, <2>5
<1>5. P(L)
  <2> HIDE DEF T
  <2>1. L \in T
    BY <1>3, <1>4, NatSetInduction
  <2> QED
    BY SMTT(30), <2>1 DEF T
<1> QED
  BY SMTT(30), <1>1, <1>2, <1>5 DEF IsSegment

-----------------------------------------------------------------------------
(* Batches.                                                                *)

States == {"init", "sequenced", "syncBlobs", "syncColumns", "importable",
           "importComplete", "errRetryable", "endSequence"}

\* The fields of a batch.
LEMMA BatchFields ==
    /\ NoBatch \in Batches /\ NoBatch.blocks = NoBlocks
    /\ Origin \in Nat /\ \A s \in Slots : s \in Nat /\ s <= Origin
    /\ \A b \in Batches : /\ b.begin \in Slots /\ b.end \in Slots /\ b.begin \in Nat /\ b.end \in Nat
                          /\ b.seq \in 0..MaxSeq /\ b.seq \in Nat /\ b.state \in States
                          /\ b.blocks \in Slots \cup {NoBlocks} /\ b.linked \in BOOLEAN
                          /\ b.need \in SUBSET SidecarKinds
<1>1. Origin \in Nat /\ MaxSeq \in Nat
  BY BatchesAssumption, BoundsAssumption
<1>2. NoBatch \in Batches /\ NoBatch.blocks = NoBlocks
  BY SMTT(30), <1>1 DEF NoBatch, Batches, Slots
<1>3. \A s \in Slots : s \in Nat /\ s <= Origin
  BY SMTT(30), <1>1 DEF Slots
<1>4. ASSUME NEW b \in Batches
      PROVE  /\ b.begin \in Slots /\ b.end \in Slots /\ b.seq \in 0..MaxSeq /\ b.state \in States
             /\ b.blocks \in Slots \cup {NoBlocks} /\ b.linked \in BOOLEAN
             /\ b.need \in SUBSET SidecarKinds
  BY DEF Batches, States
<1>5. \A x \in 0..MaxSeq : x \in Nat
  BY SMTT(30), <1>1
<1> QED
  BY <1>1, <1>2, <1>3, <1>4, <1>5

\* A batch with the range of b that the sequencer may put in its place: its version is not older.
Follows(w, b) == w \in Batches /\ w.begin = b.begin /\ w.end = b.end /\ w.seq >= b.seq

\* withState keeps the range and the data of the batch, and does not lower its version.
LEMMA WithStateFacts ==
    ASSUME NEW b \in Batches, NEW s \in States
    PROVE  /\ Follows(withState(b, s), b) /\ withState(b, s).state = s
           /\ withState(b, s).blocks = b.blocks
<1> DEFINE v == IF b.seq < MaxSeq THEN b.seq + 1 ELSE MaxSeq
<1>1. MaxSeq \in Nat /\ b.seq \in 0..MaxSeq
  BY BatchFields, BoundsAssumption
<1>2. v \in 0..MaxSeq /\ v >= b.seq
  BY SMTT(30), <1>1
<1> HIDE DEF v
<1>3. PICK w : w = [b EXCEPT !.state = s, !.seq = v]
  OBVIOUS
<1>4. w \in Batches
  BY <1>2, <1>3 DEF Batches, States
<1>5. w.begin = b.begin /\ w.end = b.end /\ w.seq = v /\ w.state = s /\ w.blocks = b.blocks
  BY <1>3 DEF Batches
<1>6. withState(b, s) = w
  BY <1>3 DEF withState, v
<1> QED
  BY <1>2, <1>4, <1>5, <1>6 DEF Follows

\* So does transitionToNext, which asks for blocks when there are none.
LEMMA TransitionFacts ==
    ASSUME NEW b \in Batches
    PROVE  Follows(transitionToNext(b), b) /\ transitionToNext(b).blocks = b.blocks
<1> DEFINE s == CASE b.blocks = NoBlocks   -> "sequenced"
                  [] "columns" \in b.need -> "syncColumns"
                  [] "blobs" \in b.need   -> "syncBlobs"
                  [] OTHER                 -> "importable"
<1>1. s \in States
  BY DEF States
<1>2. transitionToNext(b) = withState(b, s)
  BY DEF transitionToNext
<1> HIDE DEF s
<1> QED
  BY SMTT(30), <1>1, <1>2, WithStateFacts

\* The batch that before makes: it ends where it has to, and is the end of the sequence
\* or has slots, all of which are kept.
LEMMA BeforeFacts ==
    ASSUME retention \in Slots, NEW upTo \in Slots
    PROVE  /\ before(upTo) \in Batches /\ before(upTo).end = upTo /\ before(upTo).blocks = NoBlocks
           /\ upTo <= retention => before(upTo).state = "endSequence" /\ before(upTo).begin = upTo
           /\ upTo > retention => /\ before(upTo).state = "init" /\ before(upTo).begin < upTo
                                  /\ before(upTo).begin >= retention
<1>0. NoBatch \in Batches /\ NoBatch.blocks = NoBlocks /\ NoBatch.state = "init"
  BY BatchFields DEF NoBatch
<1>1. Origin \in Nat /\ Size \in Nat /\ Size > 0 /\ MaxSeq \in Nat
  BY SMTT(30), BatchesAssumption, BoundsAssumption
<1>2. upTo \in Nat /\ retention \in Nat /\ upTo <= Origin
  BY SMTT(30), <1>1 DEF Slots
<1>3. CASE upTo <= retention
  <2>1. PICK w : w = [NoBatch EXCEPT !.begin = upTo, !.end = upTo, !.state = "endSequence"]
    OBVIOUS
  <2>2. before(upTo) = w
    BY <1>3, <2>1 DEF before
  <2>3. w \in Batches /\ w.begin = upTo /\ w.end = upTo /\ w.state = "endSequence" /\ w.blocks = NoBlocks
    BY <1>0, <2>1 DEF Batches
  <2> QED
    BY SMTT(30), <1>2, <1>3, <2>2, <2>3
<1>4. CASE upTo > retention
  <2>1. PICK p : p = IF upTo > Size + retention THEN upTo - Size ELSE retention
    OBVIOUS
  <2>2. p \in Slots /\ p < upTo /\ p >= retention
    BY SMTT(30), <1>1, <1>2, <1>4, <2>1 DEF Slots
  <2>3. PICK w : w = [NoBatch EXCEPT !.begin = p, !.end = upTo]
    OBVIOUS
  <2>4. ~(upTo <= retention)
    BY SMTT(30), <1>2, <1>4
  <2>5. before(upTo) = w
    BY <2>1, <2>3, <2>4 DEF before
  <2>6. w \in Batches /\ w.begin = p /\ w.end = upTo /\ w.state = "init" /\ w.blocks = NoBlocks
    BY <1>0, <2>2, <2>3 DEF Batches
  <2> QED
    BY <2>2, <2>4, <2>5, <2>6, <1>4
<1> QED
  BY SMTT(30), <1>2, <1>3, <1>4

\* The slot where batch i of batchesBelow ends.
TopOf(g, upTo, i) == IF i = 1 THEN upTo ELSE g[i - 1].begin

\* batchesBelow makes each batch below the one before it.
LEMMA BelowDefined ==
    ASSUME retention \in Slots, NEW upTo \in Slots, NEW n \in Nat
    PROVE  /\ batchesBelow(upTo, n) \in [1..n -> Batches]
           /\ \A i \in 1..n : /\ batchesBelow(upTo, n)[i] = before(TopOf(batchesBelow(upTo, n), upTo, i))
                              /\ TopOf(batchesBelow(upTo, n), upTo, i) \in Slots
<1> DEFINE Is(f) == f = [i \in 1..n |-> before(IF i = 1 THEN upTo ELSE f[i - 1].begin)]
           v == [NoBatch EXCEPT !.begin = upTo]
           step == [i \in 1..n |-> [b \in Batches |-> before(b.begin)]]
           g == CHOOSE f : Is(f)
<1>1. v \in Batches /\ v.begin = upTo
  BY BatchFields DEF Batches
<1>2. \A b \in Batches : before(b.begin) \in Batches
  BY BeforeFacts, BatchFields
<1>3. step \in [1..n -> [Batches -> Batches]]
  BY <1>2
<1>4. PICK h : IsLoop(h, n, Batches, v, step)
  <2> HIDE DEF step, v
  <2> QED
    BY <1>1, <1>3, Loop
<1>5. \A i \in 1..n : i - 1 \in 0..n /\ i \in 0..n /\ (i # 1 => i - 1 \in 1..n)
  BY SMTT(30)
<1>6. h[0] = v /\ \A i \in 1..n : h[i] = before(h[i - 1].begin)
  <2> HIDE DEF v
  <2> QED
    BY <1>4, <1>5 DEF IsLoop
<1>7. \E f : Is(f)
  <2>1. PICK f : f = [i \in 1..n |-> h[i]]
    OBVIOUS
  <2>2. ASSUME NEW i \in 1..n PROVE f[i] = before(IF i = 1 THEN upTo ELSE f[i - 1].begin)
    <3>1. CASE i = 1
      <4> HIDE DEF v
      <4>1. h[1] = before(h[1 - 1].begin) /\ 1 - 1 = 0
        BY SMTT(30), <1>6, <3>1
      <4> QED
        BY <1>1, <1>6, <2>1, <3>1, <4>1
    <3>2. CASE i # 1
      BY <1>5, <1>6, <2>1, <3>2
    <3> QED
      BY <3>1, <3>2
  <2>3. f = [i \in 1..n |-> f[i]]
    BY <2>1
  <2>4. Is(f)
    BY <2>2, <2>3
  <2> QED
    BY <2>4
<1>8. Is(g)
  BY <1>7
<1>9. PICK r : r = batchesBelow(upTo, n)
  OBVIOUS
<1>10. r = [i \in 1..n |-> g[i]]
  BY <1>9 DEF batchesBelow
<1> HIDE DEF g
<1>11. \A i \in 1..n : r[i] = before(TopOf(r, upTo, i))
  <2>1. \A i \in 1..n : g[i] = before(IF i = 1 THEN upTo ELSE g[i - 1].begin) /\ r[i] = g[i]
    BY <1>8, <1>10
  <2> QED
    BY <1>5, <2>1 DEF TopOf
<1>12. \A i \in 1..n : r[i] \in Batches /\ TopOf(r, upTo, i) \in Slots
  <2> DEFINE T == {m \in Nat : m \in 1..n => r[m] \in Batches /\ TopOf(r, upTo, m) \in Slots}
  <2>1. 0 \in T
    BY SMTT(30)
  <2>2. ASSUME NEW m \in Nat, m \in T PROVE m + 1 \in T
    <3> SUFFICES ASSUME m + 1 \in 1..n PROVE r[m + 1] \in Batches /\ TopOf(r, upTo, m + 1) \in Slots
      BY SMTT(30)
    <3>1. m + 1 = 1 \/ (m + 1 # 1 /\ m + 1 - 1 = m /\ m \in 1..n)
      BY SMTT(30)
    <3>2. m \in 1..n => r[m] \in Batches
      BY <2>2
    <3>3. m \in 1..n => r[m].begin \in Slots
      BY <3>2, BatchFields
    <3>4. TopOf(r, upTo, m + 1) \in Slots
      BY SMTT(30), <3>1, <3>3 DEF TopOf
    <3>5. r[m + 1] = before(TopOf(r, upTo, m + 1))
      BY <1>11
    <3> QED
      BY <3>4, <3>5, BeforeFacts
  <2> HIDE DEF T
  <2>3. Nat \subseteq T
    BY <2>1, <2>2, NatSetInduction
  <2> QED
    BY SMTT(30), <2>3 DEF T
<1> QED
  BY <1>9, <1>10, <1>11, <1>12

\* Below the oldest slot to keep there are only ends of the sequence.
LEMMA BelowEnded ==
    ASSUME retention \in Slots, NEW upTo \in Slots, NEW n \in Nat, upTo <= retention
    PROVE  \A i \in 1..n : /\ batchesBelow(upTo, n)[i].begin = upTo
                           /\ batchesBelow(upTo, n)[i].end = upTo
                           /\ batchesBelow(upTo, n)[i].state = "endSequence"
<1>1. PICK r : r = batchesBelow(upTo, n)
  OBVIOUS
<1>2. \A i \in 1..n : r[i] = before(TopOf(r, upTo, i))
  BY <1>1, BelowDefined
<1>3. before(upTo).begin = upTo /\ before(upTo).end = upTo /\ before(upTo).state = "endSequence"
  BY BeforeFacts
<1> DEFINE T == {m \in Nat : m \in 1..n => r[m] = before(upTo)}
<1>4. 0 \in T
  BY SMTT(30)
<1>5. ASSUME NEW m \in Nat, m \in T PROVE m + 1 \in T
  <2> SUFFICES ASSUME m + 1 \in 1..n PROVE r[m + 1] = before(upTo)
    BY SMTT(30)
  <2>1. m + 1 = 1 \/ (m + 1 # 1 /\ m + 1 - 1 = m /\ m \in 1..n)
    BY SMTT(30)
  <2>2. m \in 1..n => r[m].begin = upTo
    BY <1>3, <1>5
  <2>3. TopOf(r, upTo, m + 1) = upTo
    BY SMTT(30), <2>1, <2>2 DEF TopOf
  <2> QED
    BY <1>2, <2>3
<1> HIDE DEF T
<1>6. Nat \subseteq T
  BY <1>4, <1>5, NatSetInduction
<1>7. \A i \in 1..n : r[i] = before(upTo)
  BY SMTT(30), <1>6 DEF T
<1> QED
  BY <1>1, <1>3, <1>7

\* The batches are where the sequencer wants them: each has its slots below those of the one before.
Chain(bs, n) ==
    /\ bs \in [1..n -> Batches]
    /\ \A i \in 1..n : bs[i].begin <= bs[i].end
    /\ \A i \in 1..n - 1 : bs[i].begin = bs[i + 1].end

\* Batches without a gap descend.
LEMMA Descending ==
    ASSUME NEW n \in Nat, NEW bs, Chain(bs, n)
    PROVE  \A i, j \in 1..n : i < j => bs[j].end <= bs[i].begin
<1>1. /\ \A i \in 1..n : bs[i].begin \in Nat /\ bs[i].end \in Nat /\ bs[i].begin <= bs[i].end
      /\ \A i \in 1..n - 1 : bs[i].begin = bs[i + 1].end
  <2>1. \A i \in 1..n : bs[i] \in Batches
    BY DEF Chain
  <2> QED
    BY <2>1, BatchFields DEF Chain
<1> DEFINE T == {m \in Nat : m \in 1..n => \A i \in 1..m - 1 : bs[m].end <= bs[i].begin}
<1>2. 0 \in T
  BY SMTT(30)
<1>3. ASSUME NEW m \in Nat, m \in T PROVE m + 1 \in T
  <2> SUFFICES ASSUME m + 1 \in 1..n, NEW i \in 1..m PROVE bs[m + 1].end <= bs[i].begin
    BY SMTT(30)
  <2>1. m \in 1..n /\ m \in 1..n - 1 /\ i \in 1..n /\ (i = m \/ i \in 1..m - 1) /\ m + 1 \in 1..n
    BY SMTT(30)
  <2>2. bs[m + 1].end = bs[m].begin /\ bs[m].begin <= bs[m].end
    BY <1>1, <2>1
  <2>3. i \in 1..m - 1 => bs[m].end <= bs[i].begin
    BY <1>3, <2>1
  <2>4. bs[m].begin \in Nat /\ bs[m].end \in Nat /\ bs[i].begin \in Nat
    BY <1>1, <2>1
  <2> QED
    BY SMTT(30), <2>1, <2>2, <2>3, <2>4
<1> HIDE DEF T
<1>4. Nat \subseteq T
  BY <1>2, <1>3, NatSetInduction
<1> SUFFICES ASSUME NEW i \in 1..n, NEW j \in 1..n, i < j PROVE bs[j].end <= bs[i].begin
  OBVIOUS
<1>5. j \in T /\ i \in 1..j - 1
  BY SMTT(30), <1>4
<1> QED
  BY <1>5 DEF T

-----------------------------------------------------------------------------
(* The sequencer.                                                          *)

\* expired, in terms of the end of the batch.
LEMMA ExpiredFacts ==
    ASSUME retention \in Slots, NEW b \in Batches
    PROVE  expired(b) <=> b.end <= retention
<1>1. b.end \in Nat /\ retention \in Nat
  BY BatchFields
<1> QED
  BY SMTT(30), <1>1 DEF expired

\* The batches that have expired are the last ones.
LEMMA Horizon ==
    ASSUME retention \in Slots, NEW bs, Chain(bs, N)
    PROVE  \E m \in 0..N : \A i \in 1..N : expired(bs[i]) <=> i > m
<1>1. N \in Nat
  BY NType
<1>2. \A i \in 1..N : /\ bs[i].begin \in Nat /\ bs[i].end \in Nat /\ bs[i].begin <= bs[i].end
                      /\ expired(bs[i]) <=> bs[i].end <= retention
  <2>1. \A i \in 1..N : bs[i] \in Batches
    BY DEF Chain
  <2> QED
    BY <2>1, BatchFields, ExpiredFacts DEF Chain
<1>3. \A i, j \in 1..N : i < j => bs[j].end <= bs[i].begin
  BY <1>1, Descending
<1>4. retention \in Nat
  BY BatchFields
<1>5. \A i, j \in 1..N : i < j /\ expired(bs[i]) => expired(bs[j])
  BY SMTT(30), <1>2, <1>3, <1>4
<1> DEFINE T == {n \in 0..N : \A i \in 1..N : i > n => expired(bs[i])}
<1>6. N \in T /\ T \subseteq Nat
  BY SMTT(30), <1>1
<1>7. PICK m \in T : \A y \in T : m <= y
  <2> HIDE DEF T
  <2> QED
    BY <1>6, LeastNat
<1>8. ASSUME NEW i \in 1..N, i <= m, expired(bs[i]) PROVE FALSE
  <2>1. i - 1 \in 0..N /\ i - 1 < m /\ i \in Nat
    BY SMTT(30), <1>1, <1>8
  <2>2. \A j \in 1..N : j > i - 1 => j = i \/ i < j
    BY SMTT(30), <1>1
  <2>3. i - 1 \in T
    BY <1>5, <1>8, <2>1, <2>2
  <2> HIDE DEF T
  <2>4. m \in Nat /\ m <= i - 1
    BY <1>6, <1>7, <2>3
  <2> QED
    BY SMTT(30), <2>1, <2>4
<1>9. m \in 0..N /\ \A i \in 1..N : i > m => expired(bs[i])
  BY <1>7
<1>10. \A i \in 1..N : i > m \/ i <= m
  BY SMTT(30), <1>1, <1>9
<1>11. \A i \in 1..N : i > m => ~(i <= m)
  BY SMTT(30), <1>1, <1>9
<1> QED
  BY <1>8, <1>9, <1>10, <1>11

Active(s) == s \in {"init", "errRetryable", "sequenced", "importable"}

\* A batch with a range that is not empty and, unless responses are truncated, blocks for all of it.
Fits(b) == b \in Batches /\ b.begin < b.end /\ (~Truncated => b.blocks \in {NoBlocks, b.begin})

\* A batch of the sequencer: one to work on, or one that has expired.
Held(b) == IF Active(b.state) THEN Fits(b)
           ELSE b.state \in {"endSequence", "importComplete"} /\ expired(b)

\* A batch whose import is complete, while its slots have to be kept.
Finished(b) == b.state = "importComplete" /\ ~expired(b)

\* update turns new, in which the first c batches are finished and the ones after m have
\* expired, into u: the others move up, and below them is a new batch, or the end.
Shape(u, new, c, m) ==
    /\ Chain(u, N)
    /\ \A i \in 1..N : i <= m - c => u[i] = new[i + c]
    /\ \A i \in 1..N : i > m - c =>
          \/ u[i].state \in {"endSequence", "importComplete"} /\ u[i].end <= retention
          \/ c = 1 /\ m = N /\ i = N /\ u[i] = before(new[N].begin) /\ new[N].begin > retention
    /\ IF c = 0 /\ m > 0 THEN u[1].end = new[1].end ELSE u[1].end = new[1].begin
    /\ u[N].begin <= new[N].begin \/ u[N].begin <= retention
    /\ new[N].begin <= retention => u[N].begin <= retention

\* The batches before and after an update: the first ones finished, the last ones expired.
Parts(new, c, m) ==
    /\ Chain(new, N) /\ c \in {0, 1} /\ m \in 0..N /\ c <= m
    /\ \A i \in 1..N : expired(new[i]) <=> i > m
    /\ \A i \in 1..N : (new[i].state # "importComplete" /\ ~expired(new[i])) <=> (i > c /\ i <= m)

\* The batches that update keeps follow each other.
LEMMA PartsExist ==
    ASSUME retention \in Slots, NEW new, Chain(new, N),
           \A i \in 1..N : Held(new[i]) \/ (i = 1 /\ Finished(new[i]))
    PROVE  \E c \in {0, 1}, m \in 0..N : Parts(new, c, m) /\ (c = 1 <=> Finished(new[1]))
<1>1. N \in Nat /\ 1 \in 1..N
  BY NType
<1>2. PICK m \in 0..N : \A i \in 1..N : expired(new[i]) <=> i > m
  BY Horizon
<1>3. PICK c \in {0, 1} : c = 1 <=> Finished(new[1])
  <2>1. CASE Finished(new[1])
    BY <2>1
  <2>2. CASE ~Finished(new[1])
    BY SMTT(30), <2>2
  <2> QED
    BY <2>1, <2>2
<1>4. \A i \in 1..N : new[i].state = "importComplete" /\ ~expired(new[i]) => i = 1
  BY DEF Held, Active
<1>5. c <= m
  <2>1. CASE c = 1
    <3>1. ~expired(new[1])
      BY <1>3, <2>1 DEF Finished
    <3>2. ~(1 > m)
      BY <1>1, <1>2, <3>1
    <3> QED
      BY SMTT(30), <1>1, <2>1, <3>2
  <2> QED
    BY SMTT(30), <2>1, <1>1
<1>6. ASSUME NEW i \in 1..N
      PROVE  (new[i].state # "importComplete" /\ ~expired(new[i])) <=> (i > c /\ i <= m)
  <2>1. ~expired(new[i]) <=> i <= m
    <3>1. i > m <=> ~(i <= m)
      BY SMTT(30), <1>1
    <3> QED
      BY <1>2, <3>1
  <2>2. CASE i = 1
    <3>1. i > c <=> c # 1
      BY SMTT(30), <2>2
    <3> QED
      BY <1>3, <2>1, <2>2, <3>1 DEF Finished
  <2>3. CASE i # 1
    <3>1. i > c
      BY SMTT(30), <1>1, <2>3
    <3>2. ~expired(new[i]) => new[i].state # "importComplete"
      BY <1>4, <2>3
    <3> QED
      BY <2>1, <3>1, <3>2
  <2> QED
    BY <2>2, <2>3
<1> QED
  BY <1>2, <1>3, <1>5, <1>6 DEF Parts

\* What is known of the batches of a chain.
LEMMA ChainFacts ==
    ASSUME retention \in Slots, NEW bs, Chain(bs, N), NEW i \in 1..N
    PROVE  /\ bs[i] \in Batches /\ bs[i].begin \in Slots /\ bs[i].end \in Slots
           /\ bs[i].begin \in Nat /\ bs[i].end \in Nat /\ bs[i].begin <= bs[i].end
           /\ expired(bs[i]) <=> bs[i].end <= retention
           /\ i # N => i + 1 \in 1..N /\ bs[i].begin = bs[i + 1].end
<1>1. bs[i] \in Batches /\ bs[i].begin <= bs[i].end
  BY DEF Chain
<1>2. i # N => i \in 1..N - 1 /\ i + 1 \in 1..N
  BY SMTT(30), NType
<1>3. i # N => bs[i].begin = bs[i + 1].end
  BY <1>2 DEF Chain
<1> QED
  BY <1>1, <1>2, <1>3, BatchFields, ExpiredFacts

\* update when no batch is kept: the first makes room for the next one, the others end the
\* sequence.
LEMMA UpdateEmpty ==
    ASSUME retention \in Slots, NEW new, NEW m, Parts(new, m, m), NEW u,
           u = [i \in 1..N |->
                  IF i = 1 THEN before(new[1].begin)
                  ELSE IF new[i].state = "importComplete" THEN new[i]
                  ELSE withState(new[i], "endSequence")]
    PROVE  Shape(u, new, m, m)
<1>1. N \in Nat /\ N >= 1 /\ 1 \in 1..N /\ N \in 1..N
  BY NType
<1>2. /\ Chain(new, N) /\ m \in {0, 1} /\ \A i \in 1..N : expired(new[i]) <=> i > m
  BY DEF Parts
<1>3. retention \in Nat
  BY BatchFields
<1>4. ASSUME NEW i \in 1..N, i # 1
      PROVE  /\ u[i] \in Batches /\ u[i].begin = new[i].begin /\ u[i].end = new[i].end
             /\ u[i].state \in {"endSequence", "importComplete"} /\ u[i].end <= retention
             /\ new[i] \in Batches
  <2>1. i > m
    BY SMTT(30), <1>2, <1>4
  <2>2. new[i].end <= retention /\ new[i] \in Batches
    BY <1>2, <2>1, ChainFacts
  <2>3. u[i] = IF new[i].state = "importComplete" THEN new[i] ELSE withState(new[i], "endSequence")
    BY <1>4
  <2>4. Follows(withState(new[i], "endSequence"), new[i]) /\ withState(new[i], "endSequence").state = "endSequence"
    BY <2>2, WithStateFacts DEF States
  <2> QED
    BY <2>2, <2>3, <2>4 DEF Follows
<1>5. new[1].begin \in Slots /\ new[1].begin \in Nat /\ new[1].end \in Nat /\ new[1].begin <= new[1].end
  BY <1>1, <1>2, ChainFacts
<1>6. u[1] = before(new[1].begin)
  BY <1>1
<1>7. u[1] \in Batches /\ u[1].end = new[1].begin /\ u[1].begin <= u[1].end
  <2>1. PICK p \in Slots : p = new[1].begin
    BY <1>5
  <2>2. p \in Nat /\ (p <= retention \/ p > retention)
    BY SMTT(30), <1>3, <1>5, <2>1
  <2>3. before(p) \in Batches /\ before(p).end = p /\ before(p).begin \in Nat
    BY BeforeFacts, BatchFields
  <2>4. before(p).begin = p \/ before(p).begin < p
    BY <2>2, BeforeFacts
  <2>5. before(p).begin <= p
    BY SMTT(30), <2>2, <2>3, <2>4
  <2> QED
    BY <1>6, <2>1, <2>3, <2>5
<1>8. N # 1 => /\ new[1].begin <= retention /\ u[1].begin = new[1].begin /\ 2 \in 1..N
               /\ u[1].state = "endSequence"
  <2> SUFFICES ASSUME N # 1
               PROVE  /\ new[1].begin <= retention /\ u[1].begin = new[1].begin /\ 2 \in 1..N
                      /\ u[1].state = "endSequence"
    OBVIOUS
  <2>1. 2 \in 1..N /\ 2 # 1 /\ 1 + 1 = 2
    BY SMTT(30), <1>1
  <2>2. new[1].begin = new[2].end
    BY SMTT(30), <1>1, <1>2, <2>1, ChainFacts
  <2>3. new[2].end <= retention
    BY <1>4, <2>1
  <2> QED
    BY <1>5, <1>6, <2>1, <2>2, <2>3, BeforeFacts
<1>9. Chain(u, N)
  <2>1. \A i \in 1..N : u[i] \in Batches
    BY <1>4, <1>7
  <2>2. u \in [1..N -> Batches]
    BY <2>1
  <2>3. ASSUME NEW i \in 1..N PROVE u[i].begin <= u[i].end
    BY SMTT(30), <1>2, <1>4, <1>7, ChainFacts
  <2>4. ASSUME NEW i \in 1..N - 1 PROVE u[i].begin = u[i + 1].end
    <3>1. i \in 1..N /\ i + 1 \in 1..N /\ i + 1 # 1 /\ i # N /\ N # 1
      BY SMTT(30), <1>1
    <3>2. new[i].begin = new[i + 1].end
      BY <1>2, <3>1, ChainFacts
    <3>3. u[i].begin = new[i].begin
      BY <1>4, <1>8, <3>1
    <3> QED
      BY <1>4, <3>1, <3>2, <3>3
  <2> QED
    BY <2>2, <2>3, <2>4 DEF Chain
<1>10. ASSUME NEW i \in 1..N
       PROVE  \/ u[i].state \in {"endSequence", "importComplete"} /\ u[i].end <= retention
              \/ m = 1 /\ m = N /\ i = N /\ u[i] = before(new[N].begin) /\ new[N].begin > retention
  <2>1. CASE i # 1
    BY <1>4, <2>1
  <2>2. CASE i = 1 /\ new[1].begin <= retention
    BY <1>5, <1>6, <1>7, <2>2, BeforeFacts
  <2>3. CASE i = 1 /\ new[1].begin > retention
    <3>1. N = 1
      BY SMTT(30), <1>8, <2>3, <1>3, <1>5
    <3>2. ~expired(new[1])
      BY SMTT(30), <1>1, <1>2, <1>3, <1>5, <2>3, ChainFacts
    <3>3. m = 1
      BY SMTT(30), <1>1, <1>2, <3>2
    <3> QED
      BY <1>6, <2>3, <3>1, <3>3
  <2> QED
    BY SMTT(30), <2>1, <2>2, <2>3, <1>3, <1>5
<1>11. u[N].begin <= new[N].begin
  BY SMTT(30), <1>1, <1>2, <1>4, <1>5, <1>7, ChainFacts
<1>12. new[N].begin <= retention => u[N].begin <= retention
  <2>1. u[N].begin \in Nat /\ new[N].begin \in Nat
    BY <1>1, <1>2, <1>9, ChainFacts
  <2> QED
    BY SMTT(30), <1>3, <1>11, <2>1
<1>13. \A i \in 1..N : ~(i <= m - m)
  BY SMTT(30), <1>1, <1>2
<1>14. ~(m = 0 /\ m > 0)
  BY SMTT(30)
<1> QED
  BY <1>7, <1>9, <1>10, <1>11, <1>12, <1>13, <1>14 DEF Shape

\* All batches of r are made by before.
Made(r, n) == \A j \in 1..n : \E p \in Slots : r[j] = before(p)

\* The batches that batchesBelow makes are a chain from upTo down.
LEMMA BelowChain ==
    ASSUME retention \in Slots, NEW upTo \in Slots, NEW n \in Nat, NEW r, r = batchesBelow(upTo, n)
    PROVE  /\ Chain(r, n)
           /\ n # 0 => r[1] = before(upTo)
           /\ Made(r, n)
<1>1. /\ r \in [1..n -> Batches]
      /\ \A i \in 1..n : r[i] = before(TopOf(r, upTo, i)) /\ TopOf(r, upTo, i) \in Slots
  BY BelowDefined
<1>2. \A p \in Slots : before(p).begin <= before(p).end /\ before(p).end = p
  <2> SUFFICES ASSUME NEW p \in Slots PROVE before(p).begin <= before(p).end /\ before(p).end = p
    OBVIOUS
  <2>1. p \in Nat /\ retention \in Nat
    BY BatchFields
  <2>2. p <= retention \/ p > retention
    BY SMTT(30), <2>1
  <2>3. before(p) \in Batches /\ before(p).end = p /\ before(p).begin \in Nat
    BY BeforeFacts, BatchFields
  <2>4. before(p).begin = p \/ before(p).begin < p
    BY <2>2, BeforeFacts
  <2> QED
    BY SMTT(30), <2>1, <2>3, <2>4
<1>3. \A i \in 1..n : r[i].begin <= r[i].end
  BY <1>1, <1>2
<1>4. ASSUME NEW i \in 1..n - 1 PROVE r[i].begin = r[i + 1].end
  <2>1. i + 1 \in 1..n /\ i + 1 # 1 /\ i + 1 - 1 = i
    BY SMTT(30)
  <2>2. r[i + 1].end = TopOf(r, upTo, i + 1)
    BY <1>1, <1>2, <2>1
  <2> QED
    BY SMTT(30), <2>1, <2>2 DEF TopOf
<1>5. n # 0 => r[1] = before(upTo)
  <2>1. n # 0 => 1 \in 1..n
    BY SMTT(30)
  <2> QED
    BY <1>1, <2>1 DEF TopOf
<1> QED
  BY <1>1, <1>3, <1>4, <1>5 DEF Chain, Made

\* The first k batches of u are those of new after c, and the others are those of r.
Above(u, k, new, c) == \A i \in 1..k : u[i] = new[c + i]
Below(u, k, r) == \A j \in 1..Len(r) : u[k + j] = r[j]

\* update when batches are kept: they move up, and the ones below them are new.
LEMMA KeptShape ==
    ASSUME retention \in Slots, NEW new, NEW c, NEW m, Parts(new, c, m), NEW k \in 1..N, c + k = m,
           NEW n \in Nat, k + n = N, NEW r, r = batchesBelow(new[m].begin, n),
           NEW u \in [1..N -> Batches],
           Above(u, k, new, c), Below(u, k, r)
    PROVE  Shape(u, new, c, m)
<1>1. N \in Nat /\ N >= 1 /\ 1 \in 1..N /\ N \in 1..N
  BY NType
<1>2. /\ Chain(new, N) /\ c \in {0, 1} /\ m \in 0..N
      /\ \A i \in 1..N : expired(new[i]) <=> i > m
  BY DEF Parts
<1>3. retention \in Nat
  BY BatchFields
<1>5. m \in 1..N /\ m \in Nat
  BY SMTT(30), <1>1, <1>2
<1>6. PICK p : p = new[m].begin
  OBVIOUS
<1>7. p \in Slots /\ p \in Nat
  BY <1>2, <1>5, <1>6, ChainFacts
<1>9. r = batchesBelow(p, n)
  BY <1>6
<1>10. Chain(r, n) /\ (n # 0 => r[1] = before(p))
  BY <1>7, <1>9, BelowChain
<1>11. \A i \in 1..k : u[i] = new[c + i]
  BY DEF Above
<1>12. r \in [1..n -> Batches]
  BY <1>10 DEF Chain
<1>13. \A j \in 1..n : u[k + j] = r[j]
  BY <1>12, FunctionIsSeq DEF Below
<1>14. \A i \in k + 1..N : u[i] = r[i - k] /\ i - k \in 1..n
  <2> SUFFICES ASSUME NEW i \in k + 1..N PROVE u[i] = r[i - k] /\ i - k \in 1..n
    OBVIOUS
  <2>1. i - k \in 1..n /\ k + (i - k) = i
    BY SMTT(30), <1>1
  <2> QED
    BY <1>13, <2>1
<1>16. \A i \in 1..N : i \in 1..k \/ i \in k + 1..N
  BY SMTT(30), <1>1
<1>17. \A i \in 1..k : c + i \in 1..N /\ i + c = c + i /\ i \in Nat
  BY SMTT(30), <1>2, <1>1
<1>18. \A q \in Slots : before(q).end = q
  BY BeforeFacts
<1>19. u[k].begin = p /\ (k # N => u[k + 1] = before(p) /\ u[k + 1].end = p)
  <2>1. u[k].begin = p
    <3>1. k \in 1..k /\ c + k = m
      BY SMTT(30), <1>1
    <3> QED
      BY <1>6, <1>11, <3>1
  <2>2. k # N => k + 1 \in k + 1..N /\ k + 1 - k = 1 /\ n # 0
    BY SMTT(30), <1>1
  <2>3. k # N => u[k + 1] = before(p)
    BY SMTT(30), <1>10, <1>14, <2>2
  <2> QED
    BY <1>7, <1>18, <2>1, <2>3
<1>20. Chain(u, N)
  <2>1. ASSUME NEW i \in 1..N PROVE u[i].begin <= u[i].end
    <3>1. CASE i \in 1..k
      <4>1. u[i] = new[c + i] /\ c + i \in 1..N
        BY <1>11, <1>17, <3>1
      <4>2. \A j \in 1..N : new[j].begin <= new[j].end
        BY <1>2 DEF Chain
      <4> QED
        BY <4>1, <4>2
    <3>2. CASE i \in k + 1..N
      <4>1. u[i] = r[i - k] /\ i - k \in 1..n
        BY <1>14, <3>2
      <4>2. \A j \in 1..n : r[j].begin <= r[j].end
        BY <1>10 DEF Chain
      <4> QED
        BY <4>1, <4>2
    <3> QED
      BY <1>16, <3>1, <3>2
  <2>2. ASSUME NEW i \in 1..N - 1 PROVE u[i].begin = u[i + 1].end
    <3>1. CASE i < k
      <4>1. i \in 1..k /\ i + 1 \in 1..k /\ c + (i + 1) = (c + i) + 1 /\ c + i # N
        BY SMTT(30), <1>1, <1>2, <3>1
      <4>2. c + i \in 1..N /\ u[i] = new[c + i] /\ u[i + 1] = new[(c + i) + 1]
        BY SMTT(30), <1>11, <1>17, <4>1
      <4> QED
        BY SMTT(30), <1>2, <4>1, <4>2, ChainFacts
    <3>2. CASE i = k
      BY SMTT(30), <1>1, <1>19, <3>2
    <3>3. CASE i > k
      <4>1. i \in k + 1..N /\ i + 1 \in k + 1..N /\ i + 1 - k = (i - k) + 1 /\ i - k \in 1..n - 1
        BY SMTT(30), <1>1, <3>3
      <4>2. u[i] = r[i - k] /\ u[i + 1] = r[(i - k) + 1]
        BY SMTT(30), <1>14, <4>1
      <4> QED
        BY <1>10, <4>1, <4>2 DEF Chain
    <3> QED
      BY SMTT(30), <1>1, <3>1, <3>2, <3>3
  <2> QED
    BY <2>1, <2>2 DEF Chain
<1>21. m # N => /\ p <= retention
                /\ \A i \in k + 1..N : /\ u[i].state = "endSequence" /\ u[i].end = p /\ u[i].begin = p
  <2> SUFFICES ASSUME m # N
               PROVE  /\ p <= retention
                      /\ \A i \in k + 1..N : /\ u[i].state = "endSequence" /\ u[i].end = p /\ u[i].begin = p
    OBVIOUS
  <2>1. m + 1 \in 1..N /\ m + 1 > m
    BY SMTT(30), <1>1, <1>5
  <2>2. new[m].begin = new[m + 1].end /\ expired(new[m + 1])
    BY <1>2, <1>5, <2>1, ChainFacts
  <2>3. p <= retention
    BY <1>2, <1>6, <2>1, <2>2, ChainFacts
  <2>4. \A j \in 1..n : r[j].begin = p /\ r[j].end = p /\ r[j].state = "endSequence"
    BY SMTT(30), <1>7, <1>9, <2>3, BelowEnded
  <2> QED
    BY SMTT(30), <1>14, <2>3, <2>4
<1>22. ASSUME NEW i \in 1..N, i > k
       PROVE  \/ u[i].state \in {"endSequence", "importComplete"} /\ u[i].end <= retention
              \/ c = 1 /\ m = N /\ i = N /\ u[i] = before(new[N].begin) /\ new[N].begin > retention
  <2>1. i \in k + 1..N
    BY SMTT(30), <1>1, <1>22
  <2>2. CASE m # N
    BY <1>21, <2>1, <2>2
  <2>3. CASE m = N
    <3>1. c = 1 /\ i = N /\ k + 1 = N /\ k # N
      BY SMTT(30), <1>1, <1>2, <2>1, <2>3
    <3>2. u[i] = before(p) /\ u[i].end = p
      BY <1>19, <3>1
    <3>3. CASE p <= retention
      BY SMTT(30), <1>7, <3>2, <3>3, BeforeFacts
    <3>4. CASE p > retention
      BY <1>6, <2>3, <3>1, <3>2, <3>4
    <3> QED
      BY SMTT(30), <1>3, <1>7, <3>3, <3>4
  <2> QED
    BY <2>2, <2>3
<1>23. IF c = 0 /\ m > 0 THEN u[1].end = new[1].end ELSE u[1].end = new[1].begin
  <2>1. 1 \in 1..k /\ u[1] = new[c + 1]
    BY SMTT(30), <1>11
  <2>2. CASE c = 0
    BY SMTT(30), <2>1, <2>2, <1>5
  <2>3. CASE c = 1
    <3>1. c + 1 = 1 + 1 /\ 1 # N
      BY SMTT(30), <1>1, <1>2, <2>3
    <3>2. new[1].begin = new[1 + 1].end
      BY <1>1, <1>2, <3>1, ChainFacts
    <3> QED
      BY SMTT(30), <2>1, <2>3, <3>1, <3>2
  <2> QED
    BY <1>2, <2>2, <2>3
<1>24. /\ u[N].begin <= new[N].begin \/ u[N].begin <= retention
       /\ new[N].begin <= retention => u[N].begin <= retention
  <2>0. u[N].begin \in Nat /\ u[N].begin <= u[N].end /\ new[N].begin \in Nat
    BY <1>1, <1>2, <1>20, ChainFacts
  <2>1. CASE k = N
    <3>1. m = N
      BY SMTT(30), <1>1, <1>2, <2>1
    <3> QED
      BY SMTT(30), <1>6, <1>19, <2>0, <2>1, <3>1
  <2>2. CASE k # N /\ m # N
    <3>1. N \in k + 1..N
      BY SMTT(30), <1>1, <2>2
    <3>2. u[N].begin = p /\ p <= retention
      BY <1>21, <2>2, <3>1
    <3> QED
      BY <3>2
  <2>3. CASE k # N /\ m = N
    <3>1. k + 1 = N
      BY SMTT(30), <1>1, <1>2, <2>3
    <3>2. u[N].end = p
      BY <1>19, <2>3, <3>1
    <3> QED
      BY SMTT(30), <1>3, <1>6, <2>0, <2>3, <3>2
  <2> QED
    BY <2>1, <2>2, <2>3
<1>25. \A i \in 1..N : i <= m - c => u[i] = new[i + c]
  <2>1. \A i \in 1..N : i <= m - c => i \in 1..k
    BY SMTT(30), <1>2
  <2> QED
    BY <1>11, <1>17, <2>1
<1>26. \A i \in 1..N : i > m - c => i > k
  BY SMTT(30), <1>2
<1> QED
  BY <1>20, <1>22, <1>23, <1>24, <1>25, <1>26 DEF Shape

\* The batches with b in the place of its older version.
renewed(bs, b) == [i \in 1..N |-> IF replaces(b, bs[i]) THEN b ELSE bs[i]]

\* b takes a place only with the same range.
LEMMA RenewedChain ==
    ASSUME NEW bs, Chain(bs, N), NEW b \in Batches
    PROVE  /\ Chain(renewed(bs, b), N)
           /\ \A i \in 1..N : /\ renewed(bs, b)[i] = IF replaces(b, bs[i]) THEN b ELSE bs[i]
                              /\ renewed(bs, b)[i].begin = bs[i].begin
                              /\ renewed(bs, b)[i].end = bs[i].end
<1>1. PICK new : new = renewed(bs, b)
  OBVIOUS
<1>2. \A i \in 1..N : new[i] = IF replaces(b, bs[i]) THEN b ELSE bs[i]
  BY <1>1 DEF renewed
<1>3. DOMAIN new = 1..N /\ new = [i \in 1..N |-> new[i]]
  BY <1>1 DEF renewed
<1>4. \A i \in 1..N : bs[i] \in Batches /\ bs[i].begin <= bs[i].end
  BY DEF Chain
<1>5. \A i \in 1..N : new[i] \in Batches /\ new[i].begin = bs[i].begin /\ new[i].end = bs[i].end
  BY <1>2, <1>4 DEF replaces
<1>6. new \in [1..N -> Batches]
  BY <1>3, <1>5
<1>7. \A i \in 1..N - 1 : i \in 1..N /\ i + 1 \in 1..N
  BY SMTT(30), NType
<1>8. \A i \in 1..N - 1 : new[i].begin = new[i + 1].end
  BY <1>5, <1>7 DEF Chain
<1>9. \A i \in 1..N : new[i].begin <= new[i].end
  BY <1>4, <1>5
<1>10. Chain(new, N)
  BY <1>6, <1>8, <1>9 DEF Chain
<1> QED
  BY <1>1, <1>2, <1>5, <1>10

\* The members of a concatenation.
LEMMA ConcatFacts ==
    ASSUME NEW S, NEW s \in Seq(S), NEW t \in Seq(S)
    PROVE  /\ s \o t \in Seq(S) /\ Len(s \o t) = Len(s) + Len(t)
           /\ \A i \in 1..Len(s) : (s \o t)[i] = s[i]
           /\ Below(s \o t, Len(s), t)
<1>1. /\ s \o t \in Seq(S) /\ Len(s \o t) = Len(s) + Len(t) /\ Len(s) \in Nat /\ Len(t) \in Nat
      /\ \A i \in 1..Len(s) : (s \o t)[i] = s[i]
      /\ \A i \in Len(s) + 1..Len(s) + Len(t) : (s \o t)[i] = t[i - Len(s)]
  BY SMTT(30)
<1>2. \A j \in 1..Len(t) : Len(s) + j \in Len(s) + 1..Len(s) + Len(t) /\ Len(s) + j - Len(s) = j
  BY SMTT(30), <1>1
<1>3. \A j \in 1..Len(t) : (s \o t)[Len(s) + j] = t[j]
  BY SMTT(30), <1>1, <1>2
<1> QED
  BY <1>1, <1>3 DEF Below

\* update keeps the batches that are neither done nor expired, and puts new ones below them.
LEMMA UpdateShape ==
    ASSUME retention \in Slots, NEW bs, Chain(bs, N), NEW b \in Batches, NEW new, new = renewed(bs, b),
           NEW c \in {0, 1}, NEW m \in 0..N, Parts(new, c, m)
    PROVE  Shape(update(bs, b), new, c, m)
<1>1. N \in Nat /\ N >= 1 /\ m \in Nat /\ c \in Nat /\ c <= m /\ m <= N
  BY SMTT(30), NType DEF Parts
<1> DEFINE K == {i \in 1..N : new[i].state # "importComplete" /\ ~expired(new[i])}
<1>2. K = c + 1..m
  <2>1. \A i \in 1..N : i \in K <=> (i > c /\ i <= m)
    BY DEF Parts
  <2>2. K \subseteq 1..N
    OBVIOUS
  <2>3. \A i : i \in c + 1..m <=> (i \in 1..N /\ i > c /\ i <= m)
    BY SMTT(30), <1>1
  <2> HIDE DEF K
  <2> QED
    BY <2>1, <2>2, <2>3
<1>3. new \in Seq(Batches) /\ Len(new) = N
  <2>1. new \in [1..N -> Batches]
    BY DEF Parts, Chain
  <2> QED
    BY <1>1, <2>1, FunctionIsSeq
<1>4. PICK kept : kept = selected(new, c + 1..m)
  OBVIOUS
<1>5. Len(kept) = m - c /\ \A k \in 1..m - c : kept[k] = new[c + k]
  <2>1. m <= Len(new)
    BY <1>1, <1>3
  <2> QED
    <3>1. IsSegment(selected(new, c + 1..m), new, c, m)
      BY <1>1, <1>3, <2>1, SelectedSegment
    <3> QED
      BY <1>4, <3>1 DEF IsSegment
<1>6. kept \in Seq(Batches)
  <2>1. c + 1..m \subseteq 1..Len(new)
    BY SMTT(30), <1>1, <1>3
  <2> QED
    BY <1>3, <1>4, <2>1, SelectedFacts DEF Picked
<1>7. PICK u : u = update(bs, b)
  OBVIOUS
<1>8. u = IF kept = <<>>
            THEN [i \in 1..N |->
                    IF i = 1 THEN before(new[1].begin)
                    ELSE IF new[i].state = "importComplete" THEN new[i]
                    ELSE withState(new[i], "endSequence")]
            ELSE kept \o batchesBelow(kept[Len(kept)].begin, N - Len(kept))
  <2>1. kept = selected(new, K)
    BY <1>2, <1>4
  <2> QED
    BY <1>7, <2>1 DEF update, renewed
<1> HIDE DEF K
<1>9. CASE c = m
  <2>1. kept = <<>>
    BY SMTT(30), <1>1, <1>5, <1>6, <1>9
  <2>2. u = [i \in 1..N |->
                    IF i = 1 THEN before(new[1].begin)
                    ELSE IF new[i].state = "importComplete" THEN new[i]
                    ELSE withState(new[i], "endSequence")]
    BY <1>8, <2>1
  <2>3. Parts(new, m, m)
    BY <1>9
  <2>4. Shape(u, new, m, m)
    BY <2>2, <2>3, UpdateEmpty
  <2> QED
    BY <1>7, <1>9, <2>4
<1>10. CASE c # m
  <2>1. PICK k \in 1..N : c + k = m /\ k = m - c
    BY SMTT(30), <1>1, <1>10
  <2>2. PICK n \in Nat : k + n = N /\ n = N - k
    BY SMTT(30), <1>1, <2>1
  <2>3. kept # <<>> /\ Len(kept) = k /\ kept[k] = new[m]
    BY SMTT(30), <1>1, <1>5, <1>10, <2>1
  <2>4. PICK r : r = batchesBelow(new[m].begin, n)
    OBVIOUS
  <2>5. u = kept \o r
    BY <1>8, <2>2, <2>3, <2>4
  <2>6. new[m].begin \in Slots
    <3>1. m \in 1..N
      BY SMTT(30), <1>1, <2>1
    <3>2. Chain(new, N)
      BY DEF Parts
    <3> QED
      BY <3>1, <3>2, ChainFacts
  <2>7. r \in [1..n -> Batches]
    BY <2>4, <2>6, BelowDefined
  <2>8. r \in Seq(Batches) /\ Len(r) = n
    BY <2>7, FunctionIsSeq
  <2>9. /\ u \in Seq(Batches) /\ Len(u) = k + n
        /\ \A i \in 1..k : u[i] = kept[i]
        /\ Below(u, k, r)
    <3>1. u \in Seq(Batches) /\ Len(u) = Len(kept) + Len(r)
      BY <1>6, <2>5, <2>8, ConcatFacts
    <3>2. \A i \in 1..Len(kept) : u[i] = kept[i]
      BY <1>6, <2>5, <2>8, ConcatFacts
    <3>3. Below(u, k, r)
      BY <1>6, <2>3, <2>5, <2>8, ConcatFacts
    <3> QED
      BY <2>3, <2>8, <3>1, <3>2, <3>3
  <2>10. u \in [1..N -> Batches]
    BY SMTT(30), <2>2, <2>9
  <2>11. \A i \in 1..k : u[i] = new[c + i]
    BY <1>5, <2>1, <2>9
  <2>12. Shape(u, new, c, m)
    <3>1. c + k = m /\ k + n = N /\ Below(u, k, r) /\ Above(u, k, new, c)
      BY <2>1, <2>2, <2>9, <2>11 DEF Above
    <3> QED
      BY <2>4, <2>10, <3>1, KeptShape
  <2> QED
    BY <1>7, <2>12
<1> QED
  BY <1>9, <1>10

\* The batches after an update: what is to be worked on has not expired, and has moved up by c
\* or is new; the first batch is the one after those that are finished.
Moved(u, new, c) ==
    /\ Chain(u, N)
    /\ \A i \in 1..N : Held(u[i])
    /\ \A i \in 1..N : Active(u[i].state) =>
          /\ ~expired(u[i])
          /\ \/ i + c \in 1..N /\ u[i] = new[i + c]
             \/ c = 1 /\ i = N /\ u[i].state = "init" /\ u[i].end = new[N].begin
    /\ \A i \in 1..N : i + c \in 1..N =>
          IF expired(new[i + c]) THEN expired(u[i]) ELSE u[i] = new[i + c]
    /\ IF c = 0 THEN u[1].end = new[1].end \/ (expired(new[1]) /\ expired(u[1]))
       ELSE u[1].end = new[1].begin
    /\ u[N].begin <= new[N].begin \/ u[N].begin <= retention
    /\ new[N].begin <= retention => u[N].begin <= retention

\* What update does to the batches, when only the first may be finished.
LEMMA UpdateMoves ==
    ASSUME retention \in Slots, NEW bs, Chain(bs, N), NEW b \in Batches, NEW new, new = renewed(bs, b),
           \A i \in 1..N : Held(new[i]) \/ (i = 1 /\ Finished(new[i]))
    PROVE  \E c \in {0, 1} : Moved(update(bs, b), new, c) /\ (c = 1 <=> Finished(new[1]))
<1>1. N \in Nat /\ 1 \in 1..N /\ N \in 1..N /\ retention \in Nat
  BY NType, BatchFields
<1>2. Chain(new, N)
  BY RenewedChain
<1>3. PICK c \in {0, 1}, m \in 0..N : Parts(new, c, m) /\ (c = 1 <=> Finished(new[1]))
  BY <1>2, PartsExist
<1>4. PICK u : u = update(bs, b)
  OBVIOUS
<1>5. Shape(u, new, c, m)
  BY <1>3, <1>4, UpdateShape
<1>6. /\ Chain(u, N)
      /\ \A i \in 1..N : i <= m - c => u[i] = new[i + c]
      /\ \A i \in 1..N : i > m - c =>
          \/ u[i].state \in {"endSequence", "importComplete"} /\ u[i].end <= retention
          \/ c = 1 /\ m = N /\ i = N /\ u[i] = before(new[N].begin) /\ new[N].begin > retention
      /\ IF c = 0 /\ m > 0 THEN u[1].end = new[1].end ELSE u[1].end = new[1].begin
      /\ u[N].begin <= new[N].begin \/ u[N].begin <= retention
      /\ new[N].begin <= retention => u[N].begin <= retention
  BY <1>5 DEF Shape
<1>7. /\ \A i \in 1..N : expired(new[i]) <=> i > m
      /\ \A i \in 1..N : (new[i].state # "importComplete" /\ ~expired(new[i])) <=> (i > c /\ i <= m)
      /\ c <= m
  BY <1>3 DEF Parts
<1>8. ASSUME NEW i \in 1..N, i <= m - c
      PROVE  /\ u[i] = new[i + c] /\ i + c \in 1..N /\ ~expired(u[i]) /\ Held(u[i])
  <2>1. i + c \in 1..N /\ i + c > c /\ i + c <= m
    BY SMTT(30), <1>1, <1>3, <1>8
  <2>2. u[i] = new[i + c]
    BY <1>6, <1>8
  <2>3. new[i + c].state # "importComplete" /\ ~expired(new[i + c])
    BY <1>7, <2>1
  <2>4. Held(new[i + c])
    BY <2>1, <2>3 DEF Finished
  <2> QED
    BY <2>1, <2>2, <2>3, <2>4
<1>9. ASSUME NEW i \in 1..N, ~(i <= m - c)
      PROVE  /\ Held(u[i])
             /\ \/ ~Active(u[i].state) /\ expired(u[i])
                \/ /\ c = 1 /\ m = N /\ i = N /\ u[i].state = "init" /\ u[i].end = new[N].begin
                   /\ ~expired(u[i])
  <2>0. i > m - c
    BY SMTT(30), <1>1, <1>3, <1>9
  <2>1. CASE u[i].state \in {"endSequence", "importComplete"} /\ u[i].end <= retention
    <3>1. expired(u[i])
      BY <1>6, <2>1, ChainFacts
    <3>2. ~Active(u[i].state)
      BY <2>1 DEF Active
    <3> QED
      BY <2>1, <3>1, <3>2 DEF Held
  <2>2. CASE c = 1 /\ m = N /\ i = N /\ u[i] = before(new[N].begin) /\ new[N].begin > retention
    <3>1. PICK p \in Slots : p = new[N].begin
      BY <1>1, <1>2, ChainFacts
    <3>2. u[i] \in Batches /\ u[i].end = p /\ u[i].blocks = NoBlocks /\ u[i].state = "init" /\ u[i].begin < p
      BY SMTT(30), <2>2, <3>1, BeforeFacts
    <3>3. p \in Nat /\ p > retention
      BY <2>2, <3>1, BatchFields
    <3>4. ~expired(u[i])
      BY SMTT(30), <1>1, <3>2, <3>3, ExpiredFacts
    <3>5. Held(u[i])
      BY <3>2 DEF Held, Active, Fits
    <3> QED
      BY <2>2, <3>1, <3>2, <3>4, <3>5
  <2> QED
    BY <1>6, <2>0, <2>1, <2>2
<1>10. \A i \in 1..N : Held(u[i])
  BY <1>8, <1>9
<1>11. ASSUME NEW i \in 1..N, Active(u[i].state)
       PROVE  /\ ~expired(u[i])
              /\ \/ i + c \in 1..N /\ u[i] = new[i + c]
                 \/ c = 1 /\ i = N /\ u[i].state = "init" /\ u[i].end = new[N].begin
  BY <1>8, <1>9, <1>11
<1>12. ASSUME NEW i \in 1..N, i + c \in 1..N
       PROVE  IF expired(new[i + c]) THEN expired(u[i]) ELSE u[i] = new[i + c]
  <2>1. CASE expired(new[i + c])
    <3>1. i + c > m
      BY <1>7, <1>12, <2>1
    <3>2. ~(i <= m - c) /\ ~(c = 1 /\ m = N /\ i = N)
      BY SMTT(30), <1>1, <1>3, <1>12, <3>1
    <3> QED
      BY <1>9, <2>1, <3>2
  <2>2. CASE ~expired(new[i + c])
    <3>1. ~(i + c > m)
      BY <1>7, <1>12, <2>2
    <3>2. i <= m - c
      BY SMTT(30), <1>1, <1>3, <1>12, <3>1
    <3> QED
      BY <1>8, <2>2, <3>2
  <2> QED
    BY <2>1, <2>2
<1>13. IF c = 0 THEN u[1].end = new[1].end \/ (expired(new[1]) /\ expired(u[1]))
       ELSE u[1].end = new[1].begin
  <2>1. CASE c = 0 /\ m = 0
    <3>1. 1 > m /\ 1 + c = 1
      BY SMTT(30), <2>1
    <3>2. expired(new[1])
      BY <1>1, <1>7, <3>1
    <3>3. expired(u[1])
      BY <1>1, <1>12, <3>1, <3>2
    <3> QED
      BY <2>1, <3>2, <3>3
  <2>2. CASE c = 0 /\ m # 0
    <3>1. m > 0
      BY SMTT(30), <1>1, <1>3, <2>2
    <3> QED
      BY <1>6, <2>2, <3>1
  <2>3. CASE c # 0
    BY <1>6, <2>3
  <2> QED
    BY <2>1, <2>2, <2>3
<1>14. Moved(u, new, c)
  BY <1>6, <1>10, <1>11, <1>12, <1>13 DEF Moved
<1> QED
  BY <1>3, <1>4, <1>14

\* The batches that wait for the service: to be handed out, or to be imported.
waiting(bs) == {i \in 1..N : bs[i].state \in {"init", "errRetryable", "importable"}}

\* There are finitely many batches in the sequencer.
LEMMA FiniteBatches ==
    ASSUME NEW W, W \subseteq 1..N
    PROVE  IsFiniteSet(W) /\ Cardinality(W) \in Nat /\ Cardinality(W) <= N
<1>1. N \in Nat /\ 1 \in Int /\ N \in Int /\ ~(1 > N)
  BY SMTT(30), NType
<1>2. IsFiniteSet(1..N) /\ Cardinality(1..N) = N
  <2>1. IsFiniteSet(1..N) /\ Cardinality(1..N) = N - 1 + 1
    BY <1>1, FS_Interval
  <2> QED
    BY SMTT(30), <1>1, <2>1
<1>3. IsFiniteSet(W) /\ Cardinality(W) <= Cardinality(1..N)
  BY <1>2, FS_Subset
<1> QED
  BY <1>2, <1>3, FS_CardinalityType

\* An update does not make more batches wait than there were: a new one takes the place of
\* the one that is finished.
LEMMA WaitingMoved ==
    ASSUME NEW u, NEW new, NEW c \in {0, 1}, Moved(u, new, c), NEW W, W \subseteq 1..N,
           \A i \in waiting(new) : ~expired(new[i]) => i \in W, c = 1 => 1 \in W
    PROVE  Cardinality(waiting(u)) <= Cardinality(W)
<1>1. N \in Nat /\ N >= 1
  BY NType
<1>2. \A i \in waiting(u) : i \in 1..N /\ Active(u[i].state)
  BY DEF waiting, Active
<1>3. \A i \in waiting(u) : \/ i + c \in 1..N /\ i + c \in W /\ u[i] = new[i + c]
                            \/ c = 1 /\ i = N
  <2> SUFFICES ASSUME NEW i \in waiting(u), ~(c = 1 /\ i = N)
               PROVE  i + c \in 1..N /\ i + c \in W /\ u[i] = new[i + c]
    OBVIOUS
  <2>1. ~expired(u[i]) /\ i + c \in 1..N /\ u[i] = new[i + c]
    BY <1>2 DEF Moved
  <2>2. i + c \in waiting(new)
    BY <2>1 DEF waiting
  <2> QED
    BY <2>1, <2>2
<1> DEFINE f == [i \in waiting(u) |-> IF c = 1 /\ i = N THEN 1 ELSE i + c]
<1>4. f \in [waiting(u) -> W]
  BY <1>3
<1>5. ASSUME NEW i \in waiting(u), NEW j \in waiting(u), f[i] = f[j] PROVE i = j
  <2>1. i \in 1..N /\ j \in 1..N
    BY <1>2
  <2>2. (IF c = 1 /\ i = N THEN 1 ELSE i + c) = (IF c = 1 /\ j = N THEN 1 ELSE j + c)
    BY <1>5
  <2> QED
    BY SMTT(30), <1>1, <2>1, <2>2
<1>6. f \in Injection(waiting(u), W)
  <2>1. DOMAIN f = waiting(u)
    OBVIOUS
  <2> HIDE DEF f
  <2> QED
    BY <1>4, <1>5, <2>1 DEF Injection, IsInjective
<1>7. IsFiniteSet(W)
  BY FiniteBatches
<1> HIDE DEF f
<1> QED
  BY <1>6, <1>7, FS_Injection

\* The sequencer has its batches in place.
SeqOK(bs) == Chain(bs, N) /\ \A i \in 1..N : Held(bs[i])

\* sequence hands out the batches that wait and have not expired, and ends the others.
LEMMA ArrangedFacts ==
    ASSUME retention \in Slots, NEW bs, SeqOK(bs), NEW i \in 1..N
    PROVE  /\ arranged(bs)[i] \in Batches /\ Follows(arranged(bs)[i], bs[i]) /\ Held(arranged(bs)[i])
           /\ arranged(bs)[i].state \notin {"init", "errRetryable"}
           /\ arranged(bs)[i].state = "importable" => arranged(bs)[i] = bs[i]
           /\ bs[i].state = "sequenced" => arranged(bs)[i] = bs[i]
           /\ handedOut(bs, i) <=> bs[i].state \in {"init", "errRetryable"} /\ ~expired(bs[i])
           /\ arranged(bs)[i].state = "sequenced" => handedOut(bs, i) \/ arranged(bs)[i] = bs[i]
           /\ arranged(bs)[i].state = "endSequence" => expired(bs[i])
           /\ bs[i].state \notin {"init", "errRetryable"} => arranged(bs)[i] = bs[i]
<1>1. bs[i] \in Batches /\ Held(bs[i])
  BY DEF SeqOK, Chain
<1>2. PICK a : a = arranged(bs)[i]
  OBVIOUS
<1>3. a = IF bs[i].state \notin {"init", "errRetryable"} THEN bs[i]
          ELSE withState(bs[i], IF expired(bs[i]) THEN "endSequence" ELSE "sequenced")
  BY <1>2 DEF arranged
<1>4. handedOut(bs, i) <=> bs[i].state # "sequenced" /\ a.state = "sequenced"
  BY <1>2 DEF handedOut
<1>5. Follows(bs[i], bs[i])
  BY SMTT(30), <1>1, BatchFields DEF Follows
<1>6. CASE bs[i].state \notin {"init", "errRetryable"}
  <2>1. a = bs[i]
    BY <1>3, <1>6
  <2>2. a.state = "endSequence" => expired(bs[i])
    BY <1>1, <2>1 DEF Held, Active
  <2> QED
    BY <1>1, <1>2, <1>4, <1>5, <1>6, <2>1, <2>2
<1>7. CASE bs[i].state \in {"init", "errRetryable"} /\ expired(bs[i])
  <2>1. a = withState(bs[i], "endSequence")
    BY <1>3, <1>7
  <2>2. Follows(a, bs[i]) /\ a.state = "endSequence"
    BY <1>1, <2>1, WithStateFacts DEF States
  <2>3. expired(a)
    BY <1>7, <2>2 DEF expired, Follows
  <2>4. Held(a)
    BY <2>2, <2>3 DEF Held, Active
  <2>5. a \in Batches
    BY <2>2 DEF Follows
  <2> QED
    BY <1>2, <1>4, <1>7, <2>2, <2>4, <2>5
<1>8. CASE bs[i].state \in {"init", "errRetryable"} /\ ~expired(bs[i])
  <2>1. a = withState(bs[i], "sequenced")
    BY <1>3, <1>8
  <2>2. Follows(a, bs[i]) /\ a.state = "sequenced" /\ a.blocks = bs[i].blocks
    BY <1>1, <2>1, WithStateFacts DEF States
  <2>3. Fits(bs[i])
    BY <1>1, <1>8 DEF Held, Active
  <2>4. Held(a)
    BY <2>2, <2>3 DEF Held, Active, Fits, Follows
  <2>5. a \in Batches
    BY <2>2 DEF Follows
  <2> QED
    BY <1>2, <1>4, <1>8, <2>2, <2>4, <2>5
<1> QED
  BY <1>6, <1>7, <1>8

\* The indices of the batches that sequence hands out.
handed(bs) == {i \in 1..N : handedOut(bs, i)}

\* The batches that sequence leaves are in place.
LEMMA ArrangedOK ==
    ASSUME retention \in Slots, NEW bs, SeqOK(bs), NEW a, a = arranged(bs)
    PROVE  /\ SeqOK(a)
           /\ waiting(a) \subseteq waiting(bs) \ handed(bs)
           /\ handed(bs) \subseteq waiting(bs)
<1>1. \A i \in 1..N : /\ a[i] \in Batches /\ a[i].begin = bs[i].begin /\ a[i].end = bs[i].end
                      /\ Held(a[i])
  BY ArrangedFacts DEF Follows
<1>2. a = [i \in 1..N |-> a[i]]
  BY DEF arranged
<1>3. a \in [1..N -> Batches]
  BY <1>1, <1>2
<1>4. \A i \in 1..N - 1 : i \in 1..N /\ i + 1 \in 1..N
  BY SMTT(30), NType
<1>5. \A i \in 1..N : a[i].begin <= a[i].end
  BY <1>1 DEF SeqOK, Chain
<1>6. \A i \in 1..N - 1 : a[i].begin = a[i + 1].end
  BY <1>1, <1>4 DEF SeqOK, Chain
<1>7. SeqOK(a)
  BY <1>1, <1>3, <1>5, <1>6 DEF SeqOK, Chain
<1>8. ASSUME NEW i \in waiting(a) PROVE i \in waiting(bs) \ handed(bs)
  <2>1. i \in 1..N /\ a[i].state \in {"init", "errRetryable", "importable"}
    BY DEF waiting
  <2>2. a[i].state = "importable" /\ a[i] = bs[i]
    BY <2>1, ArrangedFacts
  <2>3. ~handedOut(bs, i)
    BY <2>1, <2>2, ArrangedFacts
  <2> QED
    BY <2>1, <2>2, <2>3 DEF waiting, handed
<1>9. ASSUME NEW i \in handed(bs) PROVE i \in waiting(bs)
  <2>1. i \in 1..N /\ handedOut(bs, i)
    BY DEF handed
  <2> QED
    BY <2>1, ArrangedFacts DEF waiting
<1> QED
  BY <1>7, <1>8, <1>9

\* When sequence reports the end it hands out nothing, and the last batch is the end.
LEMMA EndsFacts ==
    ASSUME retention \in Slots, NEW bs, SeqOK(bs), NEW a, a = arranged(bs)
    PROVE  /\ ends(bs) \in {0, 1}
           /\ ends(bs) = 1 => handed(bs) = {} /\ a[N].begin <= retention
<1>1. ends(bs) \in {0, 1}
  BY DEF ends
<1> SUFFICES ASSUME ends(bs) = 1 PROVE handed(bs) = {} /\ a[N].begin <= retention
  BY <1>1
<1>2. PICK i \in 1..N : endReported(bs, i)
  BY SMTT(30) DEF ends
<1>3. /\ a[i].state = "endSequence" /\ \A j \in 1..(i - 1) : ~handedOut(bs, j)
  BY <1>2 DEF endReported
<1>4. expired(bs[i])
  BY <1>3, ArrangedFacts
<1>5. PICK m \in 0..N : \A j \in 1..N : expired(bs[j]) <=> j > m
  BY Horizon DEF SeqOK
<1>6. N \in Nat /\ N \in 1..N /\ retention \in Nat
  BY NType, BatchFields
<1>7. \A j \in 1..N : j \in 1..(i - 1) \/ j > m
  BY SMTT(30), <1>4, <1>5, <1>6
<1>8. \A j \in 1..N : ~handedOut(bs, j)
  BY <1>3, <1>5, <1>7, ArrangedFacts
<1>9. expired(bs[N])
  BY SMTT(30), <1>4, <1>5, <1>6
<1>10. bs[N].begin <= retention
  BY SMTT(30), <1>6, <1>9, ChainFacts DEF SeqOK
<1>11. a[N].begin = bs[N].begin
  BY <1>6, ArrangedFacts DEF Follows
<1> QED
  BY <1>8, <1>10, <1>11 DEF handed

\* What sequence hands to the pool.
LEMMA GivenFacts ==
    ASSUME retention \in Slots, NEW bs, SeqOK(bs), NEW a, a = arranged(bs)
    PROVE  /\ given(bs) \in Seq(Batches)
           /\ Len(given(bs)) = Cardinality(handed(bs))
           /\ \A y : y \in Range(given(bs)) <=> \E i \in handed(bs) : y = a[i]
<1>1. a \in [1..N -> Batches] /\ N \in Nat
  BY ArrangedOK, NType DEF SeqOK, Chain
<1>2. a \in Seq(Batches) /\ Len(a) = N
  BY <1>1, FunctionIsSeq
<1>3. handed(bs) \subseteq 1..Len(a)
  BY <1>2 DEF handed
<1>4. given(bs) = selected(a, handed(bs))
  BY DEF given, handed
<1>5. Picked(given(bs), Batches, a, handed(bs))
  BY <1>2, <1>3, <1>4, SelectedFacts
<1> QED
  BY <1>5 DEF Picked

\* importable returns the first batches, up to one that cannot be imported yet.
LEMMA ImportableFacts ==
    ASSUME NEW bs \in [1..N -> Batches], NEW q, q = importable(bs)
    PROVE  /\ q \in Seq(Batches) /\ Len(q) <= N
           /\ \A k \in 1..Len(q) : q[k] = bs[k] /\ bs[k].state = "importable"
           /\ Len(q) < N => bs[Len(q) + 1].state # "importable"
<1>1. N \in Nat
  BY NType
<1> DEFINE T == {n \in 0..N : n < N => bs[n + 1].state # "importable"}
           P(n) == /\ \A i \in 1..n : bs[i].state = "importable"
                   /\ n < N => bs[n + 1].state # "importable"
<1>2. N \in T /\ T \subseteq Nat
  BY SMTT(30), <1>1
<1>3. PICK n \in T : \A y \in T : n <= y
  <2> HIDE DEF T
  <2> QED
    BY <1>2, LeastNat
<1>4. n \in 0..N /\ n \in Nat
  BY SMTT(30), <1>1, <1>3
<1>5. ASSUME NEW i \in 1..n PROVE bs[i].state = "importable"
  <2>1. i - 1 \in 0..N /\ ~(n <= i - 1) /\ i - 1 + 1 = i
    BY SMTT(30), <1>1, <1>4
  <2>2. i - 1 \notin T
    BY <1>3, <2>1
  <2> QED
    BY <2>1, <2>2
<1>6. P(n)
  BY <1>3, <1>5
<1>7. PICK k : k = CHOOSE x \in 0..N : P(x)
  OBVIOUS
<1>8. k \in 0..N /\ P(k)
  BY <1>4, <1>6, <1>7
<1>9. q = SubSeq(bs, 1, k)
  BY <1>7 DEF importable
<1>10. bs \in Seq(Batches) /\ Len(bs) = N /\ k \in Nat /\ k <= N
  BY SMTT(30), <1>1, <1>8, FunctionIsSeq
<1>11. q \in Seq(Batches) /\ Len(q) = k /\ \A j \in 1..k : q[j] = bs[j]
  BY SMTT(30), <1>9, <1>10
<1> QED
  BY <1>8, <1>10, <1>11

\* s holds what bs does, and b.
Adds(s, bs, b) == \A y : y \in Range(s) <=> y \in Range(bs) \/ y = b

\* sortBatchDesc puts the batch among the others and loses none.
LEMMA SortFacts ==
    ASSUME NEW bs \in Seq(Batches), NEW b \in Batches, NEW s, s = sortBatchDesc(bs, b)
    PROVE  s \in Seq(Batches) /\ Len(s) = Len(bs) + 1 /\ Adds(s, bs, b)
<1>1. PICK L \in Nat : L = Len(bs)
  BY SMTT(30)
<1>2. PICK A : A = {i \in 1..L : bs[i].end >= b.end}
  OBVIOUS
<1>3. PICK B : B = (1..L) \ A
  OBVIOUS
<1>4. PICK x : x = selected(bs, A)
  OBVIOUS
<1>5. PICK z : z = selected(bs, B)
  OBVIOUS
<1>6. s = x \o <<b>> \o z
  BY <1>1, <1>2, <1>3, <1>4, <1>5 DEF sortBatchDesc
<1>7. A \subseteq 1..Len(bs) /\ B \subseteq 1..Len(bs)
  BY <1>1, <1>2, <1>3
<1>8. Picked(x, Batches, bs, A) /\ Picked(z, Batches, bs, B)
  BY <1>4, <1>5, <1>7, SelectedFacts
<1>9. x \in Seq(Batches) /\ Len(x) = Cardinality(A) /\ \A y : y \in Range(x) <=> \E i \in A : y = bs[i]
  BY <1>8 DEF Picked
<1>10. z \in Seq(Batches) /\ Len(z) = Cardinality(B)
  BY <1>8 DEF Picked
<1>11. \A y : y \in Range(z) <=> \E i \in B : y = bs[i]
  BY <1>8 DEF Picked
<1>12. Cardinality(A) + Cardinality(B) = L
  <2>1. IsFiniteSet(1..L) /\ Cardinality(1..L) = L
    BY SMTT(30), FS_Interval
  <2>2. Cardinality(B) = Cardinality(1..L) - Cardinality((1..L) \cap A)
    BY <1>3, <2>1, FS_Difference
  <2>3. (1..L) \cap A = A
    BY <1>2
  <2>4. IsFiniteSet(A)
    BY <2>1, <2>3, FS_Intersection
  <2>5. Cardinality(A) \in Nat
    BY <2>4, FS_CardinalityType
  <2>6. Cardinality(B) = L - Cardinality(A)
    BY <2>1, <2>2, <2>3
  <2> QED
    BY SMTT(30), <2>5, <2>6
<1>13. PICK xb : xb = x \o <<b>>
  OBVIOUS
<1>14. xb \in Seq(Batches) /\ Len(xb) = Cardinality(A) + 1 /\ xb = Append(x, b)
  BY SMTT(30), <1>9, <1>13
<1>15. s = xb \o z
  BY <1>6, <1>13
<1>16. s \in Seq(Batches) /\ Len(s) = Len(xb) + Len(z)
  BY <1>10, <1>14, <1>15, ConcatFacts
<1>17. Cardinality(A) \in Nat /\ Cardinality(B) \in Nat
  BY SMTT(30), <1>9, <1>10
<1>18. \A y : y \in Range(s) <=> y \in Range(xb) \/ y \in Range(z)
  BY <1>10, <1>14, <1>15, RangeConcat
<1>19. Range(xb) = Range(x) \cup {b}
  BY SMTT(30), <1>9, <1>14, RangeFacts
<1>20. DOMAIN bs = A \cup B
  BY SMTT(30), <1>1, <1>2, <1>3
<1>21. \A y : y \in Range(bs) <=> \E i \in A \cup B : y = bs[i]
  BY <1>20 DEF Range
<1>22. \A y : y \in Range(s) <=> y \in Range(bs) \/ y = b
  BY <1>9, <1>11, <1>18, <1>19, <1>21
<1>23. Len(s) = Len(bs) + 1
  BY SMTT(30), <1>1, <1>10, <1>12, <1>14, <1>16, <1>17
<1> QED
  BY <1>16, <1>22, <1>23 DEF Adds

\* The workers that have a batch.
Busy(wk) == {w \in Workers : wk[w] # Idle}

\* The workers other than w have in wk2 what they had in wk.
Others(wk, wk2, w) == \A v \in Workers : v # w => wk2[v] = wk[v]

\* One worker gets a batch, goes on with it, or is relieved of it.
LEMMA BusyFacts ==
    ASSUME NEW wk, NEW wk2, NEW w \in Workers, Others(wk, wk2, w)
    PROVE  /\ wk[w] = Idle /\ wk2[w] # Idle => Cardinality(Busy(wk2)) = Cardinality(Busy(wk)) + 1
           /\ wk[w] # Idle /\ wk2[w] # Idle => Cardinality(Busy(wk2)) = Cardinality(Busy(wk))
           /\ wk[w] # Idle /\ wk2[w] = Idle => Cardinality(Busy(wk2)) = Cardinality(Busy(wk)) - 1
<1>1. IsFiniteSet(Busy(wk))
  <2>1. Busy(wk) \in SUBSET Workers
    BY DEF Busy
  <2> QED
    BY <2>1, BatchesAssumption, FS_Subset
<1>2. \A v \in Workers : v # w => wk2[v] = wk[v]
  BY DEF Others
<1>3. ASSUME wk[w] = Idle, wk2[w] # Idle PROVE Cardinality(Busy(wk2)) = Cardinality(Busy(wk)) + 1
  <2>1. Busy(wk2) = Busy(wk) \cup {w} /\ w \notin Busy(wk)
    <3>1. \A v \in Workers : v \in Busy(wk2) <=> v \in Busy(wk) \/ v = w
      BY <1>2, <1>3 DEF Busy
    <3>2. Busy(wk2) \subseteq Workers /\ Busy(wk) \subseteq Workers /\ w \notin Busy(wk)
      BY <1>3 DEF Busy
    <3> QED
      BY <3>1, <3>2
  <2> QED
    BY <1>1, <2>1, FS_AddElement
<1>4. ASSUME wk[w] # Idle, wk2[w] # Idle PROVE Cardinality(Busy(wk2)) = Cardinality(Busy(wk))
  <2>1. Busy(wk2) = Busy(wk)
    BY <1>2, <1>4 DEF Busy
  <2> QED
    BY <2>1
<1>5. ASSUME wk[w] # Idle, wk2[w] = Idle PROVE Cardinality(Busy(wk2)) = Cardinality(Busy(wk)) - 1
  <2>1. Busy(wk2) = Busy(wk) \ {w} /\ w \in Busy(wk)
    BY <1>2, <1>5 DEF Busy
  <2> QED
    BY <1>1, <2>1, FS_RemoveElement
<1> QED
  BY <1>3, <1>4, <1>5

\* The batches of a service that starts: to be handed out, or the end.
LEMMA FirstFacts ==
    ASSUME retention \in Slots, low \in Slots
    PROVE  /\ SeqOK(first) /\ first[1].end = low
           /\ \A i \in 1..N : first[i].state \in {"init", "endSequence"}
<1>1. N \in Nat /\ N # 0 /\ 1 \in 1..N /\ retention \in Nat
  BY SMTT(30), NType, BatchFields
<1>2. PICK r : r = first
  OBVIOUS
<1>3. r = batchesBelow(low, N)
  BY <1>2 DEF first
<1>4. Chain(r, N) /\ r[1] = before(low)
  BY <1>1, <1>3, BelowChain
<1>5. r[1].end = low
  BY <1>4, BeforeFacts
<1>6. ASSUME NEW i \in 1..N PROVE Held(r[i]) /\ r[i].state \in {"init", "endSequence"}
  <2>1. PICK p \in Slots : r[i] = before(p)
    <3>1. Made(r, N)
      BY <1>1, <1>3, BelowChain
    <3> QED
      BY <3>1 DEF Made
  <2>2. p \in Nat /\ r[i] \in Batches /\ r[i].end = p /\ r[i].blocks = NoBlocks
    BY SMTT(30), <2>1, BeforeFacts, BatchFields
  <2>3. CASE p <= retention
    <3>1. r[i].state = "endSequence"
      BY <2>1, <2>3, BeforeFacts
    <3>2. expired(r[i])
      BY <2>2, <2>3, ExpiredFacts
    <3> QED
      BY <3>1, <3>2 DEF Held, Active
  <2>4. CASE p > retention
    <3>1. r[i].state = "init" /\ r[i].begin < p
      BY <2>1, <2>4, BeforeFacts
    <3> QED
      BY <2>2, <3>1 DEF Held, Active, Fits
  <2> QED
    BY SMTT(30), <1>1, <2>2, <2>3, <2>4
<1> QED
  BY <1>2, <1>4, <1>5, <1>6 DEF SeqOK

-----------------------------------------------------------------------------
(* The invariant.                                                          *)

\* The batches that the pool has, in its channels, in todo and at its workers.
Items == Range(toRouter) \cup Range(fromRouter) \cup Range(todo)
             \cup {worker[w].batch : w \in Busy(worker)}

\* Values that variables have, with more about the channels and the workers than TypeOK.
Typed ==
    /\ retention \in Slots /\ low \in Slots /\ stored \subseteq Slots /\ endSeq \in Nat
    /\ main \in {"check", "wait", "import", "complete", "failed"}
    /\ router \in {"select", "process", "stopped"}
    /\ importing \in Seq(Batches)
    /\ toRouter \in Seq(Batches) /\ fromRouter \in Seq(Batches) /\ todo \in Seq(Batches)
    /\ worker \in [Workers -> [doing : {"idle", "work", "done"}, batch : Batches]]
    /\ \A w \in Workers : worker[w].doing = "idle" => worker[w] = Idle

\* Outside importBatches every batch was handed out.
QuietOK(bs, m) == m # "import" => \A i \in 1..N : bs[i].state \notin {"init", "errRetryable"}

\* What importBatches has before it, q, are the first batches of the sequencer, unless they
\* have expired; only the first of the sequencer may have failed.
ImportsOK(bs, q, m) ==
    /\ m # "import" => q = <<>>
    /\ Len(q) <= N
    /\ \A k \in 1..Len(q) : /\ Fits(q[k]) /\ q[k].state = "importable"
                            /\ q[k] = bs[k] \/ (expired(q[k]) /\ expired(bs[k]))
    /\ Len(q) < N => expired(bs[Len(q) + 1]) \/ bs[Len(q) + 1].state # "importable"
    /\ \A i \in 1..N : bs[i].state = "errRetryable" /\ ~expired(bs[i]) => i = 1 /\ q = <<>>

\* The sequencer goes on where the status in the database begins, unless that has expired.
LowOK(bs, l, m) ==
    ~Truncated => /\ l = bs[1].end \/ l <= retention
                  /\ m = "complete" => l <= retention

\* A batch that was handed out is in the pool, and a new one is below those in the pool.
ItemsOK(bs, I) ==
    /\ \A b \in I : Fits(b) /\ (bs[N].begin <= b.begin \/ bs[N].begin <= retention)
    /\ \A i \in 1..N : bs[i].state = "sequenced" /\ ~expired(bs[i]) => \E b \in I : Follows(b, bs[i])
    /\ \A i \in 1..N : bs[i].state = "init" => \A b \in I : bs[i].end <= b.begin

\* There is room in the pool for the batches that wait, and after the first end of the
\* sequence every end takes the room of a batch.
CountsOK(bs, n, e, m) ==
    /\ n + Cardinality(waiting(bs)) <= N
    /\ m = "import" => n + e + 1 <= N
    /\ e > 0 => /\ n + e <= N
                /\ bs[N].begin <= retention
                /\ \A i \in 1..N : bs[i].state = "init" => expired(bs[i])

\* The inductive invariant of backfilling.
IInv ==
    /\ Typed /\ SeqOK(seq) /\ QuietOK(seq, main) /\ ImportsOK(seq, importing, main)
    /\ LowOK(seq, low, main) /\ ItemsOK(seq, Items) /\ CountsOK(seq, inPool, endSeq, main)
    /\ \A b \in Range(fromRouter) : b.state = "importable"

\* The pieces of the invariant after a step in which no slot expires.
LEMMA Primes ==
    ASSUME retention' = retention
    PROVE  /\ SeqOK(seq') => SeqOK(seq)'
           /\ QuietOK(seq', main') => QuietOK(seq, main)'
           /\ ImportsOK(seq', importing', main') => ImportsOK(seq, importing, main)'
           /\ LowOK(seq', low', main') => LowOK(seq, low, main)'
           /\ ItemsOK(seq', Items') => ItemsOK(seq, Items)'
           /\ CountsOK(seq', inPool', endSeq', main') => CountsOK(seq, inPool, endSeq, main)'
<1>1. SeqOK(seq') => SeqOK(seq)'
  BY DEF SeqOK, Chain, Held, Fits, Active, expired
<1>2. QuietOK(seq', main') => QuietOK(seq, main)'
  BY DEF QuietOK
<1>3. ImportsOK(seq', importing', main') => ImportsOK(seq, importing, main)'
  BY DEF ImportsOK, Fits, expired
<1>4. LowOK(seq', low', main') => LowOK(seq, low, main)'
  BY DEF LowOK
<1>5. ItemsOK(seq', Items') => ItemsOK(seq, Items)'
  BY DEF ItemsOK, Fits, Follows, expired
<1>6. CountsOK(seq', inPool', endSeq', main') => CountsOK(seq, inPool, endSeq, main)'
  BY DEF CountsOK, waiting, expired
<1> QED
  BY <1>1, <1>2, <1>3, <1>4, <1>5, <1>6

\* A later version of a later version is one.
LEMMA FollowsTrans ==
    ASSUME NEW x, NEW y, NEW z \in Batches, Follows(x, y), Follows(y, z)
    PROVE  Follows(x, z)
<1>1. x \in Batches /\ y \in Batches /\ x.seq >= y.seq /\ y.seq >= z.seq
  BY DEF Follows
<1>2. x.seq \in Nat /\ y.seq \in Nat /\ z.seq \in Nat
  BY <1>1, BatchFields
<1> QED
  BY SMTT(30), <1>1, <1>2 DEF Follows

\* The number of batches in the pool.
LEMMA PoolCount ==
    ASSUME NEW wk, NEW a \in Seq(Batches), NEW b \in Seq(Batches), NEW c \in Seq(Batches)
    PROVE  /\ Len(a) + Len(b) + Len(c) + Cardinality(Busy(wk)) \in Nat
           /\ Cardinality(Busy(wk)) \in Nat /\ IsFiniteSet(Busy(wk))
<1>1. IsFiniteSet(Busy(wk))
  <2>1. Busy(wk) \in SUBSET Workers
    BY DEF Busy
  <2> QED
    BY <2>1, BatchesAssumption, FS_Subset
<1>2. Cardinality(Busy(wk)) \in Nat
  BY <1>1, FS_CardinalityType
<1> QED
  BY SMTT(30), <1>1, <1>2

\* The pool goes on with its batches: none is lost, unless it has expired, and when one ends
\* the sequence it leaves the pool.
LEMMA PoolStep ==
    ASSUME IInv, retention' = retention, low' = low, seq' = seq, main' = main, importing' = importing,
           Typed',
           \A y \in Items' : Fits(y) /\ \E b \in Items : Follows(y, b),
           \A b \in Items : expired(b) \/ \E y \in Items' : Follows(y, b),
           \A b \in Range(fromRouter') : b.state = "importable",
           \/ inPool' = inPool /\ endSeq' = endSeq
           \/ inPool' + 1 = inPool /\ endSeq' \in {endSeq, endSeq + 1} /\ \E b \in Items : expired(b)
    PROVE  IInv'
<1>1. PICK I : I = Items
  OBVIOUS
<1>2. PICK J : J = Items'
  OBVIOUS
<1>3. /\ Typed /\ SeqOK(seq) /\ QuietOK(seq, main) /\ ImportsOK(seq, importing, main)
      /\ LowOK(seq, low, main) /\ ItemsOK(seq, I) /\ CountsOK(seq, inPool, endSeq, main)
  BY <1>1 DEF IInv
<1>4. retention \in Slots /\ retention \in Nat /\ N \in Nat /\ N \in 1..N
  BY <1>3, BatchFields, NType DEF Typed
<1>5. \A i \in 1..N : seq[i] \in Batches /\ seq[i].end \in Nat /\ seq[i].begin \in Nat /\ seq[i].begin <= seq[i].end
  BY <1>3, <1>4, ChainFacts DEF SeqOK
<1>6. SeqOK(seq') /\ QuietOK(seq', main') /\ ImportsOK(seq', importing', main') /\ LowOK(seq', low', main')
  BY <1>3
<1>7. \A b \in I : b \in Batches /\ b.begin < b.end /\ (seq[N].begin <= b.begin \/ seq[N].begin <= retention)
  BY <1>3 DEF ItemsOK, Fits
<1>8. ItemsOK(seq', J)
  <2>1. \A y \in J : Fits(y) /\ \E b \in I : Follows(y, b)
    BY <1>1, <1>2
  <2>2. \A b \in I : expired(b) \/ \E y \in J : Follows(y, b)
    BY <1>1, <1>2
  <2>3. ASSUME NEW y \in J PROVE Fits(y) /\ (seq[N].begin <= y.begin \/ seq[N].begin <= retention)
    <3>1. PICK b \in I : Follows(y, b)
      BY <2>1
    <3> QED
      BY <1>7, <2>1, <3>1 DEF Follows
  <2>4. ASSUME NEW i \in 1..N, seq[i].state = "sequenced", ~expired(seq[i])
        PROVE  \E y \in J : Follows(y, seq[i])
    <3>1. PICK b \in I : Follows(b, seq[i])
      BY <1>3, <2>4 DEF ItemsOK
    <3>2. ~expired(b)
      BY <2>4, <3>1 DEF expired, Follows
    <3>3. PICK y \in J : Follows(y, b)
      BY <2>2, <3>2
    <3>4. Follows(y, seq[i])
      BY <1>5, <3>1, <3>3, FollowsTrans
    <3> QED
      BY <3>4
  <2>5. ASSUME NEW i \in 1..N, seq[i].state = "init", NEW y \in J PROVE seq[i].end <= y.begin
    <3>1. PICK b \in I : Follows(y, b)
      BY <2>1
    <3>2. seq[i].end <= b.begin
      BY <1>3, <2>5 DEF ItemsOK
    <3> QED
      BY <3>1, <3>2 DEF Follows
  <2>6. ItemsOK(seq, J)
    BY <2>3, <2>4, <2>5 DEF ItemsOK
  <2> QED
    BY <2>6
<1>9. CountsOK(seq', inPool', endSeq', main')
  <2>1. CASE inPool' = inPool /\ endSeq' = endSeq
    BY <1>3, <2>1
  <2>2. CASE inPool' + 1 = inPool /\ endSeq' \in {endSeq, endSeq + 1} /\ \E b \in Items : expired(b)
    <3>1. PICK n \in Nat, e \in Nat, n1 \in Nat, e1 \in Nat, c \in Nat :
             /\ n = inPool /\ e = endSeq /\ n1 = inPool' /\ e1 = endSeq' /\ c = Cardinality(waiting(seq))
      <4>1. inPool \in Nat /\ endSeq \in Nat
        BY <1>3, PoolCount DEF Typed, inPool, Busy
      <4>2. inPool' \in Nat /\ endSeq' \in Nat
        BY PoolCount DEF Typed, inPool, Busy
      <4>3. waiting(seq) \subseteq 1..N
        BY DEF waiting
      <4> QED
        BY <4>1, <4>2, <4>3, FiniteBatches
    <3>2. PICK b \in I : expired(b)
      BY <1>1, <2>2
    <3>3. b \in Batches /\ b.begin \in Nat /\ b.end \in Nat /\ b.begin < b.end /\ b.end <= retention
      BY <1>4, <1>7, <3>2, ExpiredFacts, BatchFields
    <3>4. seq[N].begin <= retention
      BY SMTT(30), <1>4, <1>5, <1>7, <3>3
    <3>5. ASSUME NEW i \in 1..N, seq[i].state = "init" PROVE expired(seq[i])
      <4>1. seq[i].end <= b.begin
        BY <1>3, <3>5 DEF ItemsOK
      <4> QED
        BY SMTT(30), <1>4, <1>5, <3>3, <4>1, ExpiredFacts
    <3>6. /\ n + c <= N /\ (main = "import" => n + e + 1 <= N) /\ (e > 0 => n + e <= N)
      BY <1>3, <3>1 DEF CountsOK
    <3>7. n1 + 1 = n /\ (e1 = e \/ e1 = e + 1)
      BY <2>2, <3>1
    <3>8. /\ n1 + c <= N /\ (main = "import" => n1 + e1 + 1 <= N) /\ (e1 > 0 => n1 + e1 <= N)
      BY SMTT(30), <1>4, <3>6, <3>7
    <3>9. CountsOK(seq, n1, e1, main)
      BY <3>1, <3>4, <3>5, <3>8 DEF CountsOK
    <3> QED
      BY <3>1, <3>9
  <2> QED
    BY <2>1, <2>2
<1>10. /\ SeqOK(seq)' /\ QuietOK(seq, main)' /\ ImportsOK(seq, importing, main)' /\ LowOK(seq, low, main)'
       /\ ItemsOK(seq, Items)' /\ CountsOK(seq, inPool, endSeq, main)'
  BY <1>2, <1>6, <1>8, <1>9, Primes
<1> QED
  BY <1>10 DEF IInv

\* The pool goes on with the same batches.
LEMMA PoolSame ==
    ASSUME IInv, retention' = retention, low' = low, seq' = seq, main' = main, importing' = importing,
           Typed', \A y : y \in Items' <=> y \in Items,
           \A b \in Range(fromRouter') : b.state = "importable",
           inPool' = inPool, endSeq' = endSeq
    PROVE  IInv'
<1>1. \A b \in Items : Fits(b)
  BY DEF IInv, ItemsOK
<1>2. \A b \in Items : b \in Batches
  BY <1>1 DEF Fits
<1>3. \A b \in Items : Follows(b, b)
  BY SMTT(30), <1>2, BatchFields DEF Follows
<1>4. \A y \in Items' : Fits(y) /\ \E b \in Items : Follows(y, b)
  BY <1>1, <1>3
<1>5. \A b \in Items : expired(b) \/ \E y \in Items' : Follows(y, b)
  BY <1>3
<1> QED
  BY <1>4, <1>5, PoolStep

\* The members of Items.
LEMMA ItemsFacts ==
    ASSUME NEW y
    PROVE  /\ y \in Items <=> \/ y \in Range(toRouter) \/ y \in Range(fromRouter) \/ y \in Range(todo)
                              \/ \E w \in Workers : worker[w] # Idle /\ y = worker[w].batch
           /\ y \in Items' <=> \/ y \in Range(toRouter') \/ y \in Range(fromRouter') \/ y \in Range(todo')
                               \/ \E w \in Workers : worker'[w] # Idle /\ y = worker'[w].batch
<1>1. y \in Items <=> \/ y \in Range(toRouter) \/ y \in Range(fromRouter) \/ y \in Range(todo)
                      \/ \E w \in Workers : worker[w] # Idle /\ y = worker[w].batch
  BY DEF Items, Busy
<1>2. y \in Items' <=> \/ y \in Range(toRouter') \/ y \in Range(fromRouter') \/ y \in Range(todo')
                       \/ \E w \in Workers : worker'[w] # Idle /\ y = worker'[w].batch
  BY DEF Items, Busy
<1> QED
  BY <1>1, <1>2

\* The pool's own counts.
LEMMA Counts ==
    ASSUME Typed
    PROVE  /\ Len(toRouter) \in Nat /\ Len(fromRouter) \in Nat /\ Len(todo) \in Nat
           /\ Cardinality(Busy(worker)) \in Nat
           /\ inPool = Len(toRouter) + Len(fromRouter) + Len(todo) + Cardinality(Busy(worker))
           /\ inPool' = Len(toRouter') + Len(fromRouter') + Len(todo') + Cardinality(Busy(worker'))
<1>1. Len(toRouter) \in Nat /\ Len(fromRouter) \in Nat /\ Len(todo) \in Nat
  BY SMTT(30) DEF Typed
<1>2. Cardinality(Busy(worker)) \in Nat
  BY PoolCount DEF Typed
<1>3. inPool = Len(toRouter) + Len(fromRouter) + Len(todo) + Cardinality(Busy(worker))
  BY DEF inPool, Busy
<1>4. inPool' = Len(toRouter') + Len(fromRouter') + Len(todo') + Cardinality(Busy(worker'))
  BY DEF inPool, Busy
<1> QED
  BY <1>1, <1>2, <1>3, <1>4

\* The router takes a batch from the service.
LEMMA ReceivesKeeps ==
    ASSUME IInv, RouterReceives
    PROVE  IInv'
<1>1. Typed
  BY DEF IInv
<1>2. /\ toRouter \in Seq(Batches) /\ toRouter # <<>> /\ todo \in Seq(Batches)
      /\ todo' = sortBatchDesc(todo, Head(toRouter)) /\ toRouter' = Tail(toRouter)
  BY <1>1 DEF RouterReceives, Typed
<1>3. /\ Head(toRouter) \in Batches /\ Tail(toRouter) \in Seq(Batches)
      /\ Range(toRouter) = {Head(toRouter)} \cup Range(Tail(toRouter))
      /\ Len(Tail(toRouter)) = Len(toRouter) - 1
  BY <1>2, RangeFacts
<1>4. todo' \in Seq(Batches) /\ Len(todo') = Len(todo) + 1 /\ Adds(todo', todo, Head(toRouter))
  BY <1>2, <1>3, SortFacts
<1>5. \A y : y \in Range(todo') <=> y \in Range(todo) \/ y = Head(toRouter)
  BY <1>4 DEF Adds
<1>6. /\ UNCHANGED <<retention, low, stored, seq, main, importing, endSeq, fromRouter, worker>>
      /\ router' = "process"
  BY DEF RouterReceives
<1>7. Typed'
  BY <1>1, <1>2, <1>3, <1>4, <1>6 DEF Typed
<1>8. \A y : y \in Items' <=> y \in Items
  BY <1>2, <1>3, <1>5, <1>6, ItemsFacts
<1>9. inPool' = inPool
  <2>1. Len(toRouter') = Len(toRouter) - 1 /\ Len(fromRouter') = Len(fromRouter) /\ Len(todo') = Len(todo) + 1
    BY <1>2, <1>3, <1>4, <1>6
  <2>2. Cardinality(Busy(worker')) = Cardinality(Busy(worker))
    BY <1>6
  <2> QED
    BY SMTT(30), <1>1, <2>1, <2>2, Counts
<1>10. \A b \in Range(fromRouter') : b.state = "importable"
  BY <1>6 DEF IInv
<1> QED
  BY <1>6, <1>7, <1>8, <1>9, <1>10, PoolSame

\* Steps of the router that only change what it does next.
LEMMA RouterTurnsKeep ==
    ASSUME IInv, RouterTick \/ ProcessEnds \/ RouterFails
    PROVE  IInv'
<1>1. Typed
  BY DEF IInv
<1>2. /\ UNCHANGED <<retention, low, stored, seq, main, importing, endSeq, toRouter, fromRouter, todo, worker>>
      /\ router' \in {"select", "process", "stopped"}
  BY DEF RouterTick, ProcessEnds, RouterFails
<1>3. Typed'
  BY <1>1, <1>2 DEF Typed
<1>4. \A y : y \in Items' <=> y \in Items
  BY <1>2, ItemsFacts
<1>5. inPool' = inPool
  BY <1>2 DEF inPool
<1>6. \A b \in Range(fromRouter') : b.state = "importable"
  BY <1>2 DEF IInv
<1> QED
  BY <1>2, <1>3, <1>4, <1>5, <1>6, PoolSame

\* The router drops a batch that has expired.
LEMMA ExpiredKeeps ==
    ASSUME IInv, ProcessExpired
    PROVE  IInv'
<1>1. Typed
  BY DEF IInv
<1>2. /\ todo \in Seq(Batches) /\ todo # <<>> /\ todo' = Tail(todo) /\ expired(Head(todo))
      /\ endSeq \in Nat /\ endSeq' \in {endSeq, endSeq + 1}
  BY <1>1 DEF ProcessExpired, Typed
<1>3. /\ Tail(todo) \in Seq(Batches) /\ Range(todo) = {Head(todo)} \cup Range(Tail(todo))
      /\ Len(Tail(todo)) = Len(todo) - 1
  BY <1>2, RangeFacts
<1>4. UNCHANGED <<retention, low, stored, seq, main, importing, toRouter, fromRouter, router, worker>>
  BY DEF ProcessExpired
<1>5. Typed'
  <2>1. endSeq' \in Nat
    BY SMTT(30), <1>2
  <2> QED
    BY <1>1, <1>2, <1>3, <1>4, <2>1 DEF Typed
<1>6. Head(todo) \in Items /\ \A y : y \in Items <=> y \in Items' \/ y = Head(todo)
  BY <1>2, <1>3, <1>4, ItemsFacts
<1>7. inPool' + 1 = inPool
  BY SMTT(30), <1>1, <1>2, <1>3, <1>4, Counts
<1>8. \A b \in Range(fromRouter') : b.state = "importable"
  BY <1>4 DEF IInv
<1>9. \A b \in Items : Fits(b) /\ b \in Batches
  BY DEF IInv, ItemsOK, Fits
<1>10. \A b \in Items : Follows(b, b)
  BY SMTT(30), <1>9, BatchFields DEF Follows
<1>11. \A y \in Items' : Fits(y) /\ \E b \in Items : Follows(y, b)
  BY <1>6, <1>9, <1>10
<1>12. \A b \in Items : expired(b) \/ \E y \in Items' : Follows(y, b)
  BY <1>2, <1>6, <1>10
<1>13. \E b \in Items : expired(b)
  BY <1>2, <1>6
<1> QED
  BY <1>2, <1>4, <1>5, <1>7, <1>8, <1>11, <1>12, <1>13, PoolStep

=============================================================================
