--------------------------- MODULE BackfillProofs ---------------------------
(***************************************************************************)
(* Backfilling is correct for any number of workers, any size of a batch   *)
(* and any number of failures, restarts and slots that expire: the batches *)
(* of the sequencer have no gap, the pool is never full, the service is    *)
(* complete only when nothing is missing, and the status in the database   *)
(* is true.  The inductive invariant, IInv, is in BackfillSequenceProofs.  *)
(***************************************************************************)
EXTENDS BackfillStepProofs

\* A step is first-order unless it says otherwise.
USE ZenonT(30)

-----------------------------------------------------------------------------
(* The schedule of the service loop.                                       *)

\* sequence takes no more room in the pool than the batches that waited had.
LEMMA ArrangedCounts ==
    ASSUME retention \in Slots, NEW bs, SeqOK(bs), NEW a, a = arranged(bs),
           ImportsOK(bs, <<>>, "import"), NEW n \in Nat, NEW e \in Nat, CountsOK(bs, n, e, "import")
    PROVE  CountsOK(a, n + Cardinality(handed(bs)), e + ends(bs), "check")
<1>1. N \in Nat /\ N \in 1..N /\ Chain(bs, N)
  BY NType DEF SeqOK
<1>2. waiting(a) \subseteq waiting(bs) \ handed(bs) /\ handed(bs) \subseteq waiting(bs)
  BY ArrangedOK
<1>3. waiting(bs) \subseteq 1..N /\ waiting(a) \subseteq 1..N /\ handed(bs) \subseteq 1..N
  BY DEF waiting, handed
<1>4. PICK h \in Nat, x \in Nat, y \in Nat :
         h = Cardinality(handed(bs)) /\ x = Cardinality(waiting(a)) /\ y = Cardinality(waiting(bs))
  BY <1>3, FiniteBatches
<1>5. IsFiniteSet(handed(bs)) /\ IsFiniteSet(waiting(a)) /\ IsFiniteSet(waiting(bs))
  BY <1>3, FiniteBatches
<1>6. h + x <= y
  <2>1. handed(bs) \cap waiting(a) = {} /\ handed(bs) \cup waiting(a) \subseteq waiting(bs)
    BY <1>2
  <2>2. Cardinality(handed(bs) \cup waiting(a)) = h + x
    <3>1. Cardinality(handed(bs) \cup waiting(a)) =
            Cardinality(handed(bs)) + Cardinality(waiting(a)) - Cardinality(handed(bs) \cap waiting(a))
      BY <1>5, FS_Union
    <3>2. Cardinality(handed(bs) \cap waiting(a)) = 0
      BY <2>1, FS_EmptySet
    <3> QED
      BY SMTT(30), <1>4, <3>1, <3>2
  <2>3. Cardinality(handed(bs) \cup waiting(a)) <= Cardinality(waiting(bs))
    BY <1>5, <2>1, FS_Subset
  <2> QED
    BY <1>4, <2>2, <2>3
<1>7. n + y <= N /\ n + e + 1 <= N
  BY <1>4 DEF CountsOK
<1>8. e > 0 => h <= 1
  <2> SUFFICES ASSUME e > 0 PROVE h <= 1
    OBVIOUS
  <2>1. handed(bs) \subseteq {1}
    <3> SUFFICES ASSUME NEW i \in handed(bs) PROVE i = 1
      OBVIOUS
    <3>1. i \in 1..N /\ handedOut(bs, i)
      BY DEF handed
    <3>2. bs[i].state \in {"init", "errRetryable"} /\ ~expired(bs[i])
      BY <3>1, ArrangedFacts
    <3>3. bs[i].state = "errRetryable"
      BY <3>1, <3>2 DEF CountsOK
    <3> QED
      BY <3>1, <3>2, <3>3 DEF ImportsOK
  <2>2. IsFiniteSet({1}) /\ Cardinality({1}) = 1
    BY FS_Singleton
  <2>3. Cardinality(handed(bs)) <= Cardinality({1})
    BY <2>1, <2>2, FS_Subset
  <2> QED
    BY <1>4, <2>2, <2>3
<1>9. ends(bs) \in {0, 1} /\ (ends(bs) = 1 => handed(bs) = {} /\ a[N].begin <= retention)
  BY EndsFacts
<1>10. ends(bs) = 1 => h = 0
  BY <1>4, <1>9, FS_EmptySet
<1>11. PICK r \in {0, 1} : r = ends(bs)
  BY <1>9
<1>12. n + h + x <= N /\ (e + r > 0 => n + h + (e + r) <= N)
  <2>1. r = 1 => h = 0
    BY <1>10, <1>11
  <2> QED
    BY SMTT(30), <1>1, <1>6, <1>7, <1>8, <1>11, <2>1
<1>13. e + r > 0 => a[N].begin <= retention
  <2>1. e > 0 => bs[N].begin <= retention
    BY DEF CountsOK
  <2>2. a[N].begin = bs[N].begin
    BY <1>1, ArrangedFacts DEF Follows
  <2>3. e + r > 0 => e > 0 \/ r = 1
    BY SMTT(30), <1>11
  <2> QED
    BY <1>9, <1>11, <2>1, <2>2, <2>3
<1>14. \A i \in 1..N : a[i].state # "init"
  BY ArrangedFacts
<1>15. CountsOK(a, n + h, e + r, "check")
  BY <1>4, <1>12, <1>13, <1>14 DEF CountsOK
<1> QED
  BY <1>4, <1>11, <1>15

\* The batches in the pool are those that were there and those that sequence hands out.
HandsOut(J, I, bs, a) == \A y : y \in J <=> y \in I \/ \E i \in handed(bs) : y = a[i]

\* sequence leaves the batches in place, and those that it hands out are in the pool.
LEMMA ArrangedKeeps ==
    ASSUME retention \in Slots, NEW bs, SeqOK(bs), NEW a, a = arranged(bs), NEW l, LowOK(bs, l, "check"),
           ImportsOK(bs, <<>>, "import"), NEW I, ItemsOK(bs, I),
           NEW J, HandsOut(J, I, bs, a)
    PROVE  /\ SeqOK(a) /\ QuietOK(a, "check") /\ ImportsOK(a, <<>>, "check") /\ LowOK(a, l, "check")
           /\ ItemsOK(a, J)
<1>1. N \in Nat /\ N \in 1..N /\ 1 \in 1..N /\ Chain(bs, N)
  BY NType DEF SeqOK
<1>2. SeqOK(a) /\ Chain(a, N)
  BY ArrangedOK DEF SeqOK
<1>3. \A i \in 1..N : /\ a[i] \in Batches /\ Follows(a[i], bs[i]) /\ Held(a[i])
                      /\ a[i].state \notin {"init", "errRetryable"}
                      /\ a[i].state = "importable" => a[i] = bs[i]
                      /\ a[i].state = "sequenced" => handedOut(bs, i) \/ a[i] = bs[i]
  BY ArrangedFacts
<1>4. QuietOK(a, "check")
  BY <1>3 DEF QuietOK
<1>5. ImportsOK(a, <<>>, "check")
  <2>1. Len(<<>>) = 0 /\ 0 + 1 = 1 /\ 0 <= N /\ 1..0 = {} /\ 0 < N
    BY SMTT(30), NType
  <2>2. expired(bs[1]) \/ bs[1].state # "importable"
    BY <2>1 DEF ImportsOK
  <2>3. expired(a[1]) \/ a[1].state # "importable"
    BY <1>1, <1>3, <2>2
  <2> QED
    BY <1>3, <2>1, <2>3 DEF ImportsOK
<1>6. LowOK(a, l, "check")
  <2>1. a[1].end = bs[1].end
    BY <1>1, <1>3 DEF Follows
  <2> QED
    BY <2>1 DEF LowOK
<1>7. ASSUME NEW y \in J PROVE Fits(y) /\ (a[N].begin <= y.begin \/ a[N].begin <= retention)
  <2>1. a[N].begin = bs[N].begin
    BY <1>1, <1>3 DEF Follows
  <2>2. CASE y \in I
    BY <2>1, <2>2 DEF ItemsOK
  <2>3. CASE \E i \in handed(bs) : y = a[i]
    <3>1. PICK i \in 1..N : handedOut(bs, i) /\ y = a[i]
      BY <2>3 DEF handed
    <3>2. a[i].state = "sequenced"
      BY <3>1 DEF handedOut
    <3>3. Fits(y)
      BY <1>3, <3>1, <3>2 DEF Held, Active
    <3>4. a[N].begin <= a[i].begin
      <4>1. /\ a[N].begin <= a[N].end /\ a[N].begin \in Nat /\ a[N].end \in Nat /\ a[i].begin \in Nat
        BY <1>1, <1>2, ChainFacts
      <4>2. i < N => a[N].end <= a[i].begin
        BY <1>1, <1>2, Descending
      <4>3. i < N \/ i = N
        BY SMTT(30), <1>1
      <4> QED
        BY SMTT(30), <4>1, <4>2, <4>3
    <3> QED
      BY <3>1, <3>3, <3>4
  <2> QED
    BY <1>7, <2>2, <2>3 DEF HandsOut
<1>8. ASSUME NEW i \in 1..N, a[i].state = "sequenced", ~expired(a[i]) PROVE \E y \in J : Follows(y, a[i])
  <2>1. CASE handedOut(bs, i)
    <3>1. a[i] \in J
      BY <2>1 DEF handed, HandsOut
    <3>2. Follows(a[i], a[i])
      BY SMTT(30), <1>3, BatchFields DEF Follows
    <3> QED
      BY <3>1, <3>2
  <2>2. CASE a[i] = bs[i]
    <3>1. PICK y \in I : Follows(y, bs[i])
      BY <1>8, <2>2 DEF ItemsOK
    <3> QED
      BY <2>2, <3>1 DEF HandsOut
  <2> QED
    BY <1>3, <1>8, <2>1, <2>2
<1>9. ItemsOK(a, J)
  BY <1>3, <1>7, <1>8 DEF ItemsOK
<1> QED
  BY <1>2, <1>4, <1>5, <1>6, <1>9

\* The service hands the next batches to the pool.
LEMMA ScheduleKeeps ==
    ASSUME IInv, ScheduleTodos
    PROVE  IInv'
<1>1. /\ Typed /\ retention \in Slots /\ SeqOK(seq) /\ toRouter \in Seq(Batches) /\ endSeq \in Nat
      /\ ItemsOK(seq, Items)
  BY DEF IInv, Typed
<1>2. PICK a : a = arranged(seq)
  OBVIOUS
<1>3. /\ main = "import" /\ importing = <<>> /\ seq' = a /\ toRouter' = toRouter \o given(seq)
      /\ endSeq' = endSeq + ends(seq) /\ main' = "check"
      /\ UNCHANGED <<retention, low, stored, importing, fromRouter, todo, router, worker>>
  BY <1>2 DEF ScheduleTodos
<1>4. ImportsOK(seq, <<>>, "import") /\ CountsOK(seq, inPool, endSeq, "import") /\ LowOK(seq, low, "import")
  BY <1>3 DEF IInv
<1>5. LowOK(seq, low, "check")
  BY <1>4 DEF LowOK
<1>6. PICK g \in Seq(Batches) : g = given(seq)
  BY <1>1, <1>2, GivenFacts
<1>7. Len(g) = Cardinality(handed(seq)) /\ \A y : y \in Range(g) <=> \E i \in handed(seq) : y = a[i]
  BY SMTT(30), <1>1, <1>2, <1>6, GivenFacts
<1>8. toRouter' \in Seq(Batches) /\ Len(toRouter') = Len(toRouter) + Len(g) /\ Range(toRouter') = Range(toRouter) \cup Range(g)
  <2>1. toRouter' = toRouter \o g
    BY <1>3, <1>6
  <2>2. Range(toRouter \o g) = Range(toRouter) \cup Range(g)
    BY SMTT(30), <1>1, <1>6, RangeFacts
  <2>3. toRouter \o g \in Seq(Batches) /\ Len(toRouter \o g) = Len(toRouter) + Len(g)
    BY SMTT(30), <1>1, <1>6
  <2> QED
    BY <2>1, <2>2, <2>3
<1>9. HandsOut(Items', Items, seq, a)
  <2> SUFFICES ASSUME NEW y PROVE y \in Items' <=> y \in Items \/ \E i \in handed(seq) : y = a[i]
    BY DEF HandsOut
  <2>1. y \in Range(toRouter') <=> y \in Range(toRouter) \/ \E i \in handed(seq) : y = a[i]
    BY <1>7, <1>8
  <2> QED
    BY <1>3, <2>1, ItemsFacts
<1>10. /\ SeqOK(seq') /\ QuietOK(seq', main') /\ ImportsOK(seq', importing', main') /\ LowOK(seq', low', main')
       /\ ItemsOK(seq', Items')
  <2>1. /\ SeqOK(a) /\ QuietOK(a, "check") /\ ImportsOK(a, <<>>, "check") /\ LowOK(a, low, "check")
        /\ ItemsOK(a, Items')
    BY <1>1, <1>2, <1>4, <1>5, <1>9, ArrangedKeeps
  <2> QED
    BY <1>3, <2>1
<1>11. inPool \in Nat /\ inPool' = inPool + Len(g)
  <2>1. Len(fromRouter') = Len(fromRouter) /\ Len(todo') = Len(todo) /\ Cardinality(Busy(worker')) = Cardinality(Busy(worker))
    BY <1>3
  <2>2. Len(g) \in Nat
    BY SMTT(30), <1>6
  <2> QED
    BY SMTT(30), <1>1, <1>8, <2>1, <2>2, Counts
<1>12. CountsOK(seq', inPool', endSeq', main')
  <2>1. CountsOK(a, inPool + Cardinality(handed(seq)), endSeq + ends(seq), "check")
    BY <1>1, <1>2, <1>4, <1>11, ArrangedCounts
  <2> QED
    BY <1>3, <1>7, <1>11, <2>1
<1>13. Typed'
  <2>1. ends(seq) \in {0, 1}
    BY <1>1, <1>2, EndsFacts
  <2>2. endSeq' \in Nat
    BY SMTT(30), <1>1, <1>3, <2>1
  <2> QED
    BY <1>1, <1>3, <1>8, <2>2 DEF Typed
<1>14. \A y \in Range(fromRouter') : y.state = "importable"
  BY <1>3 DEF IInv
<1> QED
  BY <1>3, <1>10, <1>12, <1>13, <1>14, Primes DEF IInv

-----------------------------------------------------------------------------
(* Start and restart, the end, and time that passes.                       *)

\* The sequencer of a service that starts.
LEMMA StartFacts ==
    ASSUME retention \in Slots, low \in Slots, NEW a, a = arranged(first), NEW J, HandsOut(J, {}, first, a)
    PROVE  /\ SeqOK(a) /\ QuietOK(a, "check") /\ ImportsOK(a, <<>>, "check") /\ LowOK(a, low, "check")
           /\ ItemsOK(a, J)
           /\ CountsOK(a, Cardinality(handed(first)), ends(first), "check")
           /\ given(first) \in Seq(Batches) /\ Len(given(first)) = Cardinality(handed(first))
           /\ ends(first) \in Nat
           /\ low < retention => handed(first) = {}
<1>1. PICK bs : bs = first
  OBVIOUS
<1>2. SeqOK(bs) /\ bs[1].end = low /\ \A i \in 1..N : bs[i].state \in {"init", "endSequence"}
  BY <1>1, FirstFacts
<1>3. N \in Nat /\ N >= 1 /\ 1 \in 1..N
  BY NType
<1>4. ImportsOK(bs, <<>>, "import")
  <2>1. Len(<<>>) = 0 /\ 0 + 1 = 1 /\ 0 <= N /\ 1..0 = {}
    BY SMTT(30), <1>3
  <2> QED
    BY <1>2, <1>3, <2>1 DEF ImportsOK
<1>5. ItemsOK(bs, {})
  BY <1>2 DEF ItemsOK
<1>6. LowOK(bs, low, "check")
  BY <1>2 DEF LowOK
<1>7. CountsOK(bs, 0, 0, "import")
  <2>1. Cardinality(waiting(bs)) \in Nat /\ Cardinality(waiting(bs)) <= N
    BY FiniteBatches DEF waiting
  <2> QED
    BY SMTT(30), <1>3, <2>1 DEF CountsOK
<1>8. a = arranged(bs) /\ HandsOut(J, {}, bs, a)
  BY <1>1
<1>9. /\ SeqOK(a) /\ QuietOK(a, "check") /\ ImportsOK(a, <<>>, "check") /\ LowOK(a, low, "check")
      /\ ItemsOK(a, J)
  BY <1>2, <1>4, <1>5, <1>6, <1>8, ArrangedKeeps
<1>10. CountsOK(a, 0 + Cardinality(handed(bs)), 0 + ends(bs), "check")
  BY <1>2, <1>4, <1>7, <1>8, ArrangedCounts
<1>11. Cardinality(handed(bs)) \in Nat /\ ends(bs) \in Nat
  <2>1. Cardinality(handed(bs)) \in Nat
    BY FiniteBatches DEF handed
  <2>2. ends(bs) \in {0, 1}
    BY <1>2, <1>8, EndsFacts
  <2> QED
    BY SMTT(30), <2>1, <2>2
<1>12. 0 + Cardinality(handed(bs)) = Cardinality(handed(bs)) /\ 0 + ends(bs) = ends(bs)
  BY SMTT(30), <1>11
<1>13. CountsOK(a, Cardinality(handed(bs)), ends(bs), "check")
  BY <1>10, <1>12
<1>14. given(bs) \in Seq(Batches) /\ Len(given(bs)) = Cardinality(handed(bs))
  BY <1>2, <1>8, GivenFacts
<1>15. ASSUME low < retention PROVE handed(bs) = {}
  <2> SUFFICES ASSUME NEW i \in handed(bs) PROVE FALSE
    OBVIOUS
  <2>1. i \in 1..N /\ handedOut(bs, i)
    BY DEF handed
  <2>2. ~expired(bs[i]) /\ Chain(bs, N)
    BY <1>2, <2>1, ArrangedFacts DEF SeqOK
  <2>3. /\ bs[1].begin <= bs[1].end /\ bs[1].begin \in Nat /\ bs[1].end \in Nat /\ bs[i].end \in Nat
        /\ expired(bs[i]) <=> bs[i].end <= retention
    BY <1>3, <2>1, <2>2, ChainFacts
  <2>4. i # 1 => bs[i].end <= bs[1].begin
    BY SMTT(30), <1>3, <2>1, <2>2, Descending
  <2>5. retention \in Nat /\ low \in Nat
    BY BatchFields
  <2> QED
    BY SMTT(30), <1>2, <1>15, <2>2, <2>3, <2>4, <2>5
<1> QED
  BY <1>1, <1>9, <1>11, <1>13, <1>14, <1>15

\* The pool of a service that starts has what the sequencer hands out.
LEMMA IdlePool ==
    ASSUME NEW wk, wk = [w \in Workers |-> Idle]
    PROVE  /\ \A w \in Workers : wk[w] = Idle
           /\ Cardinality(Busy(wk)) = 0
           /\ wk \in [Workers -> [doing : {"idle", "work", "done"}, batch : Batches]]
           /\ Range(<<>>) = {} /\ Len(<<>>) = 0
<1>1. \A w \in Workers : wk[w] = Idle
  OBVIOUS
<1>2. Busy(wk) = {}
  BY <1>1 DEF Busy
<1>3. Cardinality(Busy(wk)) = 0
  BY <1>2, FS_EmptySet
<1>4. Idle \in [doing : {"idle", "work", "done"}, batch : Batches]
  BY BatchFields DEF Idle
<1>5. wk \in [Workers -> [doing : {"idle", "work", "done"}, batch : Batches]]
  BY <1>4
<1>6. Range(<<>>) = {} /\ Len(<<>>) = 0
  BY SMTT(30) DEF Range
<1> QED
  BY <1>1, <1>3, <1>5, <1>6

\* The service starts.
LEMMA InitInv ==
    ASSUME Init
    PROVE  IInv
<1>1. /\ retention = 0 /\ low = Origin /\ stored = {} /\ seq = arranged(first) /\ endSeq = ends(first)
      /\ toRouter = given(first) /\ main = "check" /\ importing = <<>> /\ fromRouter = <<>> /\ todo = <<>>
      /\ router = "select" /\ worker = [w \in Workers |-> Idle]
  BY DEF Init
<1>2. retention \in Slots /\ low \in Slots
  BY SMTT(30), <1>1, BatchesAssumption DEF Slots
<1>3. /\ \A w \in Workers : worker[w] = Idle
      /\ Cardinality(Busy(worker)) = 0
      /\ worker \in [Workers -> [doing : {"idle", "work", "done"}, batch : Batches]]
      /\ Range(<<>>) = {} /\ Len(<<>>) = 0
  BY <1>1, IdlePool
<1>4. PICK a : a = arranged(first)
  OBVIOUS
<1>5. SeqOK(first)
  BY <1>2, FirstFacts
<1>6. /\ toRouter \in Seq(Batches) /\ Len(toRouter) = Cardinality(handed(first))
      /\ \A y : y \in Range(toRouter) <=> \E i \in handed(first) : y = a[i]
  BY SMTT(30), <1>1, <1>2, <1>4, <1>5, GivenFacts
<1>7. HandsOut(Items, {}, first, a)
  <2> SUFFICES ASSUME NEW y PROVE y \in Items <=> \E i \in handed(first) : y = a[i]
    BY DEF HandsOut
  <2>1. y \in Items <=> y \in Range(toRouter)
    BY <1>1, <1>3, ItemsFacts
  <2> QED
    BY <1>6, <2>1
<1>8. /\ SeqOK(seq) /\ QuietOK(seq, main) /\ ImportsOK(seq, importing, main) /\ LowOK(seq, low, main)
      /\ ItemsOK(seq, Items) /\ endSeq \in Nat
      /\ CountsOK(seq, Cardinality(handed(first)), endSeq, main)
  BY <1>1, <1>2, <1>4, <1>7, StartFacts
<1>9. Typed
  BY SMTT(30), <1>1, <1>2, <1>3, <1>6, <1>8 DEF Typed
<1>10. inPool = Cardinality(handed(first))
  <2>1. Len(fromRouter) = 0 /\ Len(todo) = 0
    BY <1>1, <1>3
  <2> QED
    BY SMTT(30), <1>3, <1>6, <1>9, <2>1, Counts
<1>11. \A b \in Range(fromRouter) : b.state = "importable"
  BY <1>1, <1>3
<1> QED
  BY <1>8, <1>9, <1>10, <1>11 DEF IInv

\* The node restarts: the pool is empty, and the sequencer goes on from the status in the
\* database.
LEMMA RestartInv ==
    ASSUME IInv, Restart
    PROVE  IInv'
<1>1. /\ seq' = arranged(first) /\ importing' = <<>> /\ fromRouter' = <<>> /\ todo' = <<>>
      /\ router' = "select" /\ worker' = [w \in Workers |-> Idle]
      /\ IF low < retention
         THEN main' = "complete" /\ toRouter' = <<>> /\ endSeq' = 0
         ELSE main' = "check" /\ toRouter' = given(first) /\ endSeq' = ends(first)
      /\ UNCHANGED <<retention, low, stored>>
  BY DEF Restart
<1>2. Typed /\ retention \in Slots /\ low \in Slots
  BY DEF IInv, Typed
<1>3. /\ \A w \in Workers : worker'[w] = Idle
      /\ Cardinality(Busy(worker')) = 0
      /\ worker' \in [Workers -> [doing : {"idle", "work", "done"}, batch : Batches]]
      /\ Range(<<>>) = {} /\ Len(<<>>) = 0
  BY <1>1, IdlePool
<1>4. PICK a : a = arranged(first)
  OBVIOUS
<1>5. SeqOK(first)
  BY <1>2, FirstFacts
<1>6. /\ given(first) \in Seq(Batches) /\ Len(given(first)) = Cardinality(handed(first))
      /\ \A y : y \in Range(given(first)) <=> \E i \in handed(first) : y = a[i]
  BY SMTT(30), <1>2, <1>4, <1>5, GivenFacts
<1>7. PICK J : J = {a[i] : i \in handed(first)}
  OBVIOUS
<1>8. HandsOut(J, {}, first, a)
  BY <1>7 DEF HandsOut
<1>9. /\ SeqOK(a) /\ QuietOK(a, "check") /\ ImportsOK(a, <<>>, "check") /\ LowOK(a, low, "check")
      /\ ItemsOK(a, J)
      /\ CountsOK(a, Cardinality(handed(first)), ends(first), "check") /\ ends(first) \in Nat
      /\ low < retention => handed(first) = {}
  BY <1>2, <1>4, <1>8, StartFacts
<1>10. /\ toRouter' \in Seq(Batches) /\ Len(toRouter') = Cardinality(handed(first))
       /\ \A y : y \in Range(toRouter') <=> y \in J
  <2>1. CASE low < retention
    <3>1. handed(first) = {} /\ J = {} /\ Cardinality(handed(first)) = 0 /\ toRouter' = <<>>
      BY <1>1, <1>7, <1>9, <2>1, FS_EmptySet
    <3> QED
      BY SMTT(30), <1>3, <3>1
  <2>2. CASE ~(low < retention)
    BY <1>1, <1>6, <1>7, <2>2
  <2> QED
    BY <2>1, <2>2
<1>11. Items' = J
  <2>1. \A y : y \in Items' <=> y \in Range(toRouter')
    BY <1>1, <1>3, ItemsFacts
  <2> QED
    BY <1>10, <2>1
<1>12. Typed'
  <2>1. endSeq' \in Nat /\ main' \in {"check", "wait", "import", "complete", "failed"}
    BY SMTT(30), <1>1, <1>9
  <2> QED
    BY SMTT(30), <1>1, <1>2, <1>3, <1>10, <2>1 DEF Typed
<1>13. inPool' = Cardinality(handed(first)) /\ Cardinality(handed(first)) \in Nat
  <2>1. Len(fromRouter') = 0 /\ Len(todo') = 0 /\ Len(toRouter') \in Nat
    BY SMTT(30), <1>1, <1>3, <1>10
  <2> QED
    BY SMTT(30), <1>2, <1>3, <1>10, <2>1, Counts
<1>14. /\ QuietOK(seq', main') /\ ImportsOK(seq', importing', main') /\ LowOK(seq', low', main')
       /\ CountsOK(seq', inPool', endSeq', main')
  <2>1. seq' = a /\ importing' = <<>> /\ low' = low
    BY <1>1, <1>4
  <2>2. CASE low < retention
    <3>1. main' = "complete" /\ endSeq' = 0 /\ low <= retention
      BY SMTT(30), <1>1, <1>2, <2>2, BatchFields
    <3>2. QuietOK(a, "complete") /\ ImportsOK(a, <<>>, "complete")
      BY <1>9 DEF QuietOK, ImportsOK
    <3>3. LowOK(a, low, "complete")
      BY <1>9, <3>1 DEF LowOK
    <3>4. CountsOK(a, inPool', 0, "complete")
      BY SMTT(30), <1>9, <1>13 DEF CountsOK
    <3> QED
      BY <2>1, <3>1, <3>2, <3>3, <3>4
  <2>3. CASE ~(low < retention)
    BY <1>1, <1>9, <1>13, <2>1, <2>3
  <2> QED
    BY <2>2, <2>3
<1>15. SeqOK(seq') /\ ItemsOK(seq', Items')
  BY <1>1, <1>4, <1>9, <1>11
<1>16. \A b \in Range(fromRouter') : b.state = "importable"
  BY <1>1, <1>3
<1>17. retention' = retention
  BY <1>1
<1> QED
  BY <1>12, <1>14, <1>15, <1>16, <1>17, Primes DEF IInv

\* An empty pool has no batches.
LEMMA EmptyPool ==
    ASSUME Typed, inPool = 0
    PROVE  Items = {}
<1>1. /\ Len(toRouter) \in Nat /\ Len(fromRouter) \in Nat /\ Len(todo) \in Nat /\ Cardinality(Busy(worker)) \in Nat
      /\ inPool = Len(toRouter) + Len(fromRouter) + Len(todo) + Cardinality(Busy(worker))
  BY Counts
<1>2. Len(toRouter) = 0 /\ Len(fromRouter) = 0 /\ Len(todo) = 0 /\ Cardinality(Busy(worker)) = 0
  BY SMTT(30), <1>1
<1>3. toRouter = <<>> /\ fromRouter = <<>> /\ todo = <<>>
  BY SMTT(30), <1>2 DEF Typed
<1>4. Busy(worker) = {}
  <2>1. IsFiniteSet(Busy(worker))
    BY PoolCount DEF Typed
  <2> QED
    BY <1>2, <2>1, FS_EmptySet
<1>5. Range(<<>>) = {}
  BY SMTT(30) DEF Range
<1> QED
  BY <1>3, <1>4, <1>5 DEF Items

\* When as many batches ended the sequence as there are, none is left to work on.
LEMMA EndIsTrue ==
    ASSUME IInv, main = "check", endSeq = N, ~Truncated
    PROVE  low <= retention
<1>1. /\ Typed /\ retention \in Slots /\ SeqOK(seq) /\ Chain(seq, N) /\ endSeq \in Nat
      /\ ImportsOK(seq, importing, "check") /\ QuietOK(seq, "check") /\ LowOK(seq, low, "check")
      /\ CountsOK(seq, inPool, endSeq, "check") /\ ItemsOK(seq, Items)
  BY DEF IInv, Typed, SeqOK
<1>2. N \in Nat /\ N > 0 /\ 1 \in 1..N
  BY SMTT(30), NType
<1>3. Items = {}
  <2>1. inPool \in Nat
    BY SMTT(30), <1>1, Counts
  <2>2. inPool + endSeq <= N
    BY <1>1, <1>2 DEF CountsOK
  <2>3. inPool = 0
    BY SMTT(30), <1>2, <2>1, <2>2
  <2> QED
    BY <1>1, <2>3, EmptyPool
<1>4. expired(seq[1])
  <2> SUFFICES ASSUME ~expired(seq[1]) PROVE FALSE
    OBVIOUS
  <2>1. Active(seq[1].state)
    BY <1>1, <1>2 DEF SeqOK, Held
  <2>2. seq[1].state \notin {"init", "errRetryable"}
    BY <1>1, <1>2 DEF QuietOK
  <2>3. seq[1].state # "importable"
    <3>1. importing = <<>>
      BY <1>1 DEF ImportsOK
    <3>2. Len(importing) = 0 /\ 0 + 1 = 1
      BY SMTT(30), <3>1
    <3> QED
      BY <1>1, <1>2, <3>2 DEF ImportsOK
  <2>4. seq[1].state # "sequenced"
    BY <1>1, <1>2, <1>3 DEF ItemsOK
  <2> QED
    BY <2>1, <2>2, <2>3, <2>4 DEF Active
<1>5. seq[1].end <= retention
  BY <1>1, <1>2, <1>4, ChainFacts
<1> QED
  BY <1>1, <1>5 DEF LowOK

\* The service looks whether it is complete, or learns that the pool was shut down.
LEMMA TurnsInv ==
    ASSUME IInv, Check \/ PoolFailed
    PROVE  IInv'
<1>1. /\ main \in {"check", "wait"} /\ main' \in {"wait", "complete", "failed"}
      /\ main' = "complete" => main = "check" /\ endSeq = N
      /\ UNCHANGED <<retention, low, stored, seq, importing, endSeq, pool>>
  <2>1. CASE Check
    BY <2>1 DEF Check, allEnded
  <2>2. CASE PoolFailed
    BY <2>2 DEF PoolFailed
  <2> QED
    BY <2>1, <2>2
<1>2. UNCHANGED <<toRouter, fromRouter, todo, router, worker>>
  BY <1>1 DEF pool
<1>3. Typed'
  BY <1>1, <1>2 DEF IInv, Typed
<1>4. Items' = Items /\ inPool' = inPool
  BY <1>2 DEF Items, Busy, inPool
<1>5. SeqOK(seq') /\ ItemsOK(seq', Items')
  BY <1>1, <1>4 DEF IInv
<1>6. QuietOK(seq', main') /\ ImportsOK(seq', importing', main')
  BY <1>1 DEF IInv, QuietOK, ImportsOK
<1>7. CountsOK(seq', inPool', endSeq', main')
  BY <1>1, <1>4 DEF IInv, CountsOK
<1>8. LowOK(seq', low', main')
  BY <1>1, EndIsTrue DEF IInv, LowOK
<1>9. \A b \in Range(fromRouter') : b.state = "importable"
  BY <1>2 DEF IInv
<1> QED
  BY <1>1, <1>3, <1>5, <1>6, <1>7, <1>8, <1>9, Primes DEF IInv

\* More slots expire: a batch that has expired stays so.
LEMMA ExpireInv ==
    ASSUME IInv, Expire
    PROVE  IInv'
<1>1. /\ Typed /\ SeqOK(seq) /\ QuietOK(seq, main) /\ ImportsOK(seq, importing, main)
      /\ LowOK(seq, low, main) /\ ItemsOK(seq, Items) /\ CountsOK(seq, inPool, endSeq, main)
      /\ \A b \in Range(fromRouter) : b.state = "importable"
  BY DEF IInv
<1>2. /\ retention \in Slots /\ retention' \in Slots /\ retention' = retention + 1
      /\ UNCHANGED <<low, stored, seq, main, importing, endSeq, pool>>
  BY SMTT(30), <1>1, BoundsAssumption, BatchesAssumption DEF Expire, Typed, Slots
<1>3. UNCHANGED <<toRouter, fromRouter, todo, router, worker>>
  BY <1>2 DEF pool
<1>4. Typed'
  BY <1>1, <1>2, <1>3 DEF Typed
<1>5. Items' = Items /\ inPool' = inPool
  BY <1>3 DEF Items, Busy, inPool
<1>6. \A s \in Slots : s <= retention => s <= retention'
  BY SMTT(30), <1>2, BatchFields
<1>7. \A b \in Batches : expired(b) => b.end - 1 < retention'
  <2> TAKE b \in Batches
  <2>1. b.end \in Nat /\ retention \in Nat
    BY <1>2, BatchFields
  <2> QED
    BY SMTT(30), <1>2, <2>1 DEF expired
<1>8. /\ seq \in [1..N -> Batches] /\ importing \in Seq(Batches) /\ low \in Slots
      /\ \A i \in 1..N : seq[i] \in Batches /\ seq[i].begin \in Slots
  <2>1. seq \in [1..N -> Batches] /\ importing \in Seq(Batches) /\ low \in Slots
    BY <1>1 DEF SeqOK, Chain, Typed
  <2> QED
    BY <2>1, BatchFields
<1>9. SeqOK(seq)'
  <2>1. Chain(seq, N)'
    BY <1>1, <1>2 DEF SeqOK, Chain
  <2>2. ASSUME NEW i \in 1..N PROVE Held(seq[i])'
    <3>1. IF Active(seq[i].state) THEN Fits(seq[i])
          ELSE seq[i].state \in {"endSequence", "importComplete"} /\ expired(seq[i])
      BY <1>1 DEF SeqOK, Held
    <3>2. expired(seq[i]) => expired(seq[i])'
      BY <1>2, <1>7, <1>8 DEF expired
    <3>3. Fits(seq[i]) => Fits(seq[i])'
      BY <1>2 DEF Fits
    <3> QED
      BY <1>2, <3>1, <3>2, <3>3 DEF Held, Active
  <2> QED
    BY <2>1, <2>2 DEF SeqOK
<1>10. QuietOK(seq, main)'
  BY <1>1, <1>2 DEF QuietOK
<1>11. ImportsOK(seq, importing, main)'
  <2>1. \A i \in 1..N : expired(seq[i]) => seq[i].end - 1 < retention'
    BY <1>7, <1>8
  <2>2. \A k \in 1..Len(importing) : expired(importing[k]) => importing[k].end - 1 < retention'
    BY SMTT(30), <1>7, <1>8
  <2>3. PICK L \in Nat : L = Len(importing)
    BY SMTT(30), <1>8
  <2>4. L <= N /\ \A k \in 1..L : k \in 1..N
    BY SMTT(30), <1>1, <2>3, NType DEF ImportsOK
  <2>5. \A k \in 1..L : /\ Fits(importing[k]) /\ importing[k].state = "importable"
                        /\ importing[k] = seq[k] \/ (importing[k].end - 1 < retention' /\ seq[k].end - 1 < retention')
    BY <1>1, <2>1, <2>2, <2>3, <2>4 DEF ImportsOK
  <2>6. L < N => seq[L + 1].end - 1 < retention' \/ seq[L + 1].state # "importable"
    <3> SUFFICES ASSUME L < N PROVE seq[L + 1].end - 1 < retention' \/ seq[L + 1].state # "importable"
      OBVIOUS
    <3>1. L + 1 \in 1..N
      BY SMTT(30), NType
    <3> QED
      BY <1>1, <2>1, <2>3, <3>1 DEF ImportsOK
  <2>7. \A i \in 1..N : seq[i].state = "errRetryable" /\ ~(seq[i].end - 1 < retention') => i = 1 /\ importing = <<>>
    BY <1>1, <2>1 DEF ImportsOK
  <2>8. main # "import" => importing = <<>>
    BY <1>1 DEF ImportsOK
  <2> QED
    BY <1>2, <2>3, <2>4, <2>5, <2>6, <2>7, <2>8 DEF ImportsOK, expired, Fits
<1>12. LowOK(seq, low, main)'
  BY <1>1, <1>2, <1>6, <1>8 DEF LowOK
<1>13. ItemsOK(seq, Items)'
  <2>1. PICK I : I = Items
    OBVIOUS
  <2>2. ItemsOK(seq, I)
    BY <1>1, <2>1
  <2>3. N \in 1..N
    BY NType
  <2>4. \A b \in I : Fits(b) /\ (seq[N].begin <= b.begin \/ seq[N].begin <= retention')
    BY <1>6, <1>8, <2>2, <2>3 DEF ItemsOK
  <2>5. \A i \in 1..N : seq[i].state = "sequenced" /\ ~(seq[i].end - 1 < retention') => \E b \in I : Follows(b, seq[i])
    BY <1>7, <1>8, <2>2 DEF ItemsOK
  <2>6. \A i \in 1..N : seq[i].state = "init" => \A b \in I : seq[i].end <= b.begin
    BY <2>2 DEF ItemsOK
  <2>7. Items' = I /\ seq' = seq
    BY <1>2, <1>5, <2>1
  <2> QED
    BY <2>4, <2>5, <2>6, <2>7 DEF ItemsOK, expired, Fits, Follows
<1>14. CountsOK(seq, inPool, endSeq, main)'
  <2>1. N \in 1..N
    BY NType
  <2>2. endSeq > 0 => /\ seq[N].begin <= retention'
                      /\ \A i \in 1..N : seq[i].state = "init" => seq[i].end - 1 < retention'
    BY <1>1, <1>6, <1>7, <1>8, <2>1 DEF CountsOK
  <2>3. /\ inPool + Cardinality(waiting(seq)) <= N
        /\ main = "import" => inPool + endSeq + 1 <= N
        /\ endSeq > 0 => inPool + endSeq <= N
    BY <1>1 DEF CountsOK
  <2>4. waiting(seq)' = waiting(seq)
    BY <1>2 DEF waiting
  <2> QED
    BY <1>2, <1>5, <2>2, <2>3, <2>4 DEF CountsOK, expired
<1>15. (\A b \in Range(fromRouter) : b.state = "importable")'
  BY <1>1, <1>3
<1> QED
  BY <1>4, <1>9, <1>10, <1>11, <1>12, <1>13, <1>14, <1>15 DEF IInv

-----------------------------------------------------------------------------
(* The theorems.                                                           *)

\* Every step of the service, the router and the workers keeps the invariant, with any
\* number of failures, restarts and slots that expire.
LEMMA NextKeeps ==
    ASSUME IInv, [Next]_vars
    PROVE  IInv'
<1>1. CASE Service
  BY <1>1, TurnsInv, UpdateKeeps, ImportInv, ImportFailsInv, ScheduleKeeps DEF Service
<1>2. CASE Router
  BY <1>2, ReceivesKeeps, RouterTurnsKeep, ExpiredKeeps, CollectsKeeps, AssignsKeeps DEF Router
<1>3. CASE \E w \in Workers : Worker(w)
  BY <1>3, WorkerKeeps
<1>4. CASE Expire
  BY <1>4, ExpireInv
<1>5. CASE Restart
  BY <1>5, RestartInv
<1>6. CASE UNCHANGED vars
  <2>1. /\ UNCHANGED <<retention, low, stored, seq, main, importing, endSeq>>
        /\ UNCHANGED <<toRouter, fromRouter, todo, router, worker>>
    BY <1>6 DEF vars
  <2>2. Typed'
    BY <2>1 DEF IInv, Typed
  <2>3. Items' = Items /\ inPool' = inPool
    BY <2>1 DEF Items, Busy, inPool
  <2>4. /\ SeqOK(seq') /\ QuietOK(seq', main') /\ ImportsOK(seq', importing', main')
        /\ LowOK(seq', low', main') /\ ItemsOK(seq', Items') /\ CountsOK(seq', inPool', endSeq', main')
        /\ \A b \in Range(fromRouter') : b.state = "importable"
    BY <2>1, <2>3 DEF IInv
  <2> QED
    BY <2>1, <2>2, <2>4, Primes DEF IInv
<1> QED
  BY <1>1, <1>2, <1>3, <1>4, <1>5, <1>6 DEF Next

\* The sequencer, the pool and the status in the database agree, for any number of workers
\* and any size of a batch.
THEOREM BackfillInvariant == Spec => []IInv
<1>1. Init => IInv
  BY InitInv
<1>2. IInv /\ [Next]_vars => IInv'
  BY NextKeeps
<1> QED
  BY <1>1, <1>2, PTL DEF Spec

\* The channels, todo and the workers carry batches of the sequencer at all times.
THEOREM TypesAlwaysOK == Spec => []TypeOK
<1>1. IInv => TypeOK
  <2> SUFFICES ASSUME IInv PROVE TypeOK
    OBVIOUS
  <2>1. Typed /\ seq \in [1..N -> Batches]
    BY DEF IInv, SeqOK, Chain
  <2>2. /\ Range(importing) \subseteq Batches /\ Range(toRouter) \subseteq Batches
        /\ Range(fromRouter) \subseteq Batches /\ Range(todo) \subseteq Batches
    BY <2>1, RangeFacts DEF Typed
  <2>3. \A w \in Workers : worker[w].doing \in {"idle", "work", "done"} /\ worker[w].batch \in Batches
    BY <2>1 DEF Typed
  <2> QED
    BY <2>1, <2>2, <2>3 DEF TypeOK, Typed
<1> QED
  BY <1>1, BackfillInvariant, PTL

\* batchSequencer.update leaves no gap between the batches, whichever of them complete, fail
\* or expire: no slot is passed over.
THEOREM NeverAGap == Spec => []NoGap
<1>1. IInv => NoGap
  BY DEF IInv, SeqOK, Chain, NoGap
<1> QED
  BY <1>1, BackfillInvariant, PTL

\* The service hands out no more batches than there are workers, so that the pool's channels,
\* which have room for as many, never block it.
THEOREM PoolAlwaysBounded == Spec => []PoolBounded
<1>1. IInv => PoolBounded
  <2> SUFFICES ASSUME IInv PROVE inPool <= N
    BY DEF PoolBounded
  <2>1. inPool \in Nat
    BY SMTT(30), Counts DEF IInv
  <2>2. Cardinality(waiting(seq)) \in Nat
    BY FiniteBatches DEF waiting
  <2>3. inPool + Cardinality(waiting(seq)) <= N
    BY DEF IInv, CountsOK
  <2> QED
    BY SMTT(30), <2>1, <2>2, <2>3, NType
<1> QED
  BY <1>1, BackfillInvariant, PTL

\* As long as no response is truncated, the service marks itself complete only when all
\* blocks that have to be kept are in the database, although ends of the sequence are counted
\* by the router and by the service, and some of the counts may be lost.
THEOREM CompleteOnlyWhenTrue ==
    ASSUME ~Truncated
    PROVE  Spec => []CompleteIsTrue
<1>1. IInv => CompleteIsTrue
  BY DEF IInv, LowOK, CompleteIsTrue
<1> QED
  BY <1>1, BackfillInvariant, PTL

-----------------------------------------------------------------------------
(* The status in the database.                                             *)

\* Only Import writes the status, and the blocks in the database are never removed.
StatusInv == low \in Slots /\ StatusTrue

\* Blocks that end where the status begins extend it downwards: the import of fillBack
\* keeps the status true.
LEMMA ImportKeeps ==
    ASSUME StatusInv, Import
    PROVE  StatusInv'
<1>1. Origin \in Nat
  BY BatchesAssumption
<1> DEFINE b == Head(importing)
<1>2. /\ b.blocks \in Slots /\ b.linked /\ b.end = low
      /\ stored' = stored \cup savedBy(b) /\ low' = b.blocks
  BY DEF Import, ensureParent
<1>3. savedBy(b) = b.blocks..(b.end - 1)
  BY <1>2 DEF savedBy
<1> HIDE DEF b
<1>4. \A s \in b.blocks..(Origin - 1) : s \in b.blocks..(low - 1) \/ s \in low..(Origin - 1)
  BY SMTT(30), <1>1, <1>2 DEF StatusInv, Slots
<1> QED
  BY <1>2, <1>3, <1>4 DEF StatusInv, StatusTrue

\* No other step writes the status or removes blocks, a failing import included.
LEMMA OthersKeep ==
    ASSUME StatusInv, [Next]_vars, ~Import
    PROVE  StatusInv'
<1>1. low' = low /\ stored \subseteq stored'
  <2>1. CASE Service
    <3>1. CASE Check
      BY <3>1 DEF Check
    <3>2. CASE PoolFailed
      BY <3>2 DEF PoolFailed
    <3>3. CASE UpdateComplete
      BY <3>3 DEF UpdateComplete
    <3>4. CASE ImportFails
      BY <3>4 DEF ImportFails
    <3>5. CASE ScheduleTodos
      BY <3>5 DEF ScheduleTodos
    <3> QED
      BY <2>1, <3>1, <3>2, <3>3, <3>4, <3>5 DEF Service
  <2>2. CASE Router
    BY <2>2 DEF Router, RouterFails, RouterReceives, RouterTick, ProcessEnds, ProcessExpired,
                RouterCollects, ProcessAssigns
  <2>3. CASE \E w \in Workers : Worker(w)
    <3>1. PICK w \in Workers : Worker(w)
      BY <2>3
    <3>2. CASE HandleBlocks(w)
      BY <3>2 DEF HandleBlocks, done
    <3>3. CASE HandleBlocksFails(w)
      BY <3>3 DEF HandleBlocksFails, done
    <3>4. CASE HandleBlobs(w)
      BY <3>4 DEF HandleBlobs, done
    <3>5. CASE HandleBlobsFails(w)
      BY <3>5 DEF HandleBlobsFails, done
    <3>6. CASE HandleColumns(w)
      BY <3>6 DEF HandleColumns, done
    <3>7. CASE HandleColumnsFails(w)
      BY <3>7 DEF HandleColumnsFails, done
    <3> QED
      BY <3>1, <3>2, <3>3, <3>4, <3>5, <3>6, <3>7 DEF Worker
  <2>4. CASE Expire
    BY <2>4 DEF Expire
  <2>5. CASE Restart
    BY <2>5 DEF Restart
  <2>6. CASE UNCHANGED vars
    BY <2>6 DEF vars
  <2> QED
    BY <2>1, <2>2, <2>3, <2>4, <2>5, <2>6 DEF Next
<1> QED
  BY <1>1 DEF StatusInv, StatusTrue

\* What Store.AvailableBlock reads is true at all times: every block from the low slot of
\* the status up to the checkpoint is stored.
THEOREM StatusAlwaysTrue == Spec => []StatusTrue
<1>1. Init => StatusInv
  <2>1. Origin \in Nat
    BY BatchesAssumption
  <2> QED
    BY SMTT(30), <2>1 DEF Init, StatusInv, StatusTrue, Slots
<1>2. StatusInv /\ [Next]_vars => StatusInv'
  BY ImportKeeps, OthersKeep
<1>3. StatusInv => StatusTrue
  BY DEF StatusInv
<1> QED
  BY <1>1, <1>2, <1>3, PTL DEF Spec

=============================================================================
