---------------------- MODULE CompleteProtectionProofs ----------------------
(***************************************************************************)
(* No saved attestation is contradicted, for any keys and attestations, any*)
(* capacity of the batches, any pruning distance, and any number of failing*)
(* writes and restarts.                                                    *)
(***************************************************************************)
EXTENDS CompleteProtection, WellFoundedInduction, TLAPS

-----------------------------------------------------------------------------
(* The inductive invariant.                                                *)

\* The indices of b hold all that the check of a conflicting attestation looks for.
Guards(b, a) ==
    /\ <<a.target, a.root>> \in b.roots
    /\ <<a.source, a.target>> \in b.targets
    /\ <<a.target, a.source>> \in b.sources

\* The signing roots and the sources are kept for the same targets, so that both are pruned
\* alike, and there is a highest epoch to prune from.
SameTargets(b) ==
    /\ \A e \in b.roots : \E f \in b.sources : f[1] = e[1]
    /\ \A f \in b.sources : \E e \in b.roots : f[1] = e[1]
Bounded(bkt) == \E n \in Nat : \A e \in bkt : e[1] <= n
WellKept(b) == b \in Buckets /\ SameTargets(b) /\ Bounded(b.targets) /\ Bounded(b.sources)

\* No record of k, or a record of k that no other one of k follows.
NoneOf(records, k) == \A i \in 1..Len(records) : records[i].key # k
LastOf(records, k, a) ==
    \E m \in 1..Len(records) : /\ records[m] = [key |-> k, att |-> a]
                               /\ \A j \in m + 1..Len(records) : records[j].key # k

\* Where the record of an attester that has sent it is: nothing of its key comes after it.
Queued(k) ==
    pc[k] \in {"subscribe", "wait", "submit"} =>
        \/ LastOf(chan, k, att[k])
        \/ NoneOf(chan, k) /\ LastOf(queue, k, att[k])
        \/ NoneOf(chan, k) /\ NoneOf(queue, k) /\ Guards(db[k], att[k])

\* a contradicts nothing that key k may still write or submit.
Agrees(a, records, k) ==
    \A i \in 1..Len(records) : records[i].key = k => ~Slashable(a, records[i].att)
Compatible(k, a) ==
    /\ Agrees(a, chan, k)
    /\ Agrees(a, queue, k)
    /\ pc[k] # "idle" => ~Slashable(a, att[k])

\* A saved attestation is guarded, and what comes after it agrees with it, until it is old.
Protected(k, i) ==
    LET a == submitted[k][i].att
    IN  \/ Pruning /\ ~Recent(db[k], a)
        \/ /\ Guards(db[k], a)
           /\ Compatible(k, a)
           /\ \A j \in i + 1..Len(submitted[k]) : ~Slashable(a, submitted[k][j].att)

IInv ==
    /\ TypeOK
    /\ \A k \in Keys : /\ WellKept(db[k])
                       /\ Queued(k)
                       /\ \A i \in 1..Len(submitted[k]) : submitted[k][i].saved => Protected(k, i)

-----------------------------------------------------------------------------
(* Natural numbers: the least-number principle, and induction on a set.    *)

\* The least-number principle.
LEMMA LeastNat ==
    ASSUME NEW T, T \subseteq Nat, T # {}
    PROVE  \E x \in T : \A y \in T : x <= y
<1>1. PICK x \in T : \A y \in T : ~(<<y, x>> \in OpToRel(<, Nat))
  BY WFMin, NatLessThanWellFounded, Zenon
<1>2. \A y \in T : ~(y < x)
  BY <1>1, Zenon DEF OpToRel
<1> QED
  BY <1>2

\* Induction for the members of a set, for what a batch of any length does.
LEMMA NatSetInduction ==
    ASSUME NEW S, 0 \in S, \A n \in Nat : n \in S => n + 1 \in S
    PROVE  Nat \subseteq S
<1> SUFFICES ASSUME Nat \ S # {} PROVE FALSE
  OBVIOUS
<1>1. PICK x \in Nat \ S : \A y \in Nat \ S : x <= y
  BY LeastNat, Zenon
<1>2. x # 0 /\ x - 1 \in Nat
  BY <1>1
<1>3. x - 1 \in S
  BY <1>1, <1>2
<1> QED
  BY <1>1, <1>2, <1>3

\* A bucket that is bounded has a highest epoch, which pruneBucket keeps.
LEMMA HighestKept ==
    ASSUME NEW bkt, \A e \in bkt : e[1] \in Nat, Bounded(bkt), NEW f \in bkt
    PROVE  \E e \in pruneBucket(bkt) : e[1] >= f[1]
<1> DEFINE U == {n \in Nat : \A e \in bkt : e[1] <= n}
<1>1. PICK m \in U : \A n \in U : m <= n
  BY LeastNat, Zenon DEF Bounded
<1>2. PICK e \in bkt : e[1] = m
  <2> SUFFICES ASSUME \A e \in bkt : e[1] # m PROVE FALSE
    OBVIOUS
  <2>1. m - 1 \in Nat /\ \A e \in bkt : e[1] <= m - 1
    BY <1>1
  <2> QED
    BY <1>1, <2>1
<1>3. \A g \in bkt : e[1] + PruningEpochs >= g[1]
  BY <1>1, <1>2, CapacityAssumption
<1> QED
  BY <1>1, <1>2, <1>3 DEF pruneBucket

-----------------------------------------------------------------------------
(* The database.                                                           *)

\* The fields of an attestation and of the indices of a key.
LEMMA Fields ==
    /\ \A a \in Attestations : a.source \in Epochs /\ a.target \in Epochs /\ a.root \in SigningRoots
    /\ \A b \in Buckets : /\ b.roots \subseteq Epochs \X SigningRoots
                          /\ b.targets \subseteq Epochs \X Epochs
                          /\ b.sources \subseteq Epochs \X Epochs
                          /\ b.lowestSource \in Epochs \cup {None}
                          /\ b.lowestTarget \in Epochs \cup {None}
    /\ Epochs \subseteq Nat /\ PruningEpochs \in Nat
  BY VotesAssumption, CapacityAssumption DEF Attestations, Buckets

\* A record is added to all indices.
LEMMA RecordWellKept ==
    ASSUME NEW b, WellKept(b), NEW c \in Attestations
    PROVE  WellKept(withRecord(b, c))
<1> DEFINE w == withRecord(b, c)
<1>1. /\ w.roots = {e \in b.roots : e[1] # c.target} \cup {<<c.target, c.root>>}
      /\ w.targets = b.targets \cup {<<c.source, c.target>>}
      /\ w.sources = b.sources \cup {<<c.target, c.source>>}
  BY DEF withRecord
<1>2. w \in Buckets
  BY Fields DEF WellKept, withRecord, Buckets, lowest
<1>3. SameTargets(w)
  <2>1. \A x, y : <<x, y>>[1] = x
    OBVIOUS
  <2>2. ASSUME NEW e \in w.roots PROVE \E f \in w.sources : f[1] = e[1]
    <3>1. CASE e = <<c.target, c.root>>
      BY <1>1, <2>1, <3>1, Zenon
    <3>2. CASE e \in b.roots
      BY <1>1, <3>2 DEF WellKept, SameTargets
    <3> QED
      BY <1>1, <2>2, <3>1, <3>2
  <2>3. ASSUME NEW f \in w.sources PROVE \E e \in w.roots : f[1] = e[1]
    <3>1. CASE f[1] = c.target
      BY <1>1, <2>1, <3>1, Zenon
    <3>2. CASE f[1] # c.target
      <4>1. f \in b.sources
        BY <1>1, <2>1, <2>3, <3>2
      <4> QED
        BY <1>1, <3>2, <4>1 DEF WellKept, SameTargets
    <3> QED
      BY <3>1, <3>2
  <2> QED
    BY <2>2, <2>3 DEF SameTargets
<1>4. ASSUME NEW bkt, \A e \in bkt : e[1] \in Nat, NEW x \in Nat, NEW y, Bounded(bkt)
      PROVE  Bounded(bkt \cup {<<x, y>>})
  <2>1. PICK n \in Nat : \A e \in bkt : e[1] <= n
    BY <1>4 DEF Bounded
  <2>2. n + x \in Nat /\ \A e \in bkt \cup {<<x, y>>} : e[1] <= n + x
    BY <1>4, <2>1
  <2> QED
    BY <2>2 DEF Bounded
<1>5. Bounded(w.targets) /\ Bounded(w.sources)
  <2>1. /\ \A e \in b.targets : e[1] \in Nat
        /\ \A e \in b.sources : e[1] \in Nat
        /\ c.source \in Nat /\ c.target \in Nat
    BY Fields, Zenon DEF WellKept
  <2>2. Bounded(b.targets \cup {<<c.source, c.target>>})
    BY <1>4, <2>1, Zenon DEF WellKept
  <2>3. Bounded(b.sources \cup {<<c.target, c.source>>})
    BY <1>4, <2>1, Zenon DEF WellKept
  <2> QED
    BY <1>1, <2>2, <2>3
<1> QED
  BY <1>2, <1>3, <1>5 DEF WellKept

\* What an attestation is guarded by stays when a record that agrees with it is added, its own
\* record guards it, and it does not become recent again.
LEMMA RecordGuards ==
    ASSUME NEW b \in Buckets, NEW c \in Attestations, NEW a \in Attestations
    PROVE  /\ Guards(b, a) /\ ~Slashable(a, c) => Guards(withRecord(b, c), a)
           /\ Guards(withRecord(b, a), a)
           /\ ~Recent(b, a) => ~Recent(withRecord(b, c), a)
<1>1. \A d : /\ withRecord(b, d).roots = {e \in b.roots : e[1] # d.target} \cup {<<d.target, d.root>>}
             /\ withRecord(b, d).targets = b.targets \cup {<<d.source, d.target>>}
             /\ withRecord(b, d).sources = b.sources \cup {<<d.target, d.source>>}
  BY DEF withRecord
<1>2. Guards(b, a) /\ ~Slashable(a, c) => Guards(withRecord(b, c), a)
  BY <1>1, Fields DEF Guards, Slashable
<1>3. Guards(withRecord(b, a), a)
  BY <1>1 DEF Guards
<1>4. ~Recent(b, a) => ~Recent(withRecord(b, c), a)
  BY <1>1 DEF Recent
<1> QED
  BY <1>2, <1>3, <1>4

\* Pruning keeps the guards of what is recent, and what is old stays old.
LEMMA PruneKeeps ==
    ASSUME NEW b, WellKept(b)
    PROVE  /\ WellKept(PruneAttestations(b))
           /\ \A a \in Attestations :
                /\ Recent(b, a) /\ Guards(b, a) => Guards(PruneAttestations(b), a)
                /\ ~Recent(b, a) => ~Recent(PruneAttestations(b), a)
<1> DEFINE w == PruneAttestations(b)
<1>1. /\ w.roots = pruneBucket(b.roots) /\ w.targets = pruneBucket(b.targets)
      /\ w.sources = pruneBucket(b.sources)
  BY DEF PruneAttestations
<1>2. \A bkt : pruneBucket(bkt) \subseteq bkt
  BY DEF pruneBucket
<1>3. /\ \A e \in b.roots : e[1] \in Nat
      /\ \A e \in b.targets : e[1] \in Nat
      /\ \A e \in b.sources : e[1] \in Nat
  BY Fields, Zenon DEF WellKept
<1>4. WellKept(w)
  <2>1. w \in Buckets
    BY <1>2 DEF WellKept, PruneAttestations, Buckets
  <2>2. \A e \in w.roots : \E f \in w.sources : f[1] = e[1]
    BY <1>1 DEF WellKept, SameTargets, pruneBucket
  <2>3. \A f \in w.sources : \E e \in w.roots : f[1] = e[1]
    BY <1>1 DEF WellKept, SameTargets, pruneBucket
  <2>4. Bounded(w.targets) /\ Bounded(w.sources)
    BY <1>1, <1>2 DEF WellKept, Bounded
  <2> QED
    BY <2>1, <2>2, <2>3, <2>4 DEF WellKept, SameTargets
<1>5. ASSUME NEW a \in Attestations, Recent(b, a), Guards(b, a)
      PROVE  Guards(w, a)
  <2>1. \A e \in b.roots : a.target + PruningEpochs >= e[1]
    BY <1>5 DEF WellKept, SameTargets, Recent
  <2> QED
    BY <1>1, <1>5, <2>1 DEF Guards, Recent, pruneBucket
<1>6. ASSUME NEW a \in Attestations
      PROVE  a.source + PruningEpochs \in Nat /\ a.target + PruningEpochs \in Nat
  <2>1. a.source \in Nat /\ a.target \in Nat /\ PruningEpochs \in Nat
    BY Fields, Zenon
  <2> QED
    BY <2>1
<1>7. ASSUME NEW a \in Attestations, ~Recent(b, a)
      PROVE  ~Recent(w, a)
  <2>1. CASE \E e \in b.targets : ~(a.source + PruningEpochs >= e[1])
    <3>1. PICK e \in b.targets : ~(a.source + PruningEpochs >= e[1])
      BY <2>1
    <3>2. PICK f \in pruneBucket(b.targets) : f[1] >= e[1]
      BY <1>3, HighestKept DEF WellKept
    <3>3. e[1] \in Nat /\ f[1] \in Nat
      BY <1>3, <3>2 DEF pruneBucket
    <3>4. ~(a.source + PruningEpochs >= f[1])
      BY <1>6, <3>1, <3>2, <3>3
    <3> QED
      BY <1>1, <3>2, <3>4 DEF Recent
  <2>2. CASE \E e \in b.sources : ~(a.target + PruningEpochs >= e[1])
    <3>1. PICK e \in b.sources : ~(a.target + PruningEpochs >= e[1])
      BY <2>2
    <3>2. PICK f \in pruneBucket(b.sources) : f[1] >= e[1]
      BY <1>3, HighestKept DEF WellKept
    <3>3. e[1] \in Nat /\ f[1] \in Nat
      BY <1>3, <3>2 DEF pruneBucket
    <3>4. ~(a.target + PruningEpochs >= f[1])
      BY <1>6, <3>1, <3>2, <3>3
    <3> QED
      BY <1>1, <3>2, <3>4 DEF Recent
  <2> QED
    BY <1>7, <2>1, <2>2 DEF Recent
<1> QED
  BY <1>4, <1>5, <1>7

\* saveAttestationRecords goes through the batch from the database before it.
LEMMA BatchDefined ==
    ASSUME NEW records \in Seq(Records)
    PROVE  \E after : /\ after[0] = db
                      /\ \A n \in 1..Len(records) : after[n] = written(after[n - 1], records[n])
                      /\ saveAttestationRecords(records) = after[Len(records)]
<1> DEFINE L == Len(records)
           To(g, m) == /\ g[0] = db
                       /\ \A n \in 1..m : g[n] = written(g[n - 1], records[n])
           S == {m \in Nat : m <= L => \E g : DOMAIN g = 0..m /\ To(g, m)}
<1>1. L \in Nat
  OBVIOUS
<1>2. Nat \subseteq S
  <2>1. 0 \in S
    <3>1. To([n \in 0..0 |-> db], 0)
      OBVIOUS
    <3> QED
      BY <3>1, Zenon
  <2>2. ASSUME NEW m \in Nat, m \in S PROVE m + 1 \in S
    <3> SUFFICES ASSUME m + 1 <= L
                 PROVE  \E g : DOMAIN g = 0..(m + 1) /\ To(g, m + 1)
      OBVIOUS
    <3>1. PICK g : DOMAIN g = 0..m /\ To(g, m)
      BY <1>1, <2>2
    <3> DEFINE h == [n \in 0..(m + 1) |-> IF n <= m THEN g[n] ELSE written(g[m], records[m + 1])]
    <3>2. \A n \in 1..m : n - 1 \in 0..(m + 1) /\ n - 1 <= m /\ n \in 0..(m + 1) /\ n <= m
      OBVIOUS
    <3>3. h[m + 1] = written(h[m], records[m + 1]) /\ h[0] = g[0]
      OBVIOUS
    <3>4. \A n \in 1..m : h[n] = written(h[n - 1], records[n])
      BY <3>1, <3>2
    <3>5. \A n \in 1..(m + 1) : n \in 1..m \/ n = m + 1
      OBVIOUS
    <3>6. m + 1 - 1 = m
      OBVIOUS
    <3> HIDE DEF h
    <3>7. \A n \in 1..(m + 1) : h[n] = written(h[n - 1], records[n])
      BY <3>3, <3>4, <3>5, <3>6
    <3>8. To(h, m + 1)
      BY <3>1, <3>3, <3>7
    <3> QED
      BY <3>8, Zenon DEF h
  <2> HIDE DEF S
  <2> QED
    BY <2>1, <2>2, NatSetInduction
<1> DEFINE Is(f) == f = [n \in 0..L |->
                          IF n = 0 THEN db ELSE written(f[n - 1], records[n])]
<1>3. \E g : Is(g)
  <2>1. PICK g : DOMAIN g = 0..L /\ To(g, L)
    BY <1>1, <1>2
  <2> DEFINE h == [n \in 0..L |-> g[n]]
  <2>2. h[0] = db /\ \A n \in 1..L : h[n] = written(h[n - 1], records[n])
    BY <1>1, <2>1
  <2>3. Is(h)
    BY <2>2
  <2> QED
    BY <2>3, Zenon
<1> DEFINE f == CHOOSE g : Is(g)
<1>4. Is(f)
  BY <1>3, Zenon
<1>5. saveAttestationRecords(records) = f[L]
  BY DEF saveAttestationRecords
<1> HIDE DEF f
<1>6. f[0] = db /\ \A n \in 1..L : f[n] = written(f[n - 1], records[n])
  BY <1>1, <1>4
<1> QED
  BY <1>5, <1>6

\* What d, the database with the first n records of a batch, is to each key.
BatchOf(d, records, n) ==
    /\ d \in [Keys -> Buckets]
    /\ \A k \in Keys :
        /\ WellKept(d[k])
        /\ (\A i \in 1..n : records[i].key # k) => d[k] = db[k]
        /\ \A a \in Attestations :
            /\ ~Recent(db[k], a) => ~Recent(d[k], a)
            /\ Guards(db[k], a) /\ (\A i \in 1..n : records[i].key = k => ~Slashable(a, records[i].att))
                 => Guards(d[k], a)
            /\ \A m \in 1..n :
                 records[m] = [key |-> k, att |-> a] /\ (\A j \in m + 1..n : records[j].key # k)
                   => Guards(d[k], a)

\* One more record.
LEMMA WrittenBatch ==
    ASSUME NEW records \in Seq(Records), NEW n \in Nat, n + 1 \in 1..Len(records),
           NEW d, BatchOf(d, records, n)
    PROVE  BatchOf(written(d, records[n + 1]), records, n + 1)
<1> DEFINE rec == records[n + 1]
           x == rec.key
           w == written(d, rec)
<1>1. x \in Keys /\ rec.att \in Attestations /\ rec = [key |-> x, att |-> rec.att]
  <2>1. rec \in Records
    OBVIOUS
  <2> QED
    BY <2>1 DEF Records
<1>2. /\ DOMAIN w = Keys /\ w[x] = withRecord(d[x], rec.att)
      /\ \A k \in Keys \ {x} : w[k] = d[k]
  BY <1>1 DEF written, BatchOf
<1>3. \A i \in 1..(n + 1) : i \in 1..n \/ i = n + 1
  OBVIOUS
<1>4. n + 1 \in 1..(n + 1) /\ 1..n \subseteq 1..(n + 1)
  OBVIOUS
<1>5. \A m \in 1..n : n + 1 \in m + 1..n + 1 /\ m + 1..n \subseteq m + 1..n + 1
  OBVIOUS
<1> HIDE DEF w
<1>6. ASSUME NEW k \in Keys
      PROVE  /\ WellKept(w[k])
             /\ (\A i \in 1..n + 1 : records[i].key # k) => w[k] = db[k]
  <2>1. WellKept(d[k]) /\ ((\A i \in 1..n : records[i].key # k) => d[k] = db[k])
    BY DEF BatchOf
  <2>2. CASE k = x
    BY <1>1, <1>2, <1>4, <2>1, <2>2, RecordWellKept
  <2>3. CASE k # x
    BY <1>2, <1>4, <2>1, <2>3
  <2> QED
    BY <2>2, <2>3
<1>7. ASSUME NEW k \in Keys, NEW a \in Attestations
      PROVE  ~Recent(db[k], a) => ~Recent(w[k], a)
  <2>1. d[k] \in Buckets /\ (~Recent(db[k], a) => ~Recent(d[k], a))
    BY Zenon DEF BatchOf, WellKept
  <2>2. CASE k = x
    BY <1>1, <1>2, <2>1, <2>2, RecordGuards
  <2>3. CASE k # x
    BY <1>2, <2>1, <2>3
  <2> QED
    BY <2>2, <2>3
<1>8. ASSUME NEW k \in Keys, NEW a \in Attestations, Guards(db[k], a),
             \A i \in 1..n + 1 : records[i].key = k => ~Slashable(a, records[i].att)
      PROVE  Guards(w[k], a)
  <2>1. Guards(d[k], a)
    BY <1>4, <1>8, Zenon DEF BatchOf
  <2>2. CASE k = x
    <3>1. ~Slashable(a, rec.att)
      BY <1>4, <1>8, <2>2
    <3> QED
      BY <1>1, <1>2, <2>1, <2>2, <3>1, RecordGuards DEF BatchOf, WellKept
  <2> QED
    BY <1>2, <2>1, <2>2
<1>9. ASSUME NEW k \in Keys, NEW a \in Attestations, NEW m \in 1..n + 1,
             records[m] = [key |-> k, att |-> a], \A j \in m + 1..n + 1 : records[j].key # k
      PROVE  Guards(w[k], a)
  <2>1. CASE m = n + 1
    <3>1. x = k /\ rec.att = a
      BY <1>9, <2>1
    <3> QED
      BY <1>1, <1>2, <3>1, RecordGuards DEF BatchOf, WellKept
  <2>2. CASE m \in 1..n
    <3>1. x # k
      BY <1>5, <1>9, <2>2
    <3>2. \A j \in m + 1..n : records[j].key # k
      BY <1>5, <1>9, <2>2
    <3>3. Guards(d[k], a)
      BY <1>9, <2>2, <3>2 DEF BatchOf
    <3> QED
      BY <1>2, <3>1, <3>3
  <2> QED
    BY <1>3, <2>1, <2>2
<1>10. w \in [Keys -> Buckets]
  BY <1>6, Zenon DEF written, w, BatchOf, WellKept
<1> QED
  BY <1>6, <1>7, <1>8, <1>9, <1>10 DEF BatchOf, w

\* The whole batch, whatever its length.
LEMMA BatchSaved ==
    ASSUME NEW records \in Seq(Records), db \in [Keys -> Buckets],
           \A k \in Keys : WellKept(db[k])
    PROVE  BatchOf(saveAttestationRecords(records), records, Len(records))
<1>1. PICK after : /\ after[0] = db
                   /\ \A n \in 1..Len(records) : after[n] = written(after[n - 1], records[n])
                   /\ saveAttestationRecords(records) = after[Len(records)]
  BY BatchDefined
<1> DEFINE S == {n \in Nat : n <= Len(records) => BatchOf(after[n], records, n)}
<1>2. 0 \in S
  BY <1>1 DEF BatchOf
<1>3. ASSUME NEW n \in Nat, n \in S PROVE n + 1 \in S
  <2> SUFFICES ASSUME n + 1 <= Len(records) PROVE BatchOf(after[n + 1], records, n + 1)
    OBVIOUS
  <2>1. n + 1 \in 1..Len(records) /\ n + 1 - 1 = n /\ n <= Len(records)
    OBVIOUS
  <2>2. after[n + 1] = written(after[n], records[n + 1])
    BY <1>1, <2>1
  <2>3. BatchOf(after[n], records, n)
    BY <1>3, <2>1
  <2> QED
    BY <2>1, <2>2, <2>3, WrittenBatch
<1>4. Nat \subseteq S
  <2> HIDE DEF S
  <2> QED
    BY <1>2, <1>3, NatSetInduction
<1> QED
  BY <1>1, <1>4

-----------------------------------------------------------------------------
(* The steps.                                                              *)

\* An attestation that passes the check contradicts none that the indices guard.
LEMMA CheckAgrees ==
    ASSUME NEW b \in Buckets, NEW a \in Attestations, NEW c \in Attestations,
           Guards(b, a), passesCheck(b, c)
    PROVE  ~Slashable(a, c)
<1>1. \A x, y : <<x, y>>[1] = x /\ <<x, y>>[2] = y
  OBVIOUS
<1>2. ~(a.target = c.target /\ a.root # c.root)
  BY <1>1 DEF Guards, passesCheck
<1>3. ~IsSurround(c.source, c.target, a.source, a.target)
  BY <1>1 DEF Guards, passesCheck, checkSurroundingVote
<1>4. ~IsSurround(a.source, a.target, c.source, c.target)
  BY <1>1 DEF Guards, passesCheck, checkSurroundedVote
<1> QED
  BY <1>2, <1>3, <1>4 DEF Slashable

\* What the invariant says of one key.
KeyInv(k) ==
    /\ WellKept(db[k])
    /\ Queued(k)
    /\ \A i \in 1..Len(submitted[k]) : submitted[k][i].saved => Protected(k, i)

\* The attestations that the attesters hold and that were submitted.
LEMMA Held ==
    ASSUME IInv
    PROVE  /\ \A k \in Keys : pc[k] # "idle" => att[k] \in Attestations
           /\ \A k \in Keys : pc[k] = "idle" => att[k] = NoVote
           /\ \A k \in Keys : \A i \in 1..Len(submitted[k]) :
                submitted[k][i].att \in Attestations /\ submitted[k][i].saved \in BOOLEAN
           /\ \A k \in Keys : submitted[k] \in Seq([att : Attestations, saved : BOOLEAN])
           /\ \A k \in Keys : db[k] \in Buckets
<1>1. \A k \in Keys : Votes[k] \subseteq Attestations
  BY VotesAssumption
<1> DEFINE Submissions == [att : Attestations, saved : BOOLEAN]
<1>2. \A k \in Keys : submitted[k] \in Seq(Submissions)
  BY Zenon DEF IInv, TypeOK
<1>3. \A k \in Keys : \A i \in 1..Len(submitted[k]) : submitted[k][i] \in Submissions
  <2> HIDE DEF Submissions
  <2> QED
    BY <1>2
<1> QED
  BY <1>1, <1>2, <1>3, Zenon DEF IInv, TypeOK

\* A step of another key, which may send a record, leaves what concerns k alone.
LEMMA OtherKey ==
    ASSUME IInv, NEW k \in Keys,
           db'[k] = db[k], pc'[k] = pc[k], att'[k] = att[k], submitted'[k] = submitted[k],
           queue' = queue,
           chan' = chan \/ \E rec \in Records : rec.key # k /\ chan' = Append(chan, rec)
    PROVE  KeyInv(k)'
<1>1. chan \in Seq(Records) /\ queue \in Seq(Records)
  BY Zenon DEF IInv, TypeOK
<1>2. /\ NoneOf(chan, k) => NoneOf(chan', k)
      /\ LastOf(chan, k, att[k]) => LastOf(chan', k, att[k])
      /\ \A a : Agrees(a, chan, k) => Agrees(a, chan', k)
  <2>1. CASE chan' = chan
    BY <2>1
  <2>2. ASSUME NEW rec \in Records, rec.key # k, chan' = Append(chan, rec)
        PROVE  <1>2!:
    <3>1. /\ Len(chan') = Len(chan) + 1 /\ chan'[Len(chan) + 1] = rec /\ Len(chan) \in Nat
          /\ \A i \in 1..Len(chan) : chan'[i] = chan[i]
      BY <1>1, <2>2
    <3>2. \A i \in 1..Len(chan') : i \in 1..Len(chan) \/ i = Len(chan) + 1
      BY <3>1
    <3>3. NoneOf(chan, k) => NoneOf(chan', k)
      BY <2>2, <3>1, <3>2 DEF NoneOf
    <3>4. LastOf(chan, k, att[k]) => LastOf(chan', k, att[k])
      <4> SUFFICES ASSUME NEW m \in 1..Len(chan), chan[m] = [key |-> k, att |-> att[k]],
                          \A j \in m + 1..Len(chan) : chan[j].key # k
                   PROVE  LastOf(chan', k, att[k])
        BY DEF LastOf
      <4>1. \A j \in m + 1..Len(chan') : j \in m + 1..Len(chan) \/ j = Len(chan) + 1
        BY <3>1
      <4>2. \A j \in m + 1..Len(chan') : chan'[j].key # k
        BY <2>2, <3>1, <4>1
      <4>3. m \in 1..Len(chan')
        BY <3>1
      <4> QED
        BY <3>1, <4>2, <4>3 DEF LastOf
    <3>5. \A a : Agrees(a, chan, k) => Agrees(a, chan', k)
      BY <2>2, <3>1, <3>2, Zenon DEF Agrees
    <3> QED
      BY <3>3, <3>4, <3>5
  <2> QED
    BY <2>1, <2>2, Zenon
<1>3. WellKept(db'[k]) /\ Queued(k)'
  BY <1>2, Zenon DEF IInv, Queued
<1>4. ASSUME NEW i \in 1..Len(submitted[k]), Protected(k, i) PROVE Protected(k, i)'
  BY <1>2, <1>4 DEF Protected, Compatible
<1> QED
  BY <1>3, <1>4 DEF IInv, KeyInv

\* Only the database is looked at by the check: what it lets through agrees with what is guarded.
LEMMA CheckStep ==
    ASSUME IInv, NEW x \in Keys, NEW c \in Votes[x], SlashableAttestationCheck(x, c)
    PROVE  \A k \in Keys : KeyInv(k)'
<1>1. /\ pc[x] = "idle" /\ passesCheck(db[x], c)
      /\ pc' = [pc EXCEPT ![x] = "send"] /\ att' = [att EXCEPT ![x] = c]
      /\ UNCHANGED <<db, chan, queue, submitted>>
  BY DEF SlashableAttestationCheck
<1>2. pc \in [Keys -> Pcs] /\ DOMAIN att = Keys /\ c \in Attestations
  BY VotesAssumption, Zenon DEF IInv, TypeOK
<1>3. \A k \in Keys \ {x} : KeyInv(k)'
  BY <1>1, <1>2, OtherKey
<1>4. pc'[x] = "send" /\ att'[x] = c
  BY <1>1, <1>2, Zenon
<1>5. ASSUME NEW i \in 1..Len(submitted[x]), Protected(x, i)
      PROVE  Protected(x, i)'
  <2> DEFINE a == submitted[x][i].att
  <2>1. Guards(db[x], a) => ~Slashable(a, c)
    BY <1>1, <1>2, Held, CheckAgrees, Zenon
  <2> QED
    BY <1>1, <1>4, <1>5, <2>1, Zenon DEF Protected, Compatible
<1>6. KeyInv(x)'
  BY <1>1, <1>4, <1>5 DEF IInv, KeyInv, Queued
<1> QED
  BY <1>3, <1>6, Zenon

\* The record an attester sends comes after all others of its key.
LEMMA SendStep ==
    ASSUME IInv, NEW x \in Keys, Send(x)
    PROVE  \A k \in Keys : KeyInv(k)'
<1> DEFINE rec == [key |-> x, att |-> att[x]]
<1>1. /\ pc[x] = "send" /\ pc' = [pc EXCEPT ![x] = "subscribe"] /\ chan' = Append(chan, rec)
      /\ UNCHANGED <<db, att, queue, submitted>>
  BY DEF Send
<1>2. pc \in [Keys -> Pcs] /\ chan \in Seq(Records) /\ rec \in Records
  BY <1>1, Held, Zenon DEF IInv, TypeOK, Records
<1>3. /\ Len(chan') = Len(chan) + 1 /\ chan'[Len(chan) + 1] = rec /\ Len(chan) \in Nat
      /\ \A i \in 1..Len(chan) : chan'[i] = chan[i]
  BY <1>1, <1>2
<1>4. \A k \in Keys \ {x} : KeyInv(k)'
  BY <1>1, <1>2, OtherKey
<1>5. pc'[x] = "subscribe"
  BY <1>1, <1>2
<1>6. LastOf(chan', x, att'[x])
  <2>1. Len(chan) + 1 \in 1..Len(chan') /\ \A j \in Len(chan) + 1 + 1..Len(chan') : FALSE
    BY <1>3
  <2> QED
    BY <1>1, <1>3, <2>1 DEF LastOf
<1>7. ASSUME NEW i \in 1..Len(submitted[x]), Protected(x, i)
      PROVE  Protected(x, i)'
  <2> DEFINE a == submitted[x][i].att
  <2>1. ASSUME Compatible(x, a) PROVE Agrees(a, chan', x)
    <3>1. ~Slashable(a, att[x])
      BY <1>1, <2>1 DEF Compatible
    <3>2. \A j \in 1..Len(chan') : j \in 1..Len(chan) \/ j = Len(chan) + 1
      BY <1>3
    <3> QED
      BY <1>3, <2>1, <3>1, <3>2 DEF Compatible, Agrees
  <2> QED
    BY <1>1, <1>5, <1>7, <2>1, Zenon DEF Protected, Compatible
<1>8. KeyInv(x)'
  BY <1>1, <1>6, <1>7 DEF IInv, KeyInv, Queued
<1> QED
  BY <1>4, <1>8

\* The subscription.
LEMMA SubscribeStep ==
    ASSUME IInv, NEW x \in Keys, Subscribe(x)
    PROVE  \A k \in Keys : KeyInv(k)'
<1>1. /\ pc[x] = "subscribe" /\ pc' = [pc EXCEPT ![x] = "wait"]
      /\ UNCHANGED <<db, att, chan, queue, submitted>>
  BY DEF Subscribe
<1>2. pc \in [Keys -> Pcs]
  BY DEF IInv, TypeOK
<1>3. \A k \in Keys \ {x} : KeyInv(k)'
  BY <1>1, <1>2, OtherKey
<1>4. pc'[x] = "wait"
  BY <1>1, <1>2, Zenon
<1>5. ASSUME NEW i \in 1..Len(submitted[x]), Protected(x, i)
      PROVE  Protected(x, i)'
  BY <1>1, <1>4, <1>5, Zenon DEF Protected, Compatible
<1>6. KeyInv(x)'
  BY <1>1, <1>4, <1>5 DEF IInv, KeyInv, Queued
<1> QED
  BY <1>3, <1>6

\* What is submitted agrees with everything that was saved before; when its own record is
\* saved, nothing else of the key is on its way.
LEMMA SubmitStep ==
    ASSUME IInv, NEW x \in Keys, Submit(x)
    PROVE  \A k \in Keys : KeyInv(k)'
<1> DEFINE isSaved == Recorded(db[x], att[x]) /\ ~InFlight(x, att[x])
           sub == [att |-> att[x], saved |-> isSaved]
<1>0. PICK n : n = Len(submitted[x]) + 1
  OBVIOUS
<1>1. /\ pc[x] = "submit" /\ pc' = [pc EXCEPT ![x] = "idle"]
      /\ submitted' = [submitted EXCEPT ![x] = Append(@, sub)]
      /\ att' = [att EXCEPT ![x] = NoVote]
      /\ UNCHANGED <<db, chan, queue>>
  BY Zenon DEF Submit
<1>2. pc \in [Keys -> Pcs] /\ DOMAIN att = Keys /\ DOMAIN submitted = Keys
  BY Zenon DEF IInv, TypeOK
<1>3. \A k \in Keys \ {x} : KeyInv(k)'
  BY <1>1, <1>2, OtherKey
<1>4. pc'[x] = "idle" /\ submitted'[x] = Append(submitted[x], sub)
  BY <1>1, <1>2, Zenon
<1>5. /\ Len(submitted'[x]) = n /\ submitted'[x][n] = sub /\ n \in Nat
      /\ \A i \in 1..Len(submitted[x]) : submitted'[x][i] = submitted[x][i]
  BY <1>0, <1>4, Held
<1> HIDE DEF isSaved
<1>6. ASSUME NEW i \in 1..Len(submitted[x]), Protected(x, i)
      PROVE  Protected(x, i)'
  <2> DEFINE a == submitted[x][i].att
  <2>1. submitted'[x][i].att = a
    BY <1>5
  <2>2. CASE Pruning /\ ~Recent(db[x], a)
    BY <1>1, <2>1, <2>2, Zenon DEF Protected
  <2>3. CASE /\ Guards(db[x], a) /\ Compatible(x, a)
             /\ \A j \in i + 1..Len(submitted[x]) : ~Slashable(a, submitted[x][j].att)
    <3>1. \A j \in i + 1..n : j = n \/ j \in i + 1..Len(submitted[x])
      BY <1>0, <1>5
    <3>2. ~Slashable(a, att[x])
      BY <1>1, <2>3 DEF Compatible
    <3>3. \A j \in i + 1..Len(submitted[x]) : submitted'[x][j] = submitted[x][j]
      BY <1>5
    <3>4. \A j \in i + 1..n : ~Slashable(a, submitted'[x][j].att)
      BY <1>5, <2>3, <3>1, <3>2, <3>3
    <3>5. Compatible(x, a)'
      BY <1>1, <1>4, <2>1, <2>3, Zenon DEF Compatible
    <3> QED
      BY <1>1, <1>5, <2>1, <2>3, <3>4, <3>5, Zenon DEF Protected
  <2> QED
    BY <1>6, <2>2, <2>3, Zenon DEF Protected
<1>7. ASSUME isSaved PROVE Protected(x, n)'
  <2>1. ~LastOf(chan, x, att[x]) /\ ~LastOf(queue, x, att[x])
    BY <1>7 DEF isSaved, InFlight, LastOf
  <2>2. NoneOf(chan, x) /\ NoneOf(queue, x) /\ Guards(db[x], att[x])
    BY <1>1, <2>1 DEF IInv, Queued
  <2>3. Agrees(att[x], chan, x) /\ Agrees(att[x], queue, x)
    BY <2>2 DEF NoneOf, Agrees
  <2>4. \A j \in n + 1..n : FALSE
    BY <1>5
  <2> QED
    BY <1>1, <1>4, <1>5, <2>2, <2>3, <2>4 DEF Protected, Compatible
<1>8. ASSUME NEW i \in 1..n, submitted'[x][i].saved PROVE Protected(x, i)'
  <2>1. CASE i \in 1..Len(submitted[x])
    BY <1>5, <1>6, <1>8, <2>1 DEF IInv
  <2>2. CASE i = n
    BY <1>5, <1>7, <1>8, <2>2
  <2> QED
    BY <1>0, <1>5, <2>1, <2>2
<1>9. KeyInv(x)'
  BY <1>1, <1>4, <1>5, <1>8 DEF IInv, KeyInv, Queued
<1> QED
  BY <1>3, <1>9

\* The writer takes the records in the order they were sent.
LEMMA ReceiveStep ==
    ASSUME IInv, Receive
    PROVE  \A k \in Keys : KeyInv(k)'
<1>1. /\ chan # <<>> /\ chan' = Tail(chan) /\ queue' = Append(queue, Head(chan))
      /\ UNCHANGED <<db, pc, att, submitted>>
  BY DEF Receive
<1>2. chan \in Seq(Records) /\ queue \in Seq(Records)
  BY DEF IInv, TypeOK
<1>3. /\ Len(chan) \in Nat \ {0} /\ Len(chan') = Len(chan) - 1
      /\ \A i \in 1..Len(chan') : chan'[i] = chan[i + 1]
      /\ Len(queue') = Len(queue) + 1 /\ queue'[Len(queue) + 1] = chan[1] /\ Len(queue) \in Nat
      /\ \A i \in 1..Len(queue) : queue'[i] = queue[i]
  BY <1>1, <1>2
<1>4. /\ \A i \in 1..Len(queue') : i \in 1..Len(queue) \/ i = Len(queue) + 1
      /\ \A i \in 1..Len(chan') : i + 1 \in 1..Len(chan)
      /\ 1 \in 1..Len(chan)
  BY <1>3
<1>5. ASSUME NEW k \in Keys, NEW a
      PROVE  /\ Agrees(a, chan, k) => Agrees(a, chan', k)
             /\ Agrees(a, chan, k) /\ Agrees(a, queue, k) => Agrees(a, queue', k)
             /\ NoneOf(chan, k) => NoneOf(chan', k)
             /\ NoneOf(chan, k) /\ NoneOf(queue, k) => NoneOf(queue', k)
  BY <1>3, <1>4, Zenon DEF Agrees, NoneOf
<1>6. ASSUME NEW k \in Keys, NEW a, LastOf(chan, k, a)
      PROVE  LastOf(chan', k, a) \/ (NoneOf(chan', k) /\ LastOf(queue', k, a))
  <2>1. PICK m \in 1..Len(chan) : /\ chan[m] = [key |-> k, att |-> a]
                                  /\ \A j \in m + 1..Len(chan) : chan[j].key # k
    BY <1>6 DEF LastOf
  <2>2. CASE m = 1
    <3>1. \A j \in 1..Len(chan') : j + 1 \in m + 1..Len(chan)
      BY <1>3, <2>2
    <3>2. NoneOf(chan', k)
      BY <1>3, <2>1, <3>1 DEF NoneOf
    <3>3. /\ Len(queue) + 1 \in 1..Len(queue') /\ queue'[Len(queue) + 1] = [key |-> k, att |-> a]
          /\ \A j \in Len(queue) + 1 + 1..Len(queue') : FALSE
      BY <1>3, <2>1, <2>2
    <3> QED
      BY <3>2, <3>3 DEF LastOf
  <2>3. CASE m # 1
    <3>1. m - 1 \in 1..Len(chan') /\ chan'[m - 1] = [key |-> k, att |-> a]
      BY <1>3, <2>1, <2>3
    <3>2. \A j \in m - 1 + 1..Len(chan') : j \in 1..Len(chan') /\ j + 1 \in m + 1..Len(chan)
      BY <1>3, <2>3
    <3>3. \A j \in m - 1 + 1..Len(chan') : chan'[j].key # k
      BY <1>3, <2>1, <3>2
    <3> QED
      BY <3>1, <3>3 DEF LastOf
  <2> QED
    BY <2>2, <2>3
<1>7. ASSUME NEW k \in Keys, NEW a, NoneOf(chan, k), LastOf(queue, k, a)
      PROVE  LastOf(queue', k, a)
  <2>1. PICK m \in 1..Len(queue) : /\ queue[m] = [key |-> k, att |-> a]
                                   /\ \A j \in m + 1..Len(queue) : queue[j].key # k
    BY <1>7 DEF LastOf
  <2>2. m \in 1..Len(queue') /\ \A j \in m + 1..Len(queue') : j \in m + 1..Len(queue) \/ j = Len(queue) + 1
    BY <1>3
  <2>3. \A j \in m + 1..Len(queue') : queue'[j].key # k
    BY <1>3, <1>4, <1>7, <2>1, <2>2 DEF NoneOf
  <2> QED
    BY <1>3, <2>1, <2>2, <2>3 DEF LastOf
<1>8. ASSUME NEW k \in Keys PROVE Queued(k)'
  BY <1>1, <1>5, <1>6, <1>7, Zenon DEF IInv, Queued
<1>9. ASSUME NEW k \in Keys, NEW i \in 1..Len(submitted[k]), Protected(k, i)
      PROVE  Protected(k, i)'
  BY <1>1, <1>5, <1>9, Zenon DEF Protected, Compatible
<1> QED
  BY <1>1, <1>8, <1>9 DEF IInv, KeyInv

\* A batch that is begun, or that fails, changes neither the indices nor the records.
LEMMA WriterStep ==
    ASSUME IInv, Tick \/ SaveFails
    PROVE  \A k \in Keys : KeyInv(k)'
<1>1. UNCHANGED <<db, pc, att, chan, queue, submitted>>
  BY DEF Tick, SaveFails
<1> QED
  BY <1>1, OtherKey

\* A batch is written in order: the records agree with what is guarded, and the last record
\* of a key is guarded.
LEMMA SaveStep ==
    ASSUME IInv, Save
    PROVE  \A k \in Keys : KeyInv(k)'
<1>1. /\ db' = saveAttestationRecords(queue) /\ queue' = <<>>
      /\ UNCHANGED <<pc, att, chan, submitted>>
  BY Zenon DEF Save
<1>2. BatchOf(db', queue, Len(queue))
  BY <1>1, BatchSaved, Zenon DEF IInv, TypeOK
<1>3. \A a : \A k \in Keys : Agrees(a, queue', k) /\ NoneOf(queue', k)
  BY <1>1 DEF Agrees, NoneOf
<1> SUFFICES ASSUME NEW k \in Keys PROVE KeyInv(k)'
  OBVIOUS
<1>4. WellKept(db'[k])
  BY <1>2, Zenon DEF BatchOf
<1>5. NoneOf(queue, k) => db'[k] = db[k]
  BY <1>2, Zenon DEF BatchOf, NoneOf
<1>6. Queued(k)'
  <2> SUFFICES ASSUME pc[k] \in {"subscribe", "wait", "submit"}
               PROVE  \/ LastOf(chan, k, att[k])
                      \/ NoneOf(chan, k) /\ NoneOf(queue', k) /\ Guards(db'[k], att[k])
    BY <1>1, Zenon DEF Queued
  <2>1. LastOf(queue, k, att[k]) => Guards(db'[k], att[k])
    BY <1>2, Held, Zenon DEF BatchOf, LastOf
  <2> QED
    BY <1>3, <1>5, <2>1, Zenon DEF IInv, Queued
<1>7. ASSUME NEW i \in 1..Len(submitted[k]), Protected(k, i)
      PROVE  Protected(k, i)'
  <2> DEFINE a == submitted[k][i].att
  <2>1. a \in Attestations
    BY Held
  <2>2. ~Recent(db[k], a) => ~Recent(db'[k], a)
    BY <1>2, <2>1, Zenon DEF BatchOf
  <2>3. Guards(db[k], a) /\ Agrees(a, queue, k) => Guards(db'[k], a)
    BY <1>2, <2>1, Zenon DEF BatchOf, Agrees
  <2> QED
    BY <1>1, <1>3, <1>7, <2>2, <2>3, Zenon DEF Protected, Compatible
<1> QED
  BY <1>1, <1>4, <1>6, <1>7 DEF IInv, KeyInv

\* An answer moves the attesters that wait for one.
LEMMA NotifyStep ==
    ASSUME IInv, Notify
    PROVE  \A k \in Keys : KeyInv(k)'
<1> SUFFICES ASSUME NEW k \in Keys PROVE KeyInv(k)'
  OBVIOUS
<1>1. /\ pc'[k] = IF pc[k] # "wait" THEN pc[k] ELSE IF writer = "saved" THEN "submit" ELSE "idle"
      /\ att'[k] = IF pc'[k] = "idle" THEN NoVote ELSE att[k]
      /\ UNCHANGED <<db, chan, queue, submitted>>
  BY DEF Notify
<1>2. pc'[k] # "idle" => pc[k] # "idle" /\ att'[k] = att[k]
  BY <1>1, Zenon
<1>3. Queued(k)'
  BY <1>1, <1>2, Zenon DEF IInv, Queued
<1>4. ASSUME NEW i \in 1..Len(submitted[k]), Protected(k, i)
      PROVE  Protected(k, i)'
  BY <1>1, <1>2, <1>4, Zenon DEF Protected, Compatible
<1> QED
  BY <1>1, <1>3, <1>4, Zenon DEF IInv, KeyInv

\* A restart loses what was not written; pruning keeps what is recent.
LEMMA RestartStep ==
    ASSUME IInv, Restart
    PROVE  \A k \in Keys : KeyInv(k)'
<1> SUFFICES ASSUME NEW k \in Keys PROVE KeyInv(k)'
  OBVIOUS
<1>1. /\ pc'[k] = "idle" /\ chan' = <<>> /\ queue' = <<>> /\ UNCHANGED submitted
      /\ db'[k] = IF Pruning THEN PruneAttestations(db[k]) ELSE db[k]
  BY Zenon DEF Restart
<1>2. WellKept(db'[k])
  BY <1>1, PruneKeeps DEF IInv
<1>3. ASSUME NEW i \in 1..Len(submitted[k]), Protected(k, i)
      PROVE  Protected(k, i)'
  <2> DEFINE a == submitted[k][i].att
  <2>1. a \in Attestations
    BY Held
  <2>2. Compatible(k, a)'
    BY <1>1 DEF Compatible, Agrees
  <2>3. /\ ~Recent(db[k], a) => ~Recent(db'[k], a)
        /\ Guards(db[k], a) /\ (Recent(db[k], a) \/ ~Pruning) => Guards(db'[k], a)
    BY <1>1, <2>1, PruneKeeps DEF IInv
  <2> QED
    BY <1>1, <1>3, <2>2, <2>3, Zenon DEF Protected
<1> QED
  BY <1>1, <1>2, <1>3 DEF IInv, KeyInv, Queued

\* The types, and the capacity of the channel.
LEMMA TypeStep ==
    ASSUME IInv, Next
    PROVE  TypeOK'
<1>1. TypeOK
  BY DEF IInv
<1>2. {MaxRequests, MaxErrors, MaxCrashes} \subseteq Nat /\ BatchCapacity \in Nat
  BY LimitsAssumption, CapacityAssumption
<1>3. \A k \in Keys : Votes[k] \subseteq Attestations
  BY VotesAssumption
<1>4. NoVote \notin Attestations
  BY VotesAssumption DEF NoVote, None, Attestations
<1>5. CASE \E k \in Keys : \E a \in Votes[k] : SlashableAttestationCheck(k, a)
  <2>1. PICK k \in Keys : \E a \in Votes[k] : SlashableAttestationCheck(k, a)
    BY <1>5
  <2>2. requests' \in 0..MaxRequests
    BY <1>1, <1>2, <2>1 DEF TypeOK, SlashableAttestationCheck
  <2> QED
    BY <1>1, <1>3, <2>1, <2>2, Zenon DEF TypeOK, SlashableAttestationCheck, Pcs
<1>6. CASE \E k \in Keys : Attester(k)
  <2>1. PICK k \in Keys : Attester(k)
    BY <1>6
  <2>2. CASE Send(k)
    <3>1. [key |-> k, att |-> att[k]] \in Records
      BY <2>2, Held, Zenon DEF Send, Records
    <3>2. chan' \in Seq(Records) /\ Len(chan') <= BatchCapacity
      BY <1>1, <1>2, <2>2, <3>1 DEF TypeOK, Send
    <3> QED
      BY <1>1, <2>2, <3>2, Zenon DEF TypeOK, Send, Pcs
  <2>3. CASE Subscribe(k)
    BY <1>1, <2>3, Zenon DEF TypeOK, Subscribe, Pcs
  <2>4. CASE Submit(k)
    <3> DEFINE Submissions == [att : Attestations, saved : BOOLEAN]
               sub == [att |-> att[k], saved |-> Recorded(db[k], att[k]) /\ ~InFlight(k, att[k])]
    <3>1. sub \in Submissions
      BY <2>4, Held DEF Submit, Recorded, InFlight
    <3>2. submitted' = [submitted EXCEPT ![k] = Append(@, sub)]
      BY <2>4 DEF Submit
    <3>3. submitted \in [Keys -> Seq(Submissions)]
      BY <1>1, Zenon DEF TypeOK
    <3>4. submitted' \in [Keys -> Seq(Submissions)]
      <4> HIDE DEF Submissions, sub
      <4> QED
        BY <3>1, <3>2, <3>3
    <3> QED
      BY <1>1, <2>4, <3>4, Zenon DEF TypeOK, Submit, Pcs
  <2> QED
    BY <2>1, <2>2, <2>3, <2>4 DEF Attester
<1>7. CASE Receive
  <2>1. chan' \in Seq(Records) /\ Len(chan') <= BatchCapacity /\ queue' \in Seq(Records)
    BY <1>1, <1>2, <1>7 DEF TypeOK, Receive
  <2> QED
    BY <1>1, <1>7, <2>1, Zenon DEF TypeOK, Receive
<1>8. CASE Tick \/ SaveFails
  <2>1. errors' \in 0..MaxErrors
    BY <1>1, <1>2, <1>8 DEF TypeOK, Tick, SaveFails
  <2> QED
    BY <1>1, <1>8, <2>1, Zenon DEF TypeOK, Tick, SaveFails
<1>9. CASE Save
  <2>1. BatchOf(db', queue, Len(queue))
    <3>1. queue \in Seq(Records) /\ db \in [Keys -> Buckets] /\ \A k \in Keys : WellKept(db[k])
      BY DEF IInv, TypeOK
    <3>2. db' = saveAttestationRecords(queue)
      BY <1>9 DEF Save
    <3> QED
      BY <3>1, <3>2, BatchSaved, Zenon
  <2> QED
    <3>1. db' \in [Keys -> Buckets] /\ queue' \in Seq(Records)
      BY <1>9, <2>1 DEF Save, BatchOf
    <3> QED
      BY <1>1, <1>9, <3>1, Zenon DEF TypeOK, Save
<1>10. CASE Notify
  BY <1>1, <1>10, Zenon DEF TypeOK, Notify, Pcs
<1>11. CASE Restart
  <2>1. db' \in [Keys -> Buckets]
    <3>1. \A k \in Keys : PruneAttestations(db[k]) \in Buckets
      BY PruneKeeps, Zenon DEF IInv, WellKept
    <3> QED
      BY <1>1, <1>11, <3>1, Zenon DEF TypeOK, Restart
  <2>2. crashes' \in 0..MaxCrashes
    BY <1>1, <1>2, <1>11 DEF TypeOK, Restart
  <2>3. chan' \in Seq(Records) /\ Len(chan') <= BatchCapacity /\ queue' \in Seq(Records)
    BY <1>2, <1>11 DEF Restart
  <2> QED
    BY <1>1, <1>11, <2>1, <2>2, <2>3, Zenon DEF TypeOK, Restart, Pcs
<1> QED
  BY <1>5, <1>6, <1>7, <1>8, <1>9, <1>10, <1>11 DEF Next, Writer

\* Every step keeps the invariant.
LEMMA NextInv == IInv /\ [Next]_vars => IInv'
<1> SUFFICES ASSUME IInv, [Next]_vars PROVE IInv'
  OBVIOUS
<1>1. CASE Next
  <2>1. \A k \in Keys : KeyInv(k)'
    <3>1. \/ \E k \in Keys : \E a \in Votes[k] : SlashableAttestationCheck(k, a)
          \/ \E k \in Keys : Send(k) \/ Subscribe(k) \/ Submit(k)
          \/ Receive \/ Tick \/ SaveFails \/ Save \/ Notify \/ Restart
      BY <1>1 DEF Next, Attester, Writer
    <3> QED
      BY <3>1, CheckStep, SendStep, SubscribeStep, SubmitStep, ReceiveStep, WriterStep, SaveStep,
         NotifyStep, RestartStep, Zenon
  <2>2. TypeOK'
    BY <1>1, TypeStep
  <2> QED
    BY <2>1, <2>2, Zenon DEF IInv, KeyInv
<1>2. CASE UNCHANGED vars
  <2>1. TypeOK'
    BY <1>2, Zenon DEF vars, IInv, TypeOK
  <2>2. \A k \in Keys : KeyInv(k)'
    BY <1>2, OtherKey DEF vars
  <2> QED
    BY <2>1, <2>2 DEF IInv, KeyInv
<1> QED
  BY <1>1, <1>2

\* The client starts with the invariant.
LEMMA InitInv == Init => IInv
<1> SUFFICES ASSUME Init PROVE IInv
  OBVIOUS
<1>1. NoBuckets \in Buckets
  BY DEF NoBuckets, Buckets
<1>2. {MaxRequests, MaxErrors, MaxCrashes} \subseteq Nat /\ BatchCapacity \in Nat
  BY LimitsAssumption, CapacityAssumption
<1>3. chan \in Seq(Records) /\ Len(chan) <= BatchCapacity /\ queue \in Seq(Records)
  BY <1>2 DEF Init
<1>4. submitted \in [Keys -> Seq([att : Attestations, saved : BOOLEAN])]
  BY DEF Init
<1>5. requests \in 0..MaxRequests /\ errors \in 0..MaxErrors /\ crashes \in 0..MaxCrashes
  BY <1>2 DEF Init
<1>6. TypeOK
  BY <1>1, <1>3, <1>4, <1>5 DEF Init, TypeOK, Pcs
<1>7. WellKept(NoBuckets)
  BY <1>1, Zenon DEF WellKept, NoBuckets, SameTargets, Bounded
<1>8. \A k \in Keys : KeyInv(k)
  BY <1>7 DEF Init, KeyInv, Queued
<1> QED
  BY <1>6, <1>8 DEF IInv, KeyInv

-----------------------------------------------------------------------------
(* The theorems.                                                           *)

\* The indices, the queues and the attesters keep the inductive invariant.
THEOREM ProtectionInvariant == Spec => []IInv
  BY InitInv, NextInv, PTL DEF Spec

\* An attestation whose record was in the database when it was submitted is contradicted by no
\* later submission of its key before pruning may drop it, through restarts, failed writes and
\* answers that belong to other batches (SlashableAttestationCheck, batchAttestationWrites and
\* PruneAttestations together).
THEOREM SavedSafe == Spec => []SavedNeverContradicted
<1>1. IInv => SavedNeverContradicted
  <2> SUFFICES ASSUME IInv, NEW k \in Keys, NEW i \in 1..Len(submitted[k]),
                      NEW j \in 1..Len(submitted[k]), i < j, submitted[k][i].saved,
                      Slashable(submitted[k][i].att, submitted[k][j].att)
               PROVE  Pruning /\ ~Recent(db[k], submitted[k][i].att)
    BY DEF SavedNeverContradicted
  <2>1. Protected(k, i)
    BY DEF IInv
  <2>2. j \in i + 1..Len(submitted[k])
    BY Held
  <2> QED
    BY <2>1, <2>2, Zenon DEF Protected
<1> QED
  BY <1>1, ProtectionInvariant, PTL

=============================================================================
