------------------------- MODULE BackfillStepProofs -------------------------
(***************************************************************************)
(* The workers of the pool, the update of a batch by the service loop and  *)
(* the import keep the invariant of Backfill.                              *)
(***************************************************************************)
EXTENDS BackfillSequenceProofs

\* A step is first-order unless it says otherwise.
USE ZenonT(30)

-----------------------------------------------------------------------------
(* The workers.                                                            *)

\* A worker that has a batch is not Idle, and one that is Idle has none.
LEMMA WorkerTypes ==
    ASSUME Typed, NEW w \in Workers
    PROVE  /\ worker[w].batch \in Batches /\ DOMAIN worker = Workers
           /\ worker[w].doing = "idle" <=> worker[w] = Idle
           /\ \A d \in {"work", "done"}, b \in Batches :
                /\ [doing |-> d, batch |-> b] # Idle
                /\ [doing |-> d, batch |-> b].batch = b
<1>1. worker \in [Workers -> [doing : {"idle", "work", "done"}, batch : Batches]]
  BY DEF Typed
<1>2. Idle.doing = "idle"
  BY DEF Idle
<1>3. ASSUME NEW d \in {"work", "done"}, NEW b \in Batches
      PROVE  /\ [doing |-> d, batch |-> b] # Idle
             /\ [doing |-> d, batch |-> b].batch = b
  <2>1. [doing |-> d, batch |-> b].doing = d /\ [doing |-> d, batch |-> b].batch = b
    OBVIOUS
  <2>2. d # "idle"
    OBVIOUS
  <2> QED
    BY <1>2, <2>1, <2>2
<1>4. worker[w].doing = "idle" => worker[w] = Idle
  BY DEF Typed
<1>5. worker[w].batch \in Batches /\ DOMAIN worker = Workers
  BY <1>1
<1> QED
  BY <1>2, <1>3, <1>4, <1>5

\* The router collects a batch from a worker that is done.
LEMMA CollectsKeeps ==
    ASSUME IInv, NEW w \in Workers, RouterCollects(w)
    PROVE  IInv'
<1>1. Typed
  BY DEF IInv
<1>2. PICK b : b = worker[w].batch
  OBVIOUS
<1>3. /\ b \in Batches /\ DOMAIN worker = Workers /\ worker[w].doing = "done" /\ worker[w] # Idle
      /\ worker' = [worker EXCEPT ![w] = Idle]
      /\ IF b.state = "importable"
             THEN fromRouter' = Append(fromRouter, b) /\ todo' = todo
             ELSE todo' = sortBatchDesc(todo, b) /\ fromRouter' = fromRouter
      /\ UNCHANGED <<retention, low, stored, seq, main, importing, endSeq, toRouter>>
      /\ router' = "process"
  <2>1. b \in Batches /\ DOMAIN worker = Workers /\ (worker[w].doing = "idle" <=> worker[w] = Idle)
    BY <1>1, <1>2, WorkerTypes
  <2> QED
    BY <1>2, <2>1 DEF RouterCollects
<1>4. \A v \in Workers : worker'[v] = IF v = w THEN Idle ELSE worker[v]
  BY <1>3
<1>5. Cardinality(Busy(worker')) = Cardinality(Busy(worker)) - 1
  <2>1. Others(worker, worker', w) /\ worker'[w] = Idle
    BY <1>4 DEF Others
  <2> QED
    BY <1>3, <2>1, BusyFacts
<1>6. /\ fromRouter' \in Seq(Batches) /\ todo' \in Seq(Batches)
      /\ Len(fromRouter') + Len(todo') = Len(fromRouter) + Len(todo) + 1
      /\ \A y : y \in Range(fromRouter') \/ y \in Range(todo')
                  <=> y \in Range(fromRouter) \/ y \in Range(todo) \/ y = b
      /\ \A y \in Range(fromRouter') : y.state = "importable"
  <2>1. fromRouter \in Seq(Batches) /\ todo \in Seq(Batches) /\ Len(fromRouter) \in Nat /\ Len(todo) \in Nat
    BY SMTT(30), <1>1 DEF Typed
  <2>2. \A y \in Range(fromRouter) : y.state = "importable"
    BY DEF IInv
  <2>3. CASE b.state = "importable"
    <3>1. fromRouter' = Append(fromRouter, b) /\ todo' = todo
      BY <1>3, <2>3
    <3>2. Range(fromRouter') = Range(fromRouter) \cup {b}
      BY SMTT(30), <1>3, <2>1, <3>1, RangeFacts
    <3>3. fromRouter' \in Seq(Batches) /\ Len(fromRouter') = Len(fromRouter) + 1
      BY SMTT(30), <1>3, <2>1, <3>1
    <3> QED
      BY SMTT(30), <2>1, <2>2, <2>3, <3>1, <3>2, <3>3
  <2>4. CASE b.state # "importable"
    <3>1. todo' = sortBatchDesc(todo, b) /\ fromRouter' = fromRouter
      BY <1>3, <2>4
    <3>2. todo' \in Seq(Batches) /\ Len(todo') = Len(todo) + 1 /\ Adds(todo', todo, b)
      BY <1>3, <2>1, <3>1, SortFacts
    <3> QED
      BY SMTT(30), <2>1, <2>2, <3>1, <3>2 DEF Adds
  <2> QED
    BY <2>3, <2>4
<1>7. Typed'
  <2>1. worker' \in [Workers -> [doing : {"idle", "work", "done"}, batch : Batches]]
    <3>1. Idle \in [doing : {"idle", "work", "done"}, batch : Batches]
      BY BatchFields DEF Idle
    <3> QED
      BY <1>1, <1>3, <3>1 DEF Typed
  <2>2. \A v \in Workers : worker'[v].doing = "idle" => worker'[v] = Idle
    BY <1>1, <1>4 DEF Typed
  <2> QED
    BY <1>1, <1>3, <1>6, <2>1, <2>2 DEF Typed
<1>8. \A y : y \in Items' <=> y \in Items
  <2> TAKE y
  <2>1. (\E v \in Workers : worker[v] # Idle /\ y = worker[v].batch) <=>
          (\E v \in Workers : worker'[v] # Idle /\ y = worker'[v].batch) \/ y = b
    BY <1>2, <1>3, <1>4
  <2> QED
    BY <1>3, <1>6, <2>1, ItemsFacts
<1>9. inPool' = inPool
  <2>1. Len(fromRouter') \in Nat /\ Len(todo') \in Nat /\ Len(toRouter') = Len(toRouter)
    BY SMTT(30), <1>3, <1>6
  <2>2. Len(fromRouter') + Len(todo') = Len(fromRouter) + Len(todo) + 1
    BY <1>6
  <2> QED
    BY SMTT(30), <1>1, <1>5, <2>1, <2>2, Counts
<1> QED
  BY <1>3, <1>6, <1>7, <1>8, <1>9, PoolSame

\* The batch that a worker has gives way to a later version of it, or to one from todo.
LEMMA WorkerGets ==
    ASSUME IInv, NEW w \in Workers, NEW d \in {"work", "done"}, NEW b \in Batches, Fits(b),
           NEW a \in Batches, Follows(b, a), a \in Items,
           worker' = [worker EXCEPT ![w] = [doing |-> d, batch |-> b]],
           \/ /\ worker[w] # Idle /\ a = worker[w].batch /\ todo' = todo
           \/ /\ worker[w] = Idle /\ todo # <<>> /\ a = Head(todo) /\ todo' = Tail(todo),
           UNCHANGED <<retention, low, stored, seq, main, importing, endSeq, toRouter, fromRouter, router>>
    PROVE  IInv'
<1>1. Typed
  BY DEF IInv
<1>2. PICK x : x = [doing |-> d, batch |-> b]
  OBVIOUS
<1>3. x # Idle /\ x.batch = b /\ DOMAIN worker = Workers
  BY <1>1, <1>2, WorkerTypes
<1>0. worker' = [worker EXCEPT ![w] = x]
  BY <1>2
<1>4. \A v \in Workers : worker'[v] = IF v = w THEN x ELSE worker[v]
  BY <1>0, <1>3
<1>5. todo \in Seq(Batches)
  BY <1>1 DEF Typed
<1>6. todo # <<>> => /\ Tail(todo) \in Seq(Batches) /\ Range(todo) = {Head(todo)} \cup Range(Tail(todo))
                     /\ Len(Tail(todo)) = Len(todo) - 1
  BY <1>5, RangeFacts
<1>7. todo' \in Seq(Batches)
  BY <1>5, <1>6
<1>8. Typed'
  <2>1. worker' \in [Workers -> [doing : {"idle", "work", "done"}, batch : Batches]]
    <3>1. x \in [doing : {"idle", "work", "done"}, batch : Batches]
      BY <1>2
    <3> QED
      BY <1>1, <1>2, <3>1 DEF Typed
  <2>2. \A v \in Workers : worker'[v].doing = "idle" => worker'[v] = Idle
    <3>1. x.doing # "idle"
      BY <1>2
    <3> QED
      BY <1>1, <1>4, <3>1 DEF Typed
  <2> QED
    BY <1>1, <1>7, <2>1, <2>2 DEF Typed
<1>9. inPool' = inPool
  <2>0. Others(worker, worker', w) /\ worker'[w] # Idle
    BY <1>3, <1>4 DEF Others
  <2>1. CASE worker[w] # Idle /\ todo' = todo
    <3>1. Cardinality(Busy(worker')) = Cardinality(Busy(worker))
      BY <2>0, <2>1, BusyFacts
    <3> QED
      BY <1>1, <2>1, <3>1, Counts
  <2>2. CASE worker[w] = Idle /\ todo # <<>> /\ todo' = Tail(todo)
    <3>1. Cardinality(Busy(worker')) = Cardinality(Busy(worker)) + 1
      BY <2>0, <2>2, BusyFacts
    <3>2. Len(todo') = Len(todo) - 1
      BY <1>6, <2>2
    <3> QED
      BY SMTT(30), <1>1, <3>1, <3>2, Counts
  <2> QED
    BY <2>1, <2>2
<1>10. \A y : y \in Items' => y = b \/ y \in Items
  <2> TAKE y
  <2>1. (\E v \in Workers : worker'[v] # Idle /\ y = worker'[v].batch) =>
          (\E v \in Workers : worker[v] # Idle /\ y = worker[v].batch) \/ y = b
    BY <1>3, <1>4
  <2>2. y \in Range(todo') => y \in Range(todo)
    BY <1>6
  <2> QED
    BY <2>1, <2>2, ItemsFacts
<1>11. b \in Items' /\ \A y : y \in Items => y = a \/ y \in Items'
  <2>1. worker'[w] # Idle /\ b = worker'[w].batch
    BY <1>3, <1>4
  <2>2. b \in Items'
    BY <2>1, ItemsFacts
  <2>3. ASSUME NEW y, y \in Items, y # a PROVE y \in Items'
    <3>1. (\E v \in Workers : worker[v] # Idle /\ y = worker[v].batch) =>
            (\E v \in Workers : worker'[v] # Idle /\ y = worker'[v].batch)
      BY <1>4, <2>3
    <3>2. y \in Range(todo) => y \in Range(todo')
      BY <1>6, <2>3
    <3> QED
      BY <2>3, <3>1, <3>2, ItemsFacts
  <2> QED
    BY <2>2, <2>3
<1>12. \A y \in Items : Fits(y) /\ y \in Batches
  BY DEF IInv, ItemsOK, Fits
<1>13. \A y \in Items : Follows(y, y)
  BY SMTT(30), <1>12, BatchFields DEF Follows
<1>14. \A y \in Items' : Fits(y) /\ \E z \in Items : Follows(y, z)
  BY <1>10, <1>12, <1>13
<1>15. \A z \in Items : expired(z) \/ \E y \in Items' : Follows(y, z)
  BY <1>11, <1>13
<1>16. \A y \in Range(fromRouter') : y.state = "importable"
  BY DEF IInv
<1> QED
  BY <1>8, <1>9, <1>14, <1>15, <1>16, PoolStep

\* A batch with the range and the version of b, and blocks for all of its range.
Refilled(c, b) ==
    /\ c \in Batches /\ c.begin = b.begin /\ c.end = b.end /\ c.seq = b.seq
    /\ ~Truncated => c.blocks \in {NoBlocks, b.begin}

\* A worker leaves a batch in its next state, with the range it had.
LEMMA RefilledFacts ==
    ASSUME NEW b \in Batches, Fits(b), NEW c, Refilled(c, b), NEW s \in States
    PROVE  /\ Follows(withState(c, s), b) /\ Fits(withState(c, s))
           /\ Follows(transitionToNext(c), b) /\ Fits(transitionToNext(c))
<1>1. c \in Batches /\ Follows(c, b) /\ Fits(c)
  BY SMTT(30), BatchFields DEF Refilled, Follows, Fits
<1>2. Follows(withState(c, s), c) /\ withState(c, s).blocks = c.blocks
  BY <1>1, WithStateFacts
<1>3. Follows(transitionToNext(c), c) /\ transitionToNext(c).blocks = c.blocks
  BY <1>1, TransitionFacts
<1>4. ASSUME NEW x, Follows(x, c), x.blocks = c.blocks PROVE Follows(x, b) /\ Fits(x)
  <2>1. Follows(x, b)
    BY <1>1, <1>4, FollowsTrans
  <2> QED
    BY <1>1, <1>4, <2>1 DEF Fits, Follows
<1> QED
  BY <1>2, <1>3, <1>4

\* The data that a worker may put in a batch.
LEMMA ExceptFacts ==
    ASSUME NEW b \in Batches, Fits(b), NEW blocks \in Slots \cup {NoBlocks},
           ~Truncated => blocks \in {NoBlocks, b.begin},
           NEW linked \in BOOLEAN, NEW need \in SUBSET SidecarKinds
    PROVE  /\ Refilled(b, b)
           /\ Refilled([b EXCEPT !.blocks = blocks], b)
           /\ Refilled([b EXCEPT !.need = need], b)
           /\ Refilled([b EXCEPT !.blocks = blocks, !.linked = linked], b)
           /\ Refilled([b EXCEPT !.need = need, !.blocks = blocks], b)
           /\ Refilled([b EXCEPT !.blocks = blocks, !.linked = linked, !.need = need], b)
<1>1. ~Truncated => b.blocks \in {NoBlocks, b.begin}
  BY DEF Fits
<1>2. Refilled(b, b)
  BY <1>1 DEF Refilled
<1>3. Refilled([b EXCEPT !.blocks = blocks], b)
  BY DEF Refilled, Batches
<1>4. Refilled([b EXCEPT !.need = need], b)
  BY <1>1 DEF Refilled, Batches
<1>5. Refilled([b EXCEPT !.blocks = blocks, !.linked = linked], b)
  BY DEF Refilled, Batches
<1>6. Refilled([b EXCEPT !.need = need, !.blocks = blocks], b)
  BY DEF Refilled, Batches
<1>7. Refilled([b EXCEPT !.blocks = blocks, !.linked = linked, !.need = need], b)
  BY DEF Refilled, Batches
<1> QED
  BY <1>2, <1>3, <1>4, <1>5, <1>6, <1>7

\* The router gives a batch to a worker.
LEMMA AssignsKeeps ==
    ASSUME IInv, NEW w \in Workers, ProcessAssigns(w)
    PROVE  IInv'
<1>1. Typed
  BY DEF IInv
<1>2. PICK a : a = Head(todo)
  OBVIOUS
<1>3. PICK b : b = IF a.state = "errRetryable" THEN transitionToNext(a) ELSE a
  OBVIOUS
<1>4. /\ todo # <<>> /\ todo' = Tail(todo) /\ worker[w].doing = "idle"
      /\ worker' = [worker EXCEPT ![w] = [doing |-> "work", batch |-> b]]
      /\ UNCHANGED <<retention, low, stored, seq, main, importing, endSeq, toRouter, fromRouter, router>>
  BY <1>2, <1>3 DEF ProcessAssigns
<1>5. worker[w] = Idle
  BY <1>1, <1>4, WorkerTypes
<1>6. a \in Range(todo)
  <2>1. todo \in Seq(Batches)
    BY <1>1 DEF Typed
  <2> QED
    BY SMTT(30), <1>2, <1>4, <2>1, RangeFacts
<1>7. a \in Items
  BY <1>6, ItemsFacts
<1>8. Fits(a) /\ a \in Batches
  BY <1>7 DEF IInv, ItemsOK, Fits
<1>9. Refilled(a, a)
  BY <1>8 DEF Refilled, Fits
<1>10. "init" \in States
  BY DEF States
<1>11. Follows(transitionToNext(a), a) /\ Fits(transitionToNext(a))
  BY <1>8, <1>9, <1>10, RefilledFacts
<1>12. Follows(a, a)
  BY SMTT(30), <1>8, BatchFields DEF Follows
<1>13. Follows(b, a) /\ Fits(b) /\ b \in Batches
  BY <1>3, <1>8, <1>11, <1>12 DEF Follows
<1> QED
  BY <1>2, <1>4, <1>5, <1>7, <1>8, <1>13, WorkerGets

\* A worker is done with its request.
LEMMA DoneKeeps ==
    ASSUME IInv, NEW w \in Workers, worker[w].doing = "work", NEW b,
           Follows(b, worker[w].batch), Fits(b), done(w, b)
    PROVE  IInv'
<1>1. Typed
  BY DEF IInv
<1>2. worker[w] # Idle /\ worker[w].batch \in Batches
  BY <1>1, WorkerTypes
<1>3. worker[w].batch \in Items
  BY <1>2, ItemsFacts
<1>4. /\ worker' = [worker EXCEPT ![w] = [doing |-> "done", batch |-> b]] /\ todo' = todo
      /\ UNCHANGED <<retention, low, stored, seq, main, importing, endSeq, toRouter, fromRouter, router>>
  BY DEF done
<1>5. b \in Batches
  BY DEF Fits
<1> QED
  BY <1>2, <1>3, <1>4, <1>5, WorkerGets

\* What a worker makes of its batch has the range of the batch, and its blocks, when it
\* has any, cover the range unless responses are truncated.
LEMMA WorkerKeeps ==
    ASSUME IInv, NEW w \in Workers, Worker(w)
    PROVE  IInv'
<1>1. Typed
  BY DEF IInv
<1>2. PICK b : b = worker[w].batch
  OBVIOUS
<1>3. worker[w].doing = "work"
  BY DEF Worker, HandleBlocks, HandleBlocksFails, HandleBlobs, HandleBlobsFails, HandleColumns, HandleColumnsFails
<1>4. b \in Batches /\ worker[w] # Idle
  BY <1>1, <1>2, <1>3, WorkerTypes
<1>5. b \in Items
  BY <1>2, <1>4, ItemsFacts
<1>6. Fits(b)
  BY <1>5 DEF IInv, ItemsOK
<1>7. /\ b.begin \in Slots \cup {NoBlocks} /\ b.blocks \in Slots \cup {NoBlocks} /\ NoBlocks \in Slots \cup {NoBlocks}
      /\ b.need \in SUBSET SidecarKinds /\ {} \in SUBSET SidecarKinds
      /\ ~Truncated => b.blocks \in {NoBlocks, b.begin}
  BY <1>4, <1>6, BatchFields DEF Fits
<1>8. ASSUME NEW c, Refilled(c, b), NEW s \in States, done(w, withState(c, s)) \/ done(w, transitionToNext(c))
      PROVE  IInv'
  <2>1. /\ Follows(withState(c, s), b) /\ Fits(withState(c, s))
        /\ Follows(transitionToNext(c), b) /\ Fits(transitionToNext(c))
    BY <1>4, <1>6, <1>8, RefilledFacts
  <2>2. CASE done(w, withState(c, s))
    BY <1>2, <1>3, <2>1, <2>2, DoneKeeps
  <2>3. CASE done(w, transitionToNext(c))
    BY <1>2, <1>3, <2>1, <2>3, DoneKeeps
  <2> QED
    BY <1>8, <2>2, <2>3
<1>9. "errRetryable" \in States
  BY DEF States
<1>10. CASE HandleBlocks(w)
  <2>1. PICK need \in Sidecars :
           done(w, transitionToNext([b EXCEPT !.blocks = b.begin, !.linked = TRUE, !.need = need]))
    BY <1>2, <1>10 DEF HandleBlocks
  <2>2. need \in SUBSET SidecarKinds
    BY ResponsesAssumption
  <2>3. Refilled([b EXCEPT !.blocks = b.begin, !.linked = TRUE, !.need = need], b)
    BY <1>4, <1>6, <1>7, <2>2, ExceptFacts
  <2> QED
    BY <1>8, <1>9, <2>1, <2>3
<1>11. CASE HandleBlocksFails(w)
  <2>1. PICK old : old = IF b.state = "importable" THEN NoBlocks ELSE b.blocks
    OBVIOUS
  <2>2. \/ done(w, withState([b EXCEPT !.blocks = old], "errRetryable"))
        \/ done(w, withState([b EXCEPT !.blocks = b.begin, !.linked = TRUE], "errRetryable"))
        \/ done(w, transitionToNext([b EXCEPT !.blocks = b.begin, !.linked = FALSE, !.need = {}]))
        \/ \E lowest \in {s \in Slots : Truncated /\ b.begin < s /\ s < b.end} :
                done(w, transitionToNext([b EXCEPT !.blocks = lowest, !.linked = TRUE, !.need = {}]))
    BY <1>2, <1>11, <2>1 DEF HandleBlocksFails
  <2>3. CASE done(w, withState([b EXCEPT !.blocks = old], "errRetryable"))
    <3>1. old \in Slots \cup {NoBlocks} /\ (~Truncated => old \in {NoBlocks, b.begin})
      BY <1>7, <2>1
    <3>2. Refilled([b EXCEPT !.blocks = old], b)
      BY <1>4, <1>6, <1>7, <3>1, ExceptFacts
    <3> QED
      BY <1>8, <1>9, <2>3, <3>2
  <2>4. CASE done(w, withState([b EXCEPT !.blocks = b.begin, !.linked = TRUE], "errRetryable"))
    <3>1. Refilled([b EXCEPT !.blocks = b.begin, !.linked = TRUE], b)
      BY <1>4, <1>6, <1>7, ExceptFacts
    <3> QED
      BY <1>8, <1>9, <2>4, <3>1
  <2>5. CASE done(w, transitionToNext([b EXCEPT !.blocks = b.begin, !.linked = FALSE, !.need = {}]))
    <3>1. Refilled([b EXCEPT !.blocks = b.begin, !.linked = FALSE, !.need = {}], b)
      BY <1>4, <1>6, <1>7, ExceptFacts
    <3> QED
      BY <1>8, <1>9, <2>5, <3>1
  <2>6. ASSUME NEW lowest \in {s \in Slots : Truncated /\ b.begin < s /\ s < b.end},
               done(w, transitionToNext([b EXCEPT !.blocks = lowest, !.linked = TRUE, !.need = {}]))
        PROVE  IInv'
    <3>1. lowest \in Slots \cup {NoBlocks} /\ (~Truncated => lowest \in {NoBlocks, b.begin})
      BY <2>6
    <3>2. Refilled([b EXCEPT !.blocks = lowest, !.linked = TRUE, !.need = {}], b)
      BY <1>4, <1>6, <1>7, <3>1, ExceptFacts
    <3> QED
      BY <1>8, <1>9, <2>6, <3>2
  <2> QED
    BY <2>2, <2>3, <2>4, <2>5, <2>6
<1>12. CASE HandleBlobs(w)
  <2>1. done(w, transitionToNext([b EXCEPT !.need = b.need \ {"blobs"}]))
    BY <1>2, <1>12 DEF HandleBlobs
  <2>2. Refilled([b EXCEPT !.need = b.need \ {"blobs"}], b)
    <3>1. b.need \ {"blobs"} \in SUBSET SidecarKinds
      BY <1>7
    <3> QED
      BY <1>4, <1>6, <1>7, <3>1, ExceptFacts
  <2> QED
    BY <1>8, <1>9, <2>1, <2>2
<1>13. CASE HandleBlobsFails(w)
  <2>1. PICK blocks \in {b.blocks, NoBlocks} :
           done(w, withState([b EXCEPT !.need = b.need \ {"blobs"}, !.blocks = blocks], "errRetryable"))
    BY <1>2, <1>13 DEF HandleBlobsFails
  <2>2. Refilled([b EXCEPT !.need = b.need \ {"blobs"}, !.blocks = blocks], b)
    <3>1. /\ b.need \ {"blobs"} \in SUBSET SidecarKinds
          /\ blocks \in Slots \cup {NoBlocks} /\ (~Truncated => blocks \in {NoBlocks, b.begin})
      BY <1>7
    <3> QED
      BY <1>4, <1>6, <1>7, <3>1, ExceptFacts
  <2> QED
    BY <1>8, <1>9, <2>1, <2>2
<1>14. CASE HandleColumns(w)
  <2>1. done(w, transitionToNext([b EXCEPT !.need = b.need \ {"columns"}]))
    BY <1>2, <1>14 DEF HandleColumns
  <2>2. Refilled([b EXCEPT !.need = b.need \ {"columns"}], b)
    <3>1. b.need \ {"columns"} \in SUBSET SidecarKinds
      BY <1>7
    <3> QED
      BY <1>4, <1>6, <1>7, <3>1, ExceptFacts
  <2> QED
    BY <1>8, <1>9, <2>1, <2>2
<1>15. CASE HandleColumnsFails(w)
  <2>1. done(w, withState(b, "errRetryable")) \/ done(w, transitionToNext(b))
    BY <1>2, <1>15 DEF HandleColumnsFails
  <2>2. Refilled(b, b)
    BY <1>4, <1>6, <1>7, ExceptFacts
  <2> QED
    BY <1>8, <1>9, <2>1, <2>2
<1> QED
  BY <1>10, <1>11, <1>12, <1>13, <1>14, <1>15 DEF Worker

-----------------------------------------------------------------------------
(* The service loop.                                                       *)

\* new has the batches of bs, or b in place of them.
Renewed(new, bs, b) ==
    /\ Chain(new, N)
    /\ \A i \in 1..N : /\ new[i] = bs[i] \/ (new[i] = b /\ replaces(b, bs[i]))
                       /\ new[i].begin = bs[i].begin /\ new[i].end = bs[i].end
                       /\ expired(new[i]) <=> expired(bs[i])

\* What an update puts in the place of the batches that b replaces.
LEMMA RenewedFacts ==
    ASSUME NEW bs, Chain(bs, N), NEW b \in Batches, NEW new, new = renewed(bs, b)
    PROVE  Renewed(new, bs, b) /\ \A i \in 1..N : replaces(b, bs[i]) => new[i] = b
<1>1. /\ Chain(new, N)
      /\ \A i \in 1..N : /\ new[i] = IF replaces(b, bs[i]) THEN b ELSE bs[i]
                         /\ new[i].begin = bs[i].begin /\ new[i].end = bs[i].end
  BY RenewedChain
<1>2. \A i \in 1..N : expired(new[i]) <=> expired(bs[i])
  BY <1>1 DEF expired
<1>3. \A i \in 1..N : new[i] = bs[i] \/ (new[i] = b /\ replaces(b, bs[i]))
  BY <1>1
<1> QED
  BY <1>1, <1>2, <1>3 DEF Renewed

\* An update loses no batch that the pool works on, and its new batch is below those.
LEMMA ItemsMoved ==
    ASSUME retention \in Slots, NEW bs, Chain(bs, N), NEW b, NEW new, Renewed(new, bs, b),
           b.state \notin {"init", "sequenced"},
           NEW c \in {0, 1}, NEW u, Moved(u, new, c), NEW I, ItemsOK(bs, I), NEW J, J \subseteq I,
           \A i \in 1..N : \A y \in I \ J : new[i].state = "sequenced" => ~Follows(y, new[i])
    PROVE  ItemsOK(u, J)
<1>1. N \in 1..N
  BY NType
<1>2. /\ u[N].begin \in Nat /\ new[N].begin \in Nat /\ retention \in Nat
      /\ new[N].begin = bs[N].begin /\ Chain(u, N) /\ Chain(new, N)
  <2>1. Chain(u, N) /\ Chain(new, N) /\ new[N].begin = bs[N].begin
    BY <1>1 DEF Moved, Renewed
  <2> QED
    BY <1>1, <2>1, ChainFacts, BatchFields
<1>3. ASSUME NEW y \in J PROVE Fits(y) /\ (u[N].begin <= y.begin \/ u[N].begin <= retention)
  <2>1. Fits(y) /\ (bs[N].begin <= y.begin \/ bs[N].begin <= retention)
    BY <1>3 DEF ItemsOK
  <2>2. y.begin \in Nat
    BY <2>1, BatchFields DEF Fits
  <2>3. /\ u[N].begin <= new[N].begin \/ u[N].begin <= retention
        /\ new[N].begin <= retention => u[N].begin <= retention
    BY DEF Moved
  <2> QED
    BY SMTT(30), <1>2, <2>1, <2>2, <2>3
<1>4. ASSUME NEW i \in 1..N, u[i].state = "sequenced", ~expired(u[i]) PROVE \E y \in J : Follows(y, u[i])
  <2>1. i + c \in 1..N /\ u[i] = new[i + c]
    BY <1>4 DEF Moved, Active
  <2>2. PICK j \in 1..N : u[i] = new[j]
    BY <2>1
  <2>3. new[j] = bs[j]
    BY <1>4, <2>2 DEF Renewed
  <2>4. PICK y \in I : Follows(y, bs[j])
    BY <1>4, <2>2, <2>3 DEF ItemsOK
  <2>5. y \in J
    BY <1>4, <2>2, <2>3, <2>4
  <2> QED
    BY <2>2, <2>3, <2>4, <2>5
<1>5. ASSUME NEW i \in 1..N, u[i].state = "init", NEW y \in J PROVE u[i].end <= y.begin
  <2>1. ~expired(u[i]) /\ \/ i + c \in 1..N /\ u[i] = new[i + c]
                          \/ u[i].end = new[N].begin
    BY <1>5 DEF Moved, Active
  <2>2. y \in I
    BY <1>5
  <2>3. CASE i + c \in 1..N /\ u[i] = new[i + c]
    <3>1. PICK j \in 1..N : u[i] = new[j]
      BY <2>3
    <3>2. new[j] = bs[j]
      BY <1>5, <3>1 DEF Renewed
    <3> QED
      BY <1>5, <2>2, <3>1, <3>2 DEF ItemsOK
  <2>4. CASE u[i].end = new[N].begin
    <3>1. u[i].end > retention
      BY SMTT(30), <1>2, <2>1, ChainFacts
    <3>2. bs[N].begin <= y.begin \/ bs[N].begin <= retention
      BY <2>2 DEF ItemsOK
    <3> QED
      BY SMTT(30), <1>2, <2>4, <3>1, <3>2
  <2> QED
    BY <2>1, <2>3, <2>4
<1> QED
  BY <1>3, <1>4, <1>5 DEF ItemsOK

\* There is room in the pool for the batches that wait after an update.
LEMMA CountsMoved ==
    ASSUME retention \in Slots, NEW bs, Chain(bs, N), NEW b, NEW new, Renewed(new, bs, b),
           b.state # "init",
           NEW c \in {0, 1}, NEW u, Moved(u, new, c),
           NEW n \in Nat, NEW n1 \in Nat, n1 <= n, NEW e \in Nat, NEW m, CountsOK(bs, n, e, m),
           NEW W, W \subseteq 1..N, n1 + Cardinality(W) <= N, n1 + e + 1 <= N,
           \A i \in waiting(new) : ~expired(new[i]) => i \in W, c = 1 => 1 \in W
    PROVE  CountsOK(u, n1, e, "import")
<1>1. N \in 1..N /\ N \in Nat
  BY NType
<1>2. Cardinality(waiting(u)) <= Cardinality(W)
  BY WaitingMoved
<1>3. Cardinality(waiting(u)) \in Nat /\ Cardinality(W) \in Nat
  BY FiniteBatches DEF waiting
<1>4. n1 + Cardinality(waiting(u)) <= N
  BY SMTT(30), <1>1, <1>2, <1>3
<1>5. ASSUME e > 0 PROVE n1 + e <= N /\ u[N].begin <= retention
  <2>1. bs[N].begin <= retention /\ new[N].begin = bs[N].begin
    BY <1>1, <1>5 DEF CountsOK, Renewed
  <2>2. u[N].begin <= retention
    BY <2>1 DEF Moved
  <2> QED
    BY SMTT(30), <1>1, <2>2
<1>6. ASSUME e > 0, NEW i \in 1..N, u[i].state = "init" PROVE expired(u[i])
  <2>1. ~expired(u[i]) /\ \/ i + c \in 1..N /\ u[i] = new[i + c]
                          \/ u[i].end = new[N].begin
    BY <1>6 DEF Moved, Active
  <2>2. CASE i + c \in 1..N /\ u[i] = new[i + c]
    <3>1. PICK j \in 1..N : u[i] = new[j]
      BY <2>2
    <3>2. new[j] = bs[j]
      BY <1>6, <3>1 DEF Renewed
    <3> QED
      BY <1>6, <3>1, <3>2 DEF CountsOK
  <2>3. CASE u[i].end = new[N].begin
    <3>1. bs[N].begin <= retention /\ new[N].begin = bs[N].begin
      BY <1>1, <1>6 DEF CountsOK, Renewed
    <3>2. Chain(u, N)
      BY DEF Moved
    <3> QED
      BY <2>3, <3>1, <3>2, ChainFacts
  <2> QED
    BY <2>1, <2>2, <2>3
<1> QED
  BY <1>4, <1>5, <1>6 DEF CountsOK

\* While no batch is finished the sequencer goes on where it did.
LEMMA LowMoved ==
    ASSUME retention \in Slots, NEW bs, Chain(bs, N), NEW b, NEW new, Renewed(new, bs, b), NEW u,
           Moved(u, new, 0), NEW l, NEW m, LowOK(bs, l, m)
    PROVE  LowOK(u, l, m)
<1>1. 1 \in 1..N
  BY NType
<1>2. u[1].end = new[1].end \/ expired(new[1])
  BY DEF Moved
<1>3. new[1].end = bs[1].end /\ (expired(new[1]) <=> expired(bs[1]))
  BY <1>1 DEF Renewed
<1>4. expired(bs[1]) <=> bs[1].end <= retention
  BY <1>1, ChainFacts
<1> QED
  BY <1>2, <1>3, <1>4 DEF LowOK

\* The batch that importBatches has before it is the first one, unless all have expired.
LEMMA HeadRenewed ==
    ASSUME retention \in Slots, NEW bs, SeqOK(bs), NEW b, Fits(b), b.state = "importable",
           b = bs[1] \/ (expired(b) /\ expired(bs[1])),
           NEW d, Follows(d, b), NEW new, new = renewed(bs, d)
    PROVE  \/ ~expired(b) /\ bs[1] = b /\ new[1] = d /\ \A i \in 1..N : i # 1 => new[i] = bs[i]
           \/ expired(b) /\ \A i \in 1..N : expired(bs[i]) /\ expired(new[i])
<1>1. /\ 1 \in 1..N /\ N \in Nat /\ Chain(bs, N) /\ b \in Batches /\ d \in Batches /\ b.begin < b.end
      /\ d.begin = b.begin /\ d.end = b.end /\ d.seq >= b.seq
  BY NType DEF SeqOK, Fits, Follows
<1>2. Renewed(new, bs, d) /\ \A i \in 1..N : replaces(d, bs[i]) => new[i] = d
  BY <1>1, RenewedFacts
<1>3. \A i, j \in 1..N : i < j => bs[j].end <= bs[i].begin
  BY <1>1, Descending
<1>4. CASE ~expired(b)
  <2>1. b = bs[1]
    BY <1>4
  <2>2. replaces(d, bs[1])
    BY <1>1, <2>1 DEF replaces
  <2>3. ASSUME NEW i \in 1..N, i # 1 PROVE new[i] = bs[i]
    <3>1. bs[i].end <= b.begin
      BY SMTT(30), <1>1, <1>3, <2>1, <2>3
    <3>2. bs[i].end # b.end
      BY SMTT(30), <1>1, <3>1, BatchFields
    <3>3. ~replaces(d, bs[i])
      BY <1>1, <3>2 DEF replaces
    <3> QED
      BY <1>2, <3>3 DEF Renewed
  <2> QED
    BY <1>1, <1>2, <1>4, <2>1, <2>2, <2>3
<1>5. CASE expired(b)
  <2>1. expired(bs[1])
    BY <1>5
  <2>2. ASSUME NEW i \in 1..N PROVE expired(bs[i]) /\ expired(new[i])
    <3>1. bs[1].end <= retention /\ bs[1].begin <= bs[1].end /\ bs[1].begin \in Nat /\ bs[1].end \in Nat
      BY <1>1, <2>1, ChainFacts
    <3>2. bs[i].end \in Nat /\ (expired(bs[i]) <=> bs[i].end <= retention)
      BY <1>1, ChainFacts
    <3>3. i # 1 => bs[i].end <= bs[1].begin
      BY SMTT(30), <1>1, <1>3
    <3>4. retention \in Nat
      BY BatchFields
    <3>5. expired(bs[i])
      BY SMTT(30), <3>1, <3>2, <3>3, <3>4
    <3> QED
      BY <1>2, <3>5 DEF Renewed
  <2> QED
    BY <1>5, <2>2
<1> QED
  BY <1>4, <1>5

\* At most one batch of the sequencer has the range of b.
LEMMA OnePlace ==
    ASSUME NEW bs, Chain(bs, N), NEW b, Fits(b), NEW W, W \subseteq 1..N, NEW V, V \subseteq 1..N,
           \A i \in V : i \in W \/ replaces(b, bs[i])
    PROVE  \E X : X \subseteq 1..N /\ V \subseteq X /\ Cardinality(X) <= Cardinality(W) + 1
<1>1. N \in Nat /\ b \in Batches /\ b.begin < b.end
  BY NType DEF Fits
<1>2. \A i, j \in 1..N : i < j => bs[j].end <= bs[i].begin
  BY <1>1, Descending
<1>3. \A i, j \in 1..N : replaces(b, bs[i]) /\ replaces(b, bs[j]) => ~(i < j)
  <2> TAKE i, j \in 1..N
  <2>1. ASSUME replaces(b, bs[i]), replaces(b, bs[j]), i < j PROVE FALSE
    <3>1. bs[i].begin = b.begin /\ bs[j].end = b.end
      BY <2>1 DEF replaces
    <3>2. bs[j].end <= bs[i].begin
      BY <1>2, <2>1
    <3>3. b.begin \in Nat /\ b.end \in Nat
      BY <1>1, BatchFields
    <3> QED
      BY SMTT(30), <1>1, <3>1, <3>2, <3>3
  <2> QED
    BY <2>1
<1>4. \A i, j \in 1..N : replaces(b, bs[i]) /\ replaces(b, bs[j]) => i = j
  <2> TAKE i, j \in 1..N
  <2>1. i < j \/ j < i \/ i = j
    BY SMTT(30), <1>1
  <2> QED
    BY <1>3, <2>1
<1>5. IsFiniteSet(W) /\ Cardinality(W) \in Nat
  BY FiniteBatches
<1>6. CASE \E i \in 1..N : replaces(b, bs[i])
  <2>1. PICK k \in 1..N : replaces(b, bs[k])
    BY <1>6
  <2>2. Cardinality(W \cup {k}) <= Cardinality(W) + 1
    <3>1. \/ Cardinality(W \cup {k}) = Cardinality(W) \/ Cardinality(W \cup {k}) = Cardinality(W) + 1
      BY <1>5, FS_AddElement
    <3> QED
      BY SMTT(30), <1>5, <3>1
  <2>3. V \subseteq W \cup {k} /\ W \cup {k} \subseteq 1..N
    BY <1>4, <2>1
  <2> QED
    BY <2>2, <2>3
<1>7. CASE ~ \E i \in 1..N : replaces(b, bs[i])
  <2>1. V \subseteq W
    BY <1>7
  <2>2. Cardinality(W) <= Cardinality(W) + 1
    BY SMTT(30), <1>5
  <2> QED
    BY <2>1, <2>2
<1> QED
  BY <1>6, <1>7

\* The sequencer takes a batch that the pool is done with: what waits for the pool stays the
\* same, and nothing failed is left below a batch to import.
LEMMA UpdateImports ==
    ASSUME retention \in Slots, NEW bs, SeqOK(bs), QuietOK(bs, "wait"), NEW b, Fits(b),
           b.state = "importable", NEW u, u = update(bs, b), NEW q, q = importable(u)
    PROVE  /\ SeqOK(u) /\ ImportsOK(u, q, "import") /\ q \in Seq(Batches)
           /\ \E new : Renewed(new, bs, b) /\ Moved(u, new, 0) /\ \A i \in 1..N : replaces(b, bs[i]) => new[i] = b
<1>1. Chain(bs, N) /\ b \in Batches /\ N \in Nat /\ 1 \in 1..N
  BY NType DEF SeqOK, Fits
<1>2. PICK new : new = renewed(bs, b)
  OBVIOUS
<1>3. Renewed(new, bs, b) /\ \A i \in 1..N : replaces(b, bs[i]) => new[i] = b
  BY <1>1, <1>2, RenewedFacts
<1>4. \A i \in 1..N : Held(new[i])
  <2>1. Held(b)
    BY DEF Held, Active
  <2> QED
    BY <1>3, <2>1 DEF Renewed, SeqOK
<1>5. PICK c \in {0, 1} : Moved(u, new, c) /\ (c = 1 <=> Finished(new[1]))
  BY <1>1, <1>2, <1>4, UpdateMoves
<1>6. ~Finished(new[1])
  BY <1>1, <1>4 DEF Finished, Held, Active
<1>7. Moved(u, new, 0)
  BY <1>5, <1>6
<1>8. SeqOK(u)
  BY <1>7 DEF Moved, SeqOK
<1>9. u \in [1..N -> Batches]
  BY <1>8 DEF SeqOK, Chain
<1>10. /\ q \in Seq(Batches) /\ Len(q) <= N
       /\ \A k \in 1..Len(q) : q[k] = u[k] /\ u[k].state = "importable"
       /\ Len(q) < N => u[Len(q) + 1].state # "importable"
  BY <1>9, ImportableFacts
<1>11. \A i \in 1..N : u[i].state # "errRetryable"
  <2> SUFFICES ASSUME NEW i \in 1..N, u[i].state = "errRetryable" PROVE FALSE
    OBVIOUS
  <2>1. u[i] = new[i + 0]
    BY <1>7 DEF Moved, Active
  <2>2. u[i] = new[i]
    BY SMTT(30), <2>1
  <2>3. new[i] = bs[i] \/ new[i] = b
    BY <1>3 DEF Renewed
  <2> QED
    BY <2>2, <2>3 DEF QuietOK
<1>12. \A k \in 1..Len(q) : Fits(q[k]) /\ q[k].state = "importable" /\ q[k] = u[k]
  <2> TAKE k \in 1..Len(q)
  <2>1. k \in 1..N
    BY SMTT(30), <1>1, <1>10
  <2>2. Held(u[k])
    BY <1>8, <2>1 DEF SeqOK
  <2> QED
    BY <1>10, <2>2 DEF Held, Active
<1>13. ImportsOK(u, q, "import")
  BY <1>10, <1>11, <1>12 DEF ImportsOK
<1> QED
  BY <1>3, <1>7, <1>8, <1>10, <1>13

\* The service takes a batch from the pool.
LEMMA UpdateKeeps ==
    ASSUME IInv, UpdateComplete
    PROVE  IInv'
<1>1. Typed /\ retention \in Slots
  BY DEF IInv, Typed
<1>2. PICK b : b = Head(fromRouter)
  OBVIOUS
<1>3. /\ main = "wait" /\ fromRouter # <<>> /\ fromRouter' = Tail(fromRouter) /\ main' = "import"
      /\ seq' = update(seq, b) /\ importing' = importable(seq')
      /\ UNCHANGED <<retention, low, stored, endSeq, toRouter, todo, router, worker>>
  BY <1>2 DEF UpdateComplete
<1>4. /\ fromRouter \in Seq(Batches) /\ Tail(fromRouter) \in Seq(Batches)
      /\ Range(fromRouter) = {b} \cup Range(Tail(fromRouter)) /\ Len(Tail(fromRouter)) = Len(fromRouter) - 1
  <2>1. fromRouter \in Seq(Batches)
    BY <1>1 DEF Typed
  <2> QED
    BY <1>2, <1>3, <2>1, RangeFacts
<1>5. b \in Items /\ b.state = "importable" /\ \A y : y \in Items <=> y \in Items' \/ y = b
  <2>1. b.state = "importable"
    BY <1>4 DEF IInv
  <2> QED
    BY <1>3, <1>4, <2>1, ItemsFacts
<1>6. Fits(b)
  BY <1>5 DEF IInv, ItemsOK
<1>7. SeqOK(seq) /\ QuietOK(seq, "wait") /\ Chain(seq, N)
  BY <1>3 DEF IInv, SeqOK
<1>8. /\ SeqOK(seq') /\ ImportsOK(seq', importing', main') /\ importing' \in Seq(Batches)
      /\ \E new : Renewed(new, seq, b) /\ Moved(seq', new, 0) /\ \A i \in 1..N : replaces(b, seq[i]) => new[i] = b
  BY <1>1, <1>3, <1>5, <1>6, <1>7, UpdateImports
<1>9. PICK new : Renewed(new, seq, b) /\ Moved(seq', new, 0) /\ \A i \in 1..N : replaces(b, seq[i]) => new[i] = b
  BY <1>8
<1>10. LowOK(seq', low', main')
  <2>1. LowOK(seq, low, "wait")
    BY <1>3 DEF IInv
  <2>2. LowOK(seq', low, "wait")
    BY <1>1, <1>7, <1>9, <2>1, LowMoved
  <2> QED
    BY <1>3, <2>2 DEF LowOK
<1>11. ItemsOK(seq', Items')
  <2>1. Items' \subseteq Items /\ \A y \in Items \ Items' : y = b
    BY <1>5
  <2>2. \A i \in 1..N : new[i].state = "sequenced" => ~Follows(b, new[i])
    <3> SUFFICES ASSUME NEW i \in 1..N, new[i].state = "sequenced", Follows(b, new[i]) PROVE FALSE
      OBVIOUS
    <3>1. new[i] = seq[i]
      BY <1>5, <1>9 DEF Renewed
    <3>2. replaces(b, seq[i])
      BY <3>1 DEF replaces, Follows
    <3> QED
      BY <1>5, <1>9, <3>2
  <2>3. \A i \in 1..N : \A y \in Items \ Items' : new[i].state = "sequenced" => ~Follows(y, new[i])
    BY <2>1, <2>2
  <2>4. ItemsOK(seq, Items)
    BY DEF IInv
  <2>5. b.state \notin {"init", "sequenced"} /\ 0 \in {0, 1}
    BY <1>5
  <2> QED
    BY SMTT(30), <1>1, <1>7, <1>9, <2>1, <2>3, <2>4, <2>5, ItemsMoved
<1>12. inPool' + 1 = inPool /\ inPool \in Nat /\ inPool' \in Nat /\ endSeq \in Nat
  <2>1. Len(fromRouter') = Len(fromRouter) - 1 /\ Len(fromRouter') \in Nat
    BY SMTT(30), <1>3, <1>4
  <2>2. Len(toRouter') = Len(toRouter) /\ Len(todo') = Len(todo) /\ Cardinality(Busy(worker')) = Cardinality(Busy(worker))
    BY <1>3
  <2>3. endSeq \in Nat
    BY <1>1 DEF Typed
  <2> QED
    BY SMTT(30), <1>1, <2>1, <2>2, <2>3, Counts
<1>13. CountsOK(seq', inPool', endSeq', main')
  <2>1. CountsOK(seq, inPool, endSeq, "wait") /\ N \in Nat
    BY <1>3, NType DEF IInv
  <2>2. waiting(seq) \subseteq 1..N /\ waiting(new) \subseteq 1..N
    BY DEF waiting
  <2>3. \A i \in waiting(new) : i \in waiting(seq) \/ replaces(b, seq[i])
    <3> TAKE i \in waiting(new)
    <3>1. i \in 1..N /\ new[i].state \in {"init", "errRetryable", "importable"}
      BY DEF waiting
    <3>2. new[i] = seq[i] \/ replaces(b, seq[i])
      BY <1>9, <3>1 DEF Renewed
    <3> QED
      BY <3>1, <3>2 DEF waiting
  <2>4. PICK X : X \subseteq 1..N /\ waiting(new) \subseteq X /\ Cardinality(X) <= Cardinality(waiting(seq)) + 1
    BY <1>6, <1>7, <2>2, <2>3, OnePlace
  <2>5. Cardinality(X) \in Nat /\ Cardinality(waiting(seq)) \in Nat
    BY <2>2, <2>4, FiniteBatches
  <2>6. inPool + Cardinality(waiting(seq)) <= N /\ (endSeq > 0 => inPool + endSeq <= N)
    BY <2>1 DEF CountsOK
  <2>7. inPool' + Cardinality(X) <= N /\ inPool' + endSeq + 1 <= N /\ inPool' <= inPool
    <3>1. PICK n \in Nat, n1 \in Nat, e \in Nat, x \in Nat, y \in Nat :
             /\ n = inPool /\ n1 = inPool' /\ e = endSeq /\ x = Cardinality(X) /\ y = Cardinality(waiting(seq))
      BY <1>12, <2>5
    <3>2. n1 + 1 = n /\ x <= y + 1 /\ n + y <= N /\ (e > 0 => n + e <= N)
      BY <1>12, <2>4, <2>6, <3>1
    <3>3. n1 + x <= N /\ n1 + e + 1 <= N /\ n1 <= n
      BY SMTT(30), <2>1, <3>2
    <3> QED
      BY <3>1, <3>3
  <2>8. b.state # "init" /\ 0 \in {0, 1} /\ 0 # 1
    BY SMTT(30), <1>5
  <2>9. \A i \in waiting(new) : ~expired(new[i]) => i \in X
    BY <2>4
  <2>10. CountsOK(seq', inPool', endSeq, "import")
    BY <1>1, <1>7, <1>9, <1>12, <2>1, <2>4, <2>7, <2>8, <2>9, CountsMoved
  <2> QED
    BY <1>3, <2>10
<1>14. QuietOK(seq', main')
  BY <1>3 DEF QuietOK
<1>15. Typed'
  BY <1>1, <1>3, <1>4, <1>8 DEF Typed
<1>16. \A y \in Range(fromRouter') : y.state = "importable"
  BY <1>3, <1>4 DEF IInv
<1>17. retention' = retention
  BY <1>3
<1> QED
  BY <1>8, <1>10, <1>11, <1>13, <1>14, <1>15, <1>16, <1>17, Primes DEF IInv

-----------------------------------------------------------------------------
(* Import.                                                                 *)

\* What importBatches does to the sequencer with b, the first of the batches q before it, that
\* became d; u are the batches after it.
Imported(bs, b, d, u, c) ==
    /\ \E new : /\ Renewed(new, bs, d) /\ Moved(u, new, c)
                /\ \A i \in waiting(new) : ~expired(new[i]) => i \in waiting(bs)
    /\ IF c = 1 THEN 1 \in waiting(bs) /\ u[1].end = b.begin /\ ~expired(b)
       ELSE d.state = "errRetryable" \/ expired(b)

\* The head of what importBatches has before it.
LEMMA HeadFacts ==
    ASSUME retention \in Slots, NEW bs, SeqOK(bs), NEW q \in Seq(Batches), q # <<>>,
           ImportsOK(bs, q, "import"), NEW b, b = Head(q)
    PROVE  /\ Fits(b) /\ b \in Batches /\ b.state = "importable" /\ b = q[1]
           /\ b = bs[1] \/ (expired(b) /\ expired(bs[1]))
           /\ Len(q) \in 1..N /\ Tail(q) \in Seq(Batches) /\ Len(Tail(q)) = Len(q) - 1
           /\ \A k \in 1..Len(q) - 1 : Tail(q)[k] = q[k + 1]
<1>1. b = q[1] /\ Len(q) >= 1 /\ Len(q) \in Nat
  BY SMTT(30)
<1>2. 1 \in 1..Len(q)
  BY SMTT(30), <1>1
<1>3. Fits(b) /\ b.state = "importable" /\ (b = bs[1] \/ (expired(b) /\ expired(bs[1])))
  BY <1>1, <1>2 DEF ImportsOK
<1>4. Len(q) \in 1..N
  BY SMTT(30), <1>1, NType DEF ImportsOK
<1>5. Tail(q) \in Seq(Batches) /\ Len(Tail(q)) = Len(q) - 1 /\ \A k \in 1..Len(q) - 1 : Tail(q)[k] = q[k + 1]
  BY SMTT(30)
<1> QED
  BY <1>1, <1>3, <1>4, <1>5 DEF Fits

\* An update with the head of what importBatches has before it.
LEMMA HeadMoves ==
    ASSUME retention \in Slots, NEW bs, SeqOK(bs), NEW q \in Seq(Batches), q # <<>>,
           ImportsOK(bs, q, "import"), NEW b, b = Head(q), NEW d, Follows(d, b),
           \/ d.state = "importComplete"
           \/ d.state = "errRetryable" /\ Fits(d),
           NEW u, u = update(bs, d), NEW new, new = renewed(bs, d)
    PROVE  \E c \in {0, 1} :
              /\ Moved(u, new, c) /\ Renewed(new, bs, d)
              /\ \/ /\ ~expired(b) /\ bs[1] = b /\ new[1] = d /\ \A i \in 1..N : i # 1 => new[i] = bs[i]
                    /\ c = 1 <=> d.state = "importComplete"
                 \/ /\ expired(b) /\ c = 0 /\ \A i \in 1..N : expired(bs[i]) /\ expired(new[i])
<1>1. Fits(b) /\ b \in Batches /\ b.state = "importable" /\ (b = bs[1] \/ (expired(b) /\ expired(bs[1])))
  BY HeadFacts
<1>2. d \in Batches /\ Chain(bs, N) /\ 1 \in 1..N /\ (expired(d) <=> expired(b))
  BY NType DEF Follows, SeqOK, expired
<1>3. Renewed(new, bs, d)
  BY <1>2, RenewedFacts
<1>4. \/ ~expired(b) /\ bs[1] = b /\ new[1] = d /\ \A i \in 1..N : i # 1 => new[i] = bs[i]
      \/ expired(b) /\ \A i \in 1..N : expired(bs[i]) /\ expired(new[i])
  BY SMTT(30), <1>1, HeadRenewed
<1>5. \A i \in 1..N : Held(bs[i])
  BY DEF SeqOK
<1>6. d.state = "errRetryable" => Held(d)
  BY DEF Held, Active
<1>7. CASE ~expired(b) /\ bs[1] = b /\ new[1] = d /\ \A i \in 1..N : i # 1 => new[i] = bs[i]
  <2>1. Finished(new[1]) <=> d.state = "importComplete"
    BY <1>2, <1>7 DEF Finished
  <2>2. \A i \in 1..N : Held(new[i]) \/ (i = 1 /\ Finished(new[i]))
    BY <1>5, <1>6, <1>7, <2>1
  <2>3. PICK c \in {0, 1} : Moved(u, new, c) /\ (c = 1 <=> Finished(new[1]))
    BY <1>2, <2>2, UpdateMoves
  <2> QED
    BY <1>3, <1>7, <2>1, <2>3
<1>8. CASE expired(b) /\ \A i \in 1..N : expired(bs[i]) /\ expired(new[i])
  <2>1. Held(d)
    BY <1>2, <1>6, <1>8 DEF Held, Active
  <2>2. \A i \in 1..N : Held(new[i])
    BY <1>3, <1>5, <2>1 DEF Renewed
  <2>3. PICK c \in {0, 1} : Moved(u, new, c) /\ (c = 1 <=> Finished(new[1]))
    BY <1>2, <2>2, UpdateMoves
  <2>4. c = 0
    BY <1>2, <1>8, <2>3 DEF Finished
  <2> QED
    BY <1>3, <1>8, <2>3, <2>4
<1> QED
  BY <1>4, <1>7, <1>8

\* The sequencer after an import: the batches below move up, and so do those before importBatches.
LEMMA ImportMoves ==
    ASSUME retention \in Slots, NEW bs, SeqOK(bs), NEW q \in Seq(Batches), q # <<>>,
           ImportsOK(bs, q, "import"), NEW b, b = Head(q), NEW d, Follows(d, b),
           d.state = "importComplete", NEW u, u = update(bs, d)
    PROVE  ImportsOK(u, Tail(q), "import") /\ \E c \in {0, 1} : Imported(bs, b, d, u, c)
<1>1. PICK new : new = renewed(bs, d)
  OBVIOUS
<1>2. PICK c \in {0, 1} :
              /\ Moved(u, new, c) /\ Renewed(new, bs, d)
              /\ \/ /\ ~expired(b) /\ bs[1] = b /\ new[1] = d /\ \A i \in 1..N : i # 1 => new[i] = bs[i]
                    /\ c = 1 <=> d.state = "importComplete"
                 \/ /\ expired(b) /\ c = 0 /\ \A i \in 1..N : expired(bs[i]) /\ expired(new[i])
  BY SMTT(30), <1>1, HeadMoves
<1>3. PICK L \in 1..N : L = Len(q)
  BY HeadFacts
<1>4. /\ N \in Nat /\ 1 \in 1..N /\ N \in 1..N /\ b.state = "importable"
      /\ Tail(q) \in Seq(Batches) /\ Len(Tail(q)) = L - 1 /\ \A k \in 1..L - 1 : Tail(q)[k] = q[k + 1]
  BY <1>3, NType, HeadFacts
<1>5. \A k \in 1..L : /\ Fits(q[k]) /\ q[k].state = "importable"
                      /\ q[k] = bs[k] \/ (expired(q[k]) /\ expired(bs[k]))
  BY <1>3 DEF ImportsOK
<1>6. \A k \in 1..L - 1 : k \in 1..N /\ k + 1 \in 1..N /\ k + 1 \in 1..L /\ k + 1 # 1
  BY SMTT(30), <1>3, <1>4
<1>7. CASE /\ ~expired(b) /\ bs[1] = b /\ new[1] = d /\ \A i \in 1..N : i # 1 => new[i] = bs[i]
           /\ c = 1
  <2>1. /\ \A i \in 1..N : Active(u[i].state) =>
              /\ ~expired(u[i])
              /\ \/ i + 1 \in 1..N /\ u[i] = new[i + 1]
                 \/ i = N /\ u[i].state = "init"
        /\ \A i \in 1..N : i + 1 \in 1..N => IF expired(new[i + 1]) THEN expired(u[i]) ELSE u[i] = new[i + 1]
        /\ u[1].end = new[1].begin
    BY SMTT(30), <1>2, <1>7 DEF Moved
  <2>2. \A k \in 1..L - 1 : q[k + 1] = u[k] \/ (expired(q[k + 1]) /\ expired(u[k]))
    <3> TAKE k \in 1..L - 1
    <3>1. k \in 1..N /\ k + 1 \in 1..N /\ k + 1 \in 1..L /\ k + 1 # 1
      BY <1>6
    <3>2. new[k + 1] = bs[k + 1]
      BY <1>7, <3>1
    <3>3. IF expired(new[k + 1]) THEN expired(u[k]) ELSE u[k] = new[k + 1]
      BY <2>1, <3>1
    <3>4. q[k + 1] = bs[k + 1] \/ (expired(q[k + 1]) /\ expired(bs[k + 1]))
      BY <1>5, <3>1
    <3> QED
      BY <3>2, <3>3, <3>4
  <2>3. expired(u[L]) \/ u[L].state # "importable"
    <3>1. CASE L < N
      <4>1. L + 1 \in 1..N /\ L + 1 # 1
        BY SMTT(30), <1>3, <1>4, <3>1
      <4>2. new[L + 1] = bs[L + 1]
        BY <1>7, <4>1
      <4>3. expired(bs[L + 1]) \/ bs[L + 1].state # "importable"
        BY <1>3, <3>1 DEF ImportsOK
      <4>4. IF expired(new[L + 1]) THEN expired(u[L]) ELSE u[L] = new[L + 1]
        BY <2>1, <4>1
      <4> QED
        BY <4>2, <4>3, <4>4
    <3>2. CASE L = N
      <4>1. ~(N + 1 \in 1..N)
        BY SMTT(30), <1>4
      <4> QED
        BY <1>4, <2>1, <3>2, <4>1 DEF Active
    <3> QED
      BY SMTT(30), <1>3, <1>4, <3>1, <3>2
  <2>4. \A i \in 1..N : u[i].state # "errRetryable"
    <3> SUFFICES ASSUME NEW i \in 1..N, u[i].state = "errRetryable" PROVE FALSE
      OBVIOUS
    <3>1. ~expired(u[i]) /\ i + 1 \in 1..N /\ u[i] = new[i + 1]
      BY <2>1 DEF Active
    <3>2. i + 1 # 1
      BY SMTT(30)
    <3>3. u[i] = bs[i + 1]
      BY <1>7, <3>1, <3>2
    <3> QED
      BY <3>1, <3>2, <3>3 DEF ImportsOK
  <2>5. ImportsOK(u, Tail(q), "import")
    <3>1. \A k \in 1..Len(Tail(q)) : /\ Fits(Tail(q)[k]) /\ Tail(q)[k].state = "importable"
                                     /\ Tail(q)[k] = u[k] \/ (expired(Tail(q)[k]) /\ expired(u[k]))
      BY SMTT(30), <1>4, <1>5, <1>6, <2>2
    <3>2. Len(Tail(q)) <= N /\ Len(Tail(q)) + 1 = L
      BY SMTT(30), <1>3, <1>4
    <3> QED
      BY <2>3, <2>4, <3>1, <3>2 DEF ImportsOK
  <2>6. 1 \in waiting(bs) /\ \A i \in waiting(new) : i \in waiting(bs)
    <3>1. 1 \in waiting(bs)
      BY <1>4, <1>7 DEF waiting
    <3>2. ASSUME NEW i \in waiting(new) PROVE i \in waiting(bs)
      BY <1>7, <3>1, <3>2 DEF waiting
    <3> QED
      BY <3>1, <3>2
  <2>7. u[1].end = b.begin
    BY <1>7, <2>1 DEF Follows
  <2>8. Imported(bs, b, d, u, 1)
    BY <1>2, <1>7, <2>6, <2>7 DEF Imported
  <2> QED
    BY <2>5, <2>8
<1>8. CASE expired(b) /\ c = 0 /\ \A i \in 1..N : expired(bs[i]) /\ expired(new[i])
  <2>1. \A i \in 1..N : expired(u[i])
    <3> TAKE i \in 1..N
    <3>1. i + 0 = i
      BY SMTT(30)
    <3> QED
      BY SMTT(30), <1>2, <1>8, <3>1 DEF Moved
  <2>2. \A k \in 1..L - 1 : expired(q[k + 1]) /\ expired(u[k])
    <3> TAKE k \in 1..L - 1
    <3>1. k \in 1..N /\ k + 1 \in 1..N /\ k + 1 \in 1..L
      BY <1>6
    <3>2. q[k + 1] = bs[k + 1] \/ expired(q[k + 1])
      BY <1>5, <3>1
    <3> QED
      BY <1>8, <2>1, <3>1, <3>2
  <2>3. ImportsOK(u, Tail(q), "import")
    <3>1. \A k \in 1..Len(Tail(q)) : /\ Fits(Tail(q)[k]) /\ Tail(q)[k].state = "importable"
                                     /\ Tail(q)[k] = u[k] \/ (expired(Tail(q)[k]) /\ expired(u[k]))
      BY <1>4, <1>5, <1>6, <2>2
    <3>2. Len(Tail(q)) <= N /\ Len(Tail(q)) + 1 = L
      BY SMTT(30), <1>3, <1>4
    <3> QED
      BY <1>3, <2>1, <3>1, <3>2 DEF ImportsOK
  <2>4. \A i \in waiting(new) : ~expired(new[i]) => i \in waiting(bs)
    BY <1>8 DEF waiting
  <2>5. Imported(bs, b, d, u, 0)
    BY SMTT(30), <1>2, <1>8, <2>4 DEF Imported
  <2> QED
    BY <2>3, <2>5
<1> QED
  BY <1>2, <1>7, <1>8

\* The sequencer after an import that failed: the batch has to wait.
LEMMA FailMoves ==
    ASSUME retention \in Slots, NEW bs, SeqOK(bs), NEW q \in Seq(Batches), q # <<>>,
           ImportsOK(bs, q, "import"), NEW b, b = Head(q), NEW d, Follows(d, b), Fits(d),
           d.state = "errRetryable", NEW u, u = update(bs, d)
    PROVE  ImportsOK(u, <<>>, "import") /\ Imported(bs, b, d, u, 0)
<1>1. PICK new : new = renewed(bs, d)
  OBVIOUS
<1>2. PICK c \in {0, 1} :
              /\ Moved(u, new, c) /\ Renewed(new, bs, d)
              /\ \/ /\ ~expired(b) /\ bs[1] = b /\ new[1] = d /\ \A i \in 1..N : i # 1 => new[i] = bs[i]
                    /\ c = 1 <=> d.state = "importComplete"
                 \/ /\ expired(b) /\ c = 0 /\ \A i \in 1..N : expired(bs[i]) /\ expired(new[i])
  BY SMTT(30), <1>1, HeadMoves
<1>3. c = 0 /\ Moved(u, new, 0)
  BY <1>2
<1>4. 1 \in 1..N /\ b.state = "importable" /\ (expired(d) <=> expired(b))
  BY SMTT(30), NType, HeadFacts DEF Follows, expired
<1>5. \A i \in 1..N : /\ Active(u[i].state) => ~expired(u[i]) /\ u[i] = new[i]
                      /\ IF expired(new[i]) THEN expired(u[i]) ELSE u[i] = new[i]
  <2> TAKE i \in 1..N
  <2>1. i + 0 = i /\ 0 # 1
    BY SMTT(30)
  <2> QED
    BY <1>3, <2>1 DEF Moved
<1>6. expired(u[1]) \/ u[1].state # "importable"
  <2>1. CASE expired(new[1])
    BY <1>4, <1>5, <2>1
  <2>2. CASE ~expired(new[1])
    BY <1>2, <1>4, <1>5, <2>2
  <2> QED
    BY <2>1, <2>2
<1>7. \A i \in 1..N : u[i].state = "errRetryable" /\ ~expired(u[i]) => i = 1
  <2> SUFFICES ASSUME NEW i \in 1..N, u[i].state = "errRetryable", ~expired(u[i]), i # 1 PROVE FALSE
    OBVIOUS
  <2>1. u[i] = new[i] /\ ~expired(new[i])
    BY <1>5 DEF Active
  <2>2. new[i] = bs[i]
    BY <1>2, <2>1
  <2> QED
    BY <2>1, <2>2 DEF ImportsOK
<1>8. ImportsOK(u, <<>>, "import")
  <2>1. Len(<<>>) = 0 /\ 0 + 1 = 1 /\ 0 <= N /\ 1..0 = {}
    BY SMTT(30), NType
  <2> QED
    BY <1>6, <1>7, <2>1 DEF ImportsOK
<1>9. \A i \in waiting(new) : ~expired(new[i]) => i \in waiting(bs)
  BY <1>2, <1>4 DEF waiting
<1> QED
  BY SMTT(30), <1>2, <1>3, <1>8, <1>9 DEF Imported

\* importBatches leaves the pool alone.
LEMMA ImportStep ==
    ASSUME IInv, main = "import", NEW b, NEW d, d.state \notin {"init", "sequenced"}, NEW c \in {0, 1},
           Imported(seq, b, d, seq', c), Typed', ImportsOK(seq', importing', "import"), LowOK(seq', low', "import"),
           UNCHANGED <<retention, main, endSeq, pool>>
    PROVE  IInv'
<1>1. /\ Typed /\ retention \in Slots /\ Chain(seq, N) /\ ItemsOK(seq, Items)
      /\ CountsOK(seq, inPool, endSeq, "import") /\ endSeq \in Nat /\ main' = "import" /\ retention' = retention
  BY DEF IInv, Typed, SeqOK
<1>2. PICK new : /\ Renewed(new, seq, d) /\ Moved(seq', new, c)
                 /\ \A i \in waiting(new) : ~expired(new[i]) => i \in waiting(seq)
  BY DEF Imported
<1>3. c = 1 => 1 \in waiting(seq)
  BY DEF Imported
<1>4. SeqOK(seq')
  BY <1>2 DEF Moved, SeqOK
<1>5. UNCHANGED <<toRouter, fromRouter, todo, worker>>
  BY DEF pool
<1>6. Items' = Items
  BY <1>5 DEF Items, Busy
<1>7. ItemsOK(seq', Items')
  <2>1. \A i \in 1..N : \A y \in Items \ Items : new[i].state = "sequenced" => ~Follows(y, new[i])
    OBVIOUS
  <2>2. ItemsOK(seq', Items)
    BY SMTT(30), <1>1, <1>2, <2>1, ItemsMoved
  <2> QED
    BY <1>6, <2>2
<1>8. inPool' = inPool /\ inPool \in Nat
  <2>1. inPool' = inPool
    BY <1>5 DEF inPool
  <2> QED
    BY SMTT(30), <1>1, <2>1, Counts
<1>9. CountsOK(seq', inPool', endSeq', main')
  <2>1. waiting(seq) \subseteq 1..N
    BY DEF waiting
  <2>2. inPool + Cardinality(waiting(seq)) <= N /\ inPool + endSeq + 1 <= N /\ inPool <= inPool
    BY SMTT(30), <1>1, <1>8 DEF CountsOK
  <2>3. CountsOK(seq', inPool, endSeq, "import")
    BY SMTT(30), <1>1, <1>2, <1>3, <1>8, <2>1, <2>2, CountsMoved
  <2> QED
    BY <1>1, <1>8, <2>3
<1>10. QuietOK(seq', main')
  BY <1>1 DEF QuietOK
<1>11. \A y \in Range(fromRouter') : y.state = "importable"
  BY <1>5 DEF IInv
<1> QED
  BY <1>1, <1>4, <1>7, <1>9, <1>10, <1>11, Primes DEF IInv

\* The blocks that an import saves.
LEMMA SavedSlots ==
    ASSUME NEW b \in Batches, b.blocks \in Slots
    PROVE  savedBy(b) \subseteq Slots
<1>1. Origin \in Nat /\ b.end \in 0..Origin /\ b.blocks \in 0..Origin
  BY BatchFields DEF Slots
<1>2. b.blocks..(b.end - 1) \subseteq 0..Origin
  BY SMTT(30), <1>1
<1> QED
  BY <1>2 DEF savedBy, Slots

\* The import of a batch: the next one is below the status in the database.
LEMMA ImportInv ==
    ASSUME IInv, Import
    PROVE  IInv'
<1>1. /\ Typed /\ retention \in Slots /\ SeqOK(seq) /\ importing \in Seq(Batches) /\ stored \subseteq Slots
      /\ LowOK(seq, low, main)
  BY DEF IInv, Typed
<1>2. PICK b : b = Head(importing)
  OBVIOUS
<1>3. PICK d : d = withState(b, "importComplete")
  OBVIOUS
<1>4. /\ main = "import" /\ importing # <<>> /\ b.blocks \in Slots /\ stored' = stored \cup savedBy(b)
      /\ low' = b.blocks /\ seq' = update(seq, d) /\ importing' = Tail(importing)
      /\ UNCHANGED <<retention, main, endSeq, pool>>
  BY <1>2, <1>3 DEF Import, ensureParent
<1>5. ImportsOK(seq, importing, "import")
  BY <1>4 DEF IInv
<1>6. Fits(b) /\ b \in Batches /\ Tail(importing) \in Seq(Batches)
  BY <1>1, <1>2, <1>4, <1>5, HeadFacts
<1>7. Follows(d, b) /\ d.state = "importComplete"
  <2>1. "importComplete" \in States
    BY DEF States
  <2> QED
    BY <1>3, <1>6, <2>1, WithStateFacts
<1>8. ImportsOK(seq', importing', "import") /\ \E c \in {0, 1} : Imported(seq, b, d, seq', c)
  BY <1>1, <1>2, <1>4, <1>5, <1>7, ImportMoves
<1>9. PICK c \in {0, 1} : Imported(seq, b, d, seq', c)
  BY <1>8
<1>10. LowOK(seq', low', "import")
  <2>1. ASSUME ~Truncated PROVE low' = seq'[1].end \/ low' <= retention
    <3>1. b.blocks = b.begin
      <4>1. NoBlocks \notin Slots
        BY SMTT(30), BatchFields DEF NoBlocks, Slots
      <4> QED
        BY <1>4, <1>6, <2>1, <4>1 DEF Fits
    <3>2. CASE c = 1
      BY <1>4, <1>9, <3>1, <3>2 DEF Imported
    <3>3. CASE c = 0
      <4>1. expired(b)
        BY SMTT(30), <1>7, <1>9, <3>3 DEF Imported
      <4>2. b.end <= retention /\ b.begin < b.end /\ b.begin \in Nat /\ b.end \in Nat /\ retention \in Nat
        BY <1>1, <1>6, <4>1, ExpiredFacts, BatchFields DEF Fits
      <4> QED
        BY SMTT(30), <1>4, <3>1, <4>2
    <3> QED
      BY <1>9, <3>2, <3>3
  <2> QED
    BY <2>1 DEF LowOK
<1>11. Typed'
  <2>1. stored' \subseteq Slots
    BY <1>1, <1>4, <1>6, SavedSlots
  <2>2. UNCHANGED <<toRouter, fromRouter, todo, router, worker>>
    BY <1>4 DEF pool
  <2> QED
    BY <1>1, <1>4, <1>6, <2>1, <2>2 DEF Typed
<1>12. d.state \notin {"init", "sequenced"}
  BY <1>7
<1> QED
  BY <1>4, <1>8, <1>9, <1>10, <1>11, <1>12, ImportStep

\* An import that fails: the sequencer stays where the status in the database begins.
LEMMA ImportFailsInv ==
    ASSUME IInv, ImportFails
    PROVE  IInv'
<1>1. /\ Typed /\ retention \in Slots /\ SeqOK(seq) /\ importing \in Seq(Batches) /\ stored \subseteq Slots
  BY DEF IInv, Typed
<1>2. PICK b : b = Head(importing)
  OBVIOUS
<1>3. PICK d : d = withState(b, "errRetryable")
  OBVIOUS
<1>4. /\ main = "import" /\ importing # <<>>
      /\ stored' = stored \/ (b.blocks \in Slots /\ stored' = stored \cup savedBy(b))
      /\ seq' = update(seq, d) /\ importing' = <<>>
      /\ UNCHANGED <<retention, low, main, endSeq, pool>>
  BY <1>2, <1>3 DEF ImportFails, ensureParent
<1>5. ImportsOK(seq, importing, "import") /\ LowOK(seq, low, "import") /\ Chain(seq, N)
  BY <1>4 DEF IInv, SeqOK
<1>6. Fits(b) /\ b \in Batches
  BY <1>1, <1>2, <1>4, <1>5, HeadFacts
<1>7. Follows(d, b) /\ d.state = "errRetryable" /\ Fits(d)
  <2>1. "errRetryable" \in States
    BY DEF States
  <2>2. Follows(d, b) /\ d.state = "errRetryable" /\ d.blocks = b.blocks
    BY <1>3, <1>6, <2>1, WithStateFacts
  <2> QED
    BY <1>6, <2>2 DEF Fits, Follows
<1>8. ImportsOK(seq', importing', "import") /\ Imported(seq, b, d, seq', 0)
  BY <1>1, <1>2, <1>4, <1>5, <1>7, FailMoves
<1>9. LowOK(seq', low', "import")
  <2>1. PICK new : Renewed(new, seq, d) /\ Moved(seq', new, 0)
    BY <1>8 DEF Imported
  <2>2. LowOK(seq', low, "import")
    BY <1>1, <1>5, <2>1, LowMoved
  <2> QED
    BY <1>4, <2>2
<1>10. Typed'
  <2>1. stored' \subseteq Slots
    BY <1>1, <1>4, <1>6, SavedSlots
  <2>2. UNCHANGED <<toRouter, fromRouter, todo, router, worker>>
    BY <1>4 DEF pool
  <2>3. importing' \in Seq(Batches)
    BY SMTT(30), <1>4
  <2> QED
    BY <1>1, <1>4, <2>1, <2>2, <2>3 DEF Typed
<1>11. d.state \notin {"init", "sequenced"} /\ 0 \in {0, 1}
  BY <1>7
<1> QED
  BY <1>4, <1>8, <1>9, <1>10, <1>11, ImportStep

=============================================================================
