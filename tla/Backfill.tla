----------------------------- MODULE Backfill -----------------------------
(***************************************************************************)
(* Backfilling (beacon-chain/sync/backfill): after a start from a          *)
(* checkpoint the node downloads the blocks before it, from the highest    *)
(* slot down to the oldest one it has to keep, in batches of slots.        *)
(*                                                                         *)
(* The service loop arranges the batches (batchSequencer), imports them in *)
(* order and hands new ones to a pool; the router of the pool gives them   *)
(* to workers, each of which makes one request at a time.  Requests fail   *)
(* or bring blocks of another chain, the oldest slot to keep moves on, and *)
(* the node restarts from the status in its database.                      *)
(***************************************************************************)
EXTENDS Integers, Sequences, FiniteSets, Functions

CONSTANTS
    Workers,        \* the goroutines of the pool; there are as many batches at a time
    Origin,         \* the slot of the checkpoint
    Size,           \* slots of a batch
    Sidecars,       \* what the blocks of a batch may need, sets of SidecarKinds
    Truncated,      \* may a response lack the lowest blocks of its range
    MaxRetention,   \* bound: the oldest slot to keep at the end
    MaxFailures,    \* bound: requests that fail and imports that do
    MaxRestarts,    \* bound: restarts of the node
    MaxSeq          \* bound: where the version counter of a batch stops

SidecarKinds == {"blobs", "columns"}
Slots == 0..Origin
N == Cardinality(Workers)
NoBlocks == -1      \* a batch without blocks

ASSUME BatchesAssumption == Workers # {} /\ IsFiniteSet(Workers) /\ Origin \in Nat /\ Size \in Nat \ {0}
ASSUME ResponsesAssumption == Sidecars # {} /\ Sidecars \subseteq SUBSET SidecarKinds /\ Truncated \in BOOLEAN
ASSUME BoundsAssumption ==
    MaxRetention \in Slots /\ MaxFailures \in Nat /\ MaxRestarts \in Nat /\ MaxSeq \in Nat

\* blocks is the lowest slot of the blocks, which reach up to the end; linked says
\* whether they are the blocks of the chain of the checkpoint.
Batches ==
    [begin : Slots, end : Slots, seq : 0..MaxSeq,
     state : {"init", "sequenced", "syncBlobs", "syncColumns", "importable",
              "importComplete", "errRetryable", "endSequence"},
     blocks : Slots \cup {NoBlocks}, linked : BOOLEAN, need : SUBSET SidecarKinds]
NoBatch == [begin |-> 0, end |-> 0, seq |-> 0, state |-> "init", blocks |-> NoBlocks,
            linked |-> FALSE, need |-> {}]

VARIABLES
    retention,    \* needs.Block.Begin: the oldest slot to keep
    low,          \* the LowSlot of the status in the database
    stored,       \* the slots whose blocks, of the chain of the checkpoint, are in the database
    seq,          \* the batches of the sequencer, from high to low
    main,         \* what the service loop is about to do
    importing,    \* the batches that importBatches has before it
    endSeq,       \* how many batches ended the sequence
    toRouter, fromRouter,   \* the channels between the service and the router
    todo,         \* the batches of the router, from high to low
    router,       \* waits for an event, goes through todo, or has shut the pool down
    worker,       \* worker[w]: idle, at work, or done and waiting for the router
    failures, restarts

vars == <<retention, low, stored, seq, main, importing, endSeq, toRouter, fromRouter, todo,
          router, worker, failures, restarts>>
pool == <<toRouter, fromRouter, todo, router, worker>>
-----------------------------------------------------------------------------
(* Batches.                                                                *)

withState(b, s) ==
    [b EXCEPT !.state = s, !.seq = IF b.seq < MaxSeq THEN b.seq + 1 ELSE MaxSeq]

\* MUTANT: the versions are compared the wrong way round.
replacesNewer(b, r) ==
    r.state # "importComplete" /\ b.begin = r.begin /\ b.end = r.end /\ b.seq < r.seq

\* Whether b is a later version of r.
replaces(b, r) ==
    r.state # "importComplete" /\ b.begin = r.begin /\ b.end = r.end /\ b.seq >= r.seq

\* All slots of the batch are older than those to keep.
expired(b) == b.end - 1 < retention

\* What a batch needs next.
transitionToNext(b) ==
    withState(b, CASE b.blocks = NoBlocks   -> "sequenced"
                   [] "columns" \in b.need -> "syncColumns"
                   [] "blobs" \in b.need   -> "syncBlobs"
                   [] OTHER                 -> "importable")

\* MUTANT: the oldest slot to keep does not end the batch.
beforeUnclipped(upTo) ==
    IF upTo <= retention
      THEN [NoBatch EXCEPT !.begin = upTo, !.end = upTo, !.state = "endSequence"]
      ELSE [NoBatch EXCEPT !.begin = upTo - Size, !.end = upTo]

\* The batch that ends where upTo begins.
before(upTo) ==
    IF upTo <= retention
      THEN [NoBatch EXCEPT !.begin = upTo, !.end = upTo, !.state = "endSequence"]
      ELSE [NoBatch EXCEPT !.begin = IF upTo > Size + retention THEN upTo - Size ELSE retention,
                           !.end = upTo]

\* The n batches below upTo.
batchesBelow(upTo, n) ==
    LET f[i \in 1..n] == before(IF i = 1 THEN upTo ELSE f[i - 1].begin)
    IN  [i \in 1..n |-> f[i]]

\* The batches of bs at the indices is, in their order.
selected(bs, is) ==
    LET f[i \in 0..Len(bs)] ==
            IF i = 0 THEN <<>> ELSE IF i \in is THEN Append(f[i - 1], bs[i]) ELSE f[i - 1]
    IN  f[Len(bs)]
-----------------------------------------------------------------------------
(* The sequencer: operators from its batches to its batches.               *)

\* Batches that wait are handed out, or end the sequence when they have expired.
arranged(bs) ==
    [i \in 1..N |->
        IF bs[i].state \notin {"init", "errRetryable"} THEN bs[i]
        ELSE withState(bs[i], IF expired(bs[i]) THEN "endSequence" ELSE "sequenced")]

\* MUTANT: a batch that is being worked on is handed out again.
handedOutAgain(bs, i) == arranged(bs)[i].state = "sequenced"

\* Whether sequence hands out batch i.
handedOut(bs, i) == bs[i].state # "sequenced" /\ arranged(bs)[i].state = "sequenced"

\* Whether sequence reports the end with batch i: the first such batch, unless another
\* is handed out before it.
endReported(bs, i) ==
    /\ arranged(bs)[i].state = "endSequence"
    /\ \A j \in 1..(i - 1) : ~handedOut(bs, j) /\ arranged(bs)[j].state # "endSequence"

\* MUTANT: the batches that make room are the first ones again.
updateFromTop(bs, b) ==
    LET new  == [i \in 1..N |-> IF replaces(b, bs[i]) THEN b ELSE bs[i]]
        kept == selected(new, {i \in 1..N : ~(new[i].state = "importComplete" \/ expired(new[i]))})
    IN  IF kept = <<>> THEN batchesBelow(bs[1].begin, N)
        ELSE kept \o batchesBelow(bs[1].begin, N - Len(kept))

\* b replaces its older version, batches that are done make room for the next ones.
update(bs, b) ==
    LET new  == [i \in 1..N |-> IF replaces(b, bs[i]) THEN b ELSE bs[i]]
        kept == selected(new, {i \in 1..N : new[i].state # "importComplete" /\ ~expired(new[i])})
    IN  IF kept = <<>>
          THEN [i \in 1..N |->
                  IF i = 1 THEN before(new[1].begin)
                  ELSE IF new[i].state = "importComplete" THEN new[i]
                  ELSE withState(new[i], "endSequence")]
          ELSE kept \o batchesBelow(kept[Len(kept)].begin, N - Len(kept))

\* The batches that can be imported: no other batch is above them.
importable(bs) ==
    LET n == CHOOSE n \in 0..N : /\ \A i \in 1..n : bs[i].state = "importable"
                                 /\ n < N => bs[n + 1].state # "importable"
    IN  SubSeq(bs, 1, n)

\* What the service hands to the pool, and how many ends it reports.
given(bs) == selected(arranged(bs), {i \in 1..N : handedOut(bs, i)})
ends(bs) == IF \E i \in 1..N : endReported(bs, i) THEN 1 ELSE 0
-----------------------------------------------------------------------------
Idle == [doing |-> "idle", batch |-> NoBatch]
first == batchesBelow(low, N)

\* Start of the service, with an empty pool.
Init ==
    /\ retention = 0 /\ low = Origin /\ stored = {}
    /\ seq = arranged(first) /\ endSeq = ends(first) /\ toRouter = given(first)
    /\ main = "check" /\ importing = <<>>
    /\ fromRouter = <<>> /\ todo = <<>> /\ router = "select"
    /\ worker = [w \in Workers |-> Idle]
    /\ failures = 0 /\ restarts = 0

\* The node stops and starts again: the status is read from the database, and
\* when nothing is missing the service is complete at once.
Restart ==
    /\ restarts < MaxRestarts
    /\ restarts' = restarts + 1
    /\ seq' = arranged(first) /\ importing' = <<>>
    /\ fromRouter' = <<>> /\ todo' = <<>> /\ router' = "select"
    /\ worker' = [w \in Workers |-> Idle]
    /\ IF low < retention
         THEN main' = "complete" /\ toRouter' = <<>> /\ endSeq' = 0
         ELSE main' = "check" /\ toRouter' = given(first) /\ endSeq' = ends(first)
    /\ UNCHANGED <<retention, low, stored, failures>>

\* Time passes, and older slots need not be kept.
Expire ==
    /\ retention < MaxRetention
    /\ retention' = retention + 1
    /\ UNCHANGED <<low, stored, seq, main, importing, endSeq, pool, failures, restarts>>
-----------------------------------------------------------------------------
(* The service loop.                                                       *)

\* MUTANT: the first end of the sequence completes the service.
anyEnded == endSeq > 0

\* complete: as many ends as there are batches.
allEnded == endSeq = N

Check ==
    /\ main = "check"
    /\ main' = IF allEnded THEN "complete" ELSE "wait"
    /\ UNCHANGED <<retention, low, stored, seq, importing, endSeq, pool, failures, restarts>>

\* updateComplete gets a batch from the pool, and importBatches collects what it will import.
UpdateComplete ==
    /\ main = "wait" /\ fromRouter # <<>>
    /\ fromRouter' = Tail(fromRouter)
    /\ seq' = update(seq, Head(fromRouter))
    /\ importing' = importable(seq')
    /\ main' = "import"
    /\ UNCHANGED <<retention, low, stored, endSeq, toRouter, todo, router, worker, failures, restarts>>

\* The pool was shut down.  The service ends, and is marked complete.
PoolFailed ==
    /\ main = "wait" /\ router = "stopped"
    /\ main' = "failed"
    /\ UNCHANGED <<retention, low, stored, seq, importing, endSeq, pool, failures, restarts>>

\* MUTANT: blocks are imported whatever they build on.
ensureBlocks(b) == b.blocks \in Slots

\* ensureParent, and the same check of fillBack: the highest block is the parent of the
\* lowest one in the database.
ensureParent(b) == b.blocks \in Slots /\ b.linked /\ b.end = low

savedBy(b) == IF b.linked THEN b.blocks..(b.end - 1) ELSE {}

\* fillBack saves the blocks, then the status.
Import ==
    /\ main = "import" /\ importing # <<>>
    /\ LET b == Head(importing)
       IN  /\ ensureParent(b)
           /\ stored' = stored \cup savedBy(b)
           /\ low' = b.blocks
           /\ seq' = update(seq, withState(b, "importComplete"))
    /\ importing' = Tail(importing)
    /\ UNCHANGED <<retention, main, endSeq, pool, failures, restarts>>

\* The import fails: the batch does not connect, or the data or the database is not
\* available, perhaps after the blocks were saved.  The batches below it have to wait.
ImportFails ==
    /\ main = "import" /\ importing # <<>>
    /\ LET b == Head(importing)
       IN  /\ \/ ~ensureParent(b) /\ UNCHANGED <<stored, failures>>
              \/ /\ ensureParent(b) /\ failures < MaxFailures
                 /\ failures' = failures + 1
                 /\ stored' \in {stored, stored \cup savedBy(b)}
           /\ seq' = update(seq, withState(b, "errRetryable"))
    /\ importing' = <<>>
    /\ UNCHANGED <<retention, low, main, endSeq, pool, restarts>>

\* scheduleTodos hands the next batches to the pool.
ScheduleTodos ==
    /\ main = "import" /\ importing = <<>>
    /\ seq' = arranged(seq)
    /\ toRouter' = toRouter \o given(seq)
    /\ endSeq' = endSeq + ends(seq)
    /\ main' = "check"
    /\ UNCHANGED <<retention, low, stored, importing, fromRouter, todo, router, worker, failures, restarts>>
-----------------------------------------------------------------------------
(* The router.                                                             *)

\* The batch is put among those of the router, from high to low.
sortBatchDesc(bs, b) ==
    LET above == {i \in 1..Len(bs) : bs[i].end >= b.end}
    IN  selected(bs, above) \o <<b>> \o selected(bs, (1..Len(bs)) \ above)

RouterReceives ==
    /\ router = "select" /\ toRouter # <<>>
    /\ todo' = sortBatchDesc(todo, Head(toRouter))
    /\ toRouter' = Tail(toRouter)
    /\ router' = "process"
    /\ UNCHANGED <<retention, low, stored, seq, main, importing, endSeq, fromRouter, worker, failures, restarts>>

\* The ticker, after an assignment that failed.
RouterTick ==
    /\ router = "select" /\ todo # <<>>
    /\ router' = "process"
    /\ UNCHANGED <<retention, low, stored, seq, main, importing, endSeq, toRouter, fromRouter, todo,
                   worker, failures, restarts>>

\* A worker is done: the batch goes to the service, or back to the workers.
RouterCollects(w) ==
    /\ router = "select" /\ worker[w].doing = "done"
    /\ LET b == worker[w].batch
       IN  IF b.state = "importable"
             THEN fromRouter' = Append(fromRouter, b) /\ UNCHANGED todo
             ELSE todo' = sortBatchDesc(todo, b) /\ UNCHANGED fromRouter
    /\ worker' = [worker EXCEPT ![w] = Idle]
    /\ router' = "process"
    /\ UNCHANGED <<retention, low, stored, seq, main, importing, endSeq, toRouter, failures, restarts>>

\* processTodo comes to the end, or finds no peer for the next batch.
ProcessEnds ==
    /\ router = "process"
    /\ \/ todo = <<>> /\ UNCHANGED failures
       \/ todo # <<>> /\ failures < MaxFailures /\ failures' = failures + 1
    /\ router' = "select"
    /\ UNCHANGED <<retention, low, stored, seq, main, importing, endSeq, toRouter, fromRouter, todo,
                   worker, restarts>>

\* The peers cannot be assigned for another reason: the pool shuts down.
RouterFails ==
    /\ router = "process" /\ todo # <<>> /\ failures < MaxFailures
    /\ router' = "stopped" /\ failures' = failures + 1
    /\ UNCHANGED <<retention, low, stored, seq, main, importing, endSeq, toRouter, fromRouter, todo,
                   worker, restarts>>

\* A batch has expired.  The service appends to endSeq without a lock too, and one of
\* the two may be lost.
ProcessExpired ==
    /\ router = "process" /\ todo # <<>> /\ expired(Head(todo))
    /\ endSeq' \in {endSeq + 1} \cup {e \in {endSeq} : main = "import" /\ importing = <<>>}
    /\ todo' = Tail(todo)
    /\ UNCHANGED <<retention, low, stored, seq, main, importing, toRouter, fromRouter, router, worker,
                   failures, restarts>>

\* A batch is given to a worker; the router waits until one is idle.
ProcessAssigns(w) ==
    /\ router = "process" /\ todo # <<>> /\ ~expired(Head(todo))
    /\ worker[w].doing = "idle"
    /\ LET b == Head(todo)
       IN  worker' = [worker EXCEPT ![w] = [doing |-> "work", batch |->
                        IF b.state = "errRetryable" THEN transitionToNext(b) ELSE b]]
    /\ todo' = Tail(todo)
    /\ UNCHANGED <<retention, low, stored, seq, main, importing, endSeq, toRouter, fromRouter, router,
                   failures, restarts>>
-----------------------------------------------------------------------------
(* The workers.                                                            *)

done(w, b) ==
    /\ worker' = [worker EXCEPT ![w] = [doing |-> "done", batch |-> b]]
    /\ UNCHANGED <<retention, low, stored, seq, main, importing, endSeq, toRouter, fromRouter, todo,
                   router, restarts>>

\* The blocks of the whole range arrive.
HandleBlocks(w) ==
    LET b == worker[w].batch
    IN  /\ worker[w].doing = "work" /\ b.state \in {"sequenced", "importable"}
        /\ \E need \in Sidecars :
              done(w, transitionToNext([b EXCEPT !.blocks = b.begin, !.linked = TRUE, !.need = need]))
        /\ UNCHANGED failures

\* The request fails, or brings blocks of another chain, or not the lowest ones.
HandleBlocksFails(w) ==
    LET b == worker[w].batch
        old == IF b.state = "importable" THEN NoBlocks ELSE b.blocks
    IN  /\ worker[w].doing = "work" /\ b.state \in {"sequenced", "importable"}
        /\ failures < MaxFailures /\ failures' = failures + 1
        /\ \/ done(w, withState([b EXCEPT !.blocks = old], "errRetryable"))
           \/ done(w, withState([b EXCEPT !.blocks = b.begin, !.linked = TRUE], "errRetryable"))
           \/ done(w, transitionToNext([b EXCEPT !.blocks = b.begin, !.linked = FALSE, !.need = {}]))
           \/ \E lowest \in {s \in Slots : Truncated /\ b.begin < s /\ s < b.end} :
                done(w, transitionToNext([b EXCEPT !.blocks = lowest, !.linked = TRUE, !.need = {}]))

HandleBlobs(w) ==
    LET b == worker[w].batch
    IN  /\ worker[w].doing = "work" /\ b.state = "syncBlobs"
        /\ done(w, transitionToNext([b EXCEPT !.need = b.need \ {"blobs"}]))
        /\ UNCHANGED failures

\* The blobs are given up, sometimes with the blocks.
HandleBlobsFails(w) ==
    LET b == worker[w].batch
    IN  /\ worker[w].doing = "work" /\ b.state = "syncBlobs"
        /\ failures < MaxFailures /\ failures' = failures + 1
        /\ \E blocks \in {b.blocks, NoBlocks} :
              done(w, withState([b EXCEPT !.need = b.need \ {"blobs"}, !.blocks = blocks], "errRetryable"))

HandleColumns(w) ==
    LET b == worker[w].batch
    IN  /\ worker[w].doing = "work" /\ b.state = "syncColumns"
        /\ done(w, transitionToNext([b EXCEPT !.need = b.need \ {"columns"}]))
        /\ UNCHANGED failures

\* The request fails, or the peer has not all of the columns.
HandleColumnsFails(w) ==
    LET b == worker[w].batch
    IN  /\ worker[w].doing = "work" /\ b.state = "syncColumns"
        /\ failures < MaxFailures /\ failures' = failures + 1
        /\ done(w, withState(b, "errRetryable")) \/ done(w, transitionToNext(b))
-----------------------------------------------------------------------------
Service == Check \/ PoolFailed \/ UpdateComplete \/ Import \/ ImportFails \/ ScheduleTodos
Router ==
    \/ RouterFails \/ RouterReceives \/ RouterTick \/ ProcessEnds \/ ProcessExpired
    \/ \E w \in Workers : RouterCollects(w) \/ ProcessAssigns(w)
Worker(w) ==
    \/ HandleBlocks(w) \/ HandleBlocksFails(w) \/ HandleBlobs(w) \/ HandleBlobsFails(w)
    \/ HandleColumns(w) \/ HandleColumnsFails(w)

Next == Service \/ Router \/ (\E w \in Workers : Worker(w)) \/ Expire \/ Restart

Spec == Init /\ [][Next]_vars

\* Every goroutine that can go on does; requests end.
FairSpec ==
    /\ Spec
    /\ WF_vars(Service) /\ WF_vars(Router)
    /\ \A w \in Workers : WF_vars(Worker(w))
    /\ SF_vars(RouterReceives) /\ SF_vars(\E w \in Workers : RouterCollects(w))
-----------------------------------------------------------------------------
(* Properties.                                                             *)

TypeOK ==
    /\ retention \in Slots /\ low \in Slots /\ stored \subseteq Slots
    /\ seq \in [1..N -> Batches]
    /\ main \in {"check", "wait", "import", "complete", "failed"}
    /\ \A b \in Range(importing) \cup Range(toRouter) \cup Range(fromRouter) \cup Range(todo) :
            b \in Batches
    /\ router \in {"select", "process", "stopped"}
    /\ \A w \in Workers : worker[w].doing \in {"idle", "work", "done"} /\ worker[w].batch \in Batches

\* The status in the database is true (Store.AvailableBlock relies on it): every block
\* from the low slot up to the checkpoint is stored, whatever arrived out of order, did
\* not connect, failed half-way or was interrupted.
StatusTrue == low..(Origin - 1) \subseteq stored

\* The batches of the sequencer follow each other without a gap, while batches
\* complete, fail and expire.
NoGap == \A i \in 1..(N - 1) : seq[i].begin = seq[i + 1].end

\* No more batches are on their way than there are workers, so that neither todo nor
\* the router blocks on a channel: a router that waits for an idle worker does not
\* collect from those that are done.
inPool == Len(toRouter) + Len(fromRouter) + Len(todo) + Cardinality({w \in Workers : worker[w] # Idle})
PoolBounded == inPool <= N

\* The service is complete only when nothing that has to be kept is missing.
CompleteIsTrue == main = "complete" => low <= retention

\* All blocks that have to be kept are stored in the end, whatever order batches come in
\* and whichever fail, unless the pool is shut down (or a response is truncated).
Backfilled == <>[](low <= retention \/ main = "failed")

\* "When all batches are in batchEndSequence, worker pool spins down and marks backfill
\* complete."
Completes == (\A i \in 1..N : seq[i].state = "endSequence") ~> main = "complete"
=============================================================================
