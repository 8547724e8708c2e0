------------------------- MODULE CompleteProtection -------------------------
(***************************************************************************)
(* The complete slashing protection of the validator client                *)
(* (validator/db/kv, EIP-3076): every attestation a key signs is recorded  *)
(* in a database under three indices, and a new one is checked against     *)
(* them.                                                                   *)
(*                                                                         *)
(* The attester of a key checks its attestation, sends the record to a     *)
(* goroutine that writes records in batches, subscribes to the results of  *)
(* its writes, and submits the attestation when it hears of a successful   *)
(* one.  The attesters of different keys run at once; those of one key     *)
(* exclude each other by a lock (client/attest.go).  The client may stop at*)
(* any time; on a restart the database may be pruned.                      *)
(***************************************************************************)
EXTENDS Integers, Sequences, FiniteSets

CONSTANTS
    Keys,
    Epochs, SigningRoots,
    Votes,              \* the attestations the beacon node may ask each key to sign
    BatchCapacity,      \* attestationBatchCapacity
    PruningEpochs,      \* SlashingProtectionPruningEpochs
    Pruning,            \* whether the slashing protection is pruned at startup
    MaxRequests,        \* bound on the attestations that pass the check
    MaxErrors,          \* bound on the failing writes of the database
    MaxCrashes          \* bound on the restarts

Attestations == [source : Epochs, target : Epochs, root : SigningRoots]
None == -1
NoVote == [source |-> None, target |-> None, root |-> None]

ASSUME VotesAssumption == Epochs \subseteq Nat /\ Votes \in [Keys -> SUBSET Attestations]
ASSUME CapacityAssumption == BatchCapacity \in Nat \ {0} /\ PruningEpochs \in Nat
ASSUME LimitsAssumption == Pruning \in BOOLEAN /\ {MaxRequests, MaxErrors, MaxCrashes} \subseteq Nat

VARIABLES
    db,          \* the database: the indices of each key
    pc,          \* what the attester of each key is about to do
    att,         \* its attestation
    chan,        \* batchedAttestationsChan
    queue,       \* batchedAttestations, and the records of a flush under way
    writer,      \* what the writing goroutine is about to do
    submitted,   \* what each key has submitted, in order
    requests, errors, crashes

vars == <<db, pc, att, chan, queue, writer, submitted, requests, errors, crashes>>

\* The signing root of each target, the targets of each source, the sources of each target,
\* and the lowest source and target ever recorded.
Buckets == [roots : SUBSET (Epochs \X SigningRoots),
            targets : SUBSET (Epochs \X Epochs), sources : SUBSET (Epochs \X Epochs),
            lowestSource : Epochs \cup {None}, lowestTarget : Epochs \cup {None}]
NoBuckets == [roots |-> {}, targets |-> {}, sources |-> {},
              lowestSource |-> None, lowestTarget |-> None]
Records == [key : Keys, att : Attestations]
Pcs == {"idle", "send", "subscribe", "wait", "submit"}

TypeOK ==
    /\ db \in [Keys -> Buckets]
    /\ pc \in [Keys -> Pcs]
    /\ att \in [Keys -> Attestations \cup {NoVote}]
    /\ \A k \in Keys : att[k] \in IF pc[k] = "idle" THEN {NoVote} ELSE Votes[k]
    /\ chan \in Seq(Records) /\ Len(chan) <= BatchCapacity
    /\ queue \in Seq(Records)
    /\ writer \in {"select", "flush", "saved", "failed"}
    /\ submitted \in [Keys -> Seq([att : Attestations, saved : BOOLEAN])]
    /\ requests \in 0..MaxRequests /\ errors \in 0..MaxErrors /\ crashes \in 0..MaxCrashes

Init ==
    /\ db = [k \in Keys |-> NoBuckets]
    /\ pc = [k \in Keys |-> "idle"]
    /\ att = [k \in Keys |-> NoVote]
    /\ chan = <<>> /\ queue = <<>> /\ writer = "select"
    /\ submitted = [k \in Keys |-> <<>>]
    /\ requests = 0 /\ errors = 0 /\ crashes = 0
-----------------------------------------------------------------------------
(* The check.                                                              *)

\* IsSurround: attestation <<s, t>> surrounds attestation <<x, y>>.
IsSurround(s, t, x, y) == s < x /\ y < t

\* MUTANT: recorded attestations inside the new one are not looked for.
checkNoSurroundingVote(b, a) == TRUE

\* checkSurroundingVote finds no recorded attestation inside a.
checkSurroundingVote(b, a) ==
    \A e \in b.targets : ~IsSurround(a.source, a.target, e[1], e[2])

\* checkSurroundedVote finds no recorded attestation around a.
checkSurroundedVote(b, a) ==
    \A e \in b.sources : ~IsSurround(e[2], e[1], a.source, a.target)

\* SigningRootsDiffer from the root recorded for the target, or none is recorded.
signingRootsDiffer(b, a) == <<a.target, a.root>> \notin b.roots

\* SlashableAttestationCheck lets the attestation through.
passesCheck(b, a) ==
    /\ b.lowestSource # None => a.source >= b.lowestSource
    /\ signingRootsDiffer(b, a) /\ b.lowestTarget # None => a.target > b.lowestTarget
    /\ \A e \in b.roots : e[1] = a.target => e[2] = a.root
    /\ checkSurroundingVote(b, a)
    /\ checkSurroundedVote(b, a)
-----------------------------------------------------------------------------
(* The database.                                                           *)

lowest(e, f) == IF e = None \/ f < e THEN f ELSE e

\* What saveAttestationRecords writes for one record; the last root of a target stays.
withRecord(b, a) ==
    [roots        |-> {e \in b.roots : e[1] # a.target} \cup {<<a.target, a.root>>},
     targets      |-> b.targets \cup {<<a.source, a.target>>},
     sources      |-> b.sources \cup {<<a.target, a.source>>},
     lowestSource |-> lowest(b.lowestSource, a.source),
     lowestTarget |-> lowest(b.lowestTarget, a.target)]

written(d, rec) == [d EXCEPT ![rec.key] = withRecord(@, rec.att)]

\* saveAttestationRecords: the records of each key, in order, in one transaction.
saveAttestationRecords(records) ==
    LET after[n \in 0..Len(records)] ==
          IF n = 0 THEN db ELSE written(after[n - 1], records[n])
    IN after[Len(records)]

\* pruneBucket: the entries of the epochs from pruningEpochCutoff of the highest one on.
pruneBucket(bkt) == {e \in bkt : \A f \in bkt : e[1] + PruningEpochs >= f[1]}

\* PruneAttestations, for one key: the lowest recorded epochs stay as they are.
PruneAttestations(b) ==
    [roots |-> pruneBucket(b.roots), targets |-> pruneBucket(b.targets),
     sources |-> pruneBucket(b.sources),
     lowestSource |-> b.lowestSource, lowestTarget |-> b.lowestTarget]

\* Whether the attestation is in the database.
Recorded(b, a) == <<a.target, a.root>> \in b.roots /\ <<a.source, a.target>> \in b.targets

\* Whether a record of it is still on its way there.
InFlight(k, a) ==
    \/ [key |-> k, att |-> a] \in {chan[i] : i \in 1..Len(chan)}
    \/ [key |-> k, att |-> a] \in {queue[i] : i \in 1..Len(queue)}
-----------------------------------------------------------------------------
(* The attester of a key.                                                  *)

\* SlashableAttestationCheck, up to the save.
SlashableAttestationCheck(k, a) ==
    /\ pc[k] = "idle" /\ requests < MaxRequests
    /\ passesCheck(db[k], a)
    /\ pc' = [pc EXCEPT ![k] = "send"]
    /\ att' = [att EXCEPT ![k] = a]
    /\ requests' = requests + 1
    /\ UNCHANGED <<db, chan, queue, writer, submitted, errors, crashes>>

\* SaveAttestationForPubKey sends the record to the writer; the channel holds a batch.
Send(k) ==
    /\ pc[k] = "send" /\ Len(chan) < BatchCapacity
    /\ pc' = [pc EXCEPT ![k] = "subscribe"]
    /\ chan' = Append(chan, [key |-> k, att |-> att[k]])
    /\ UNCHANGED <<db, att, queue, writer, submitted, requests, errors, crashes>>

\* ... and then subscribes to the results of the writes.
Subscribe(k) ==
    /\ pc[k] = "subscribe"
    /\ pc' = [pc EXCEPT ![k] = "wait"]
    /\ UNCHANGED <<db, att, chan, queue, writer, submitted, requests, errors, crashes>>

\* SubmitAttestation hands the attestation to the beacon node.
Submit(k) ==
    /\ pc[k] = "submit"
    /\ pc' = [pc EXCEPT ![k] = "idle"]
    /\ submitted' = [submitted EXCEPT ![k] =
                       Append(@, [att |-> att[k],
                                  saved |-> Recorded(db[k], att[k]) /\ ~InFlight(k, att[k])])]
    /\ att' = [att EXCEPT ![k] = NoVote]
    /\ UNCHANGED <<db, chan, queue, writer, requests, errors, crashes>>
-----------------------------------------------------------------------------
(* The writing goroutine, batchAttestationWrites.                          *)

\* It takes a record from the channel, and flushes the batch when it is full.
Receive ==
    /\ writer = "select" /\ chan # <<>>
    /\ chan' = Tail(chan)
    /\ queue' = Append(queue, Head(chan))
    /\ writer' = IF Len(queue) + 1 >= BatchCapacity THEN "flush" ELSE "select"
    /\ UNCHANGED <<db, pc, att, submitted, requests, errors, crashes>>

\* The write interval has passed.
Tick ==
    /\ writer = "select" /\ queue # <<>>
    /\ writer' = "flush"
    /\ UNCHANGED <<db, pc, att, chan, queue, submitted, requests, errors, crashes>>

\* flushAttestationRecords writes the batch.
Save ==
    /\ writer = "flush"
    /\ db' = saveAttestationRecords(queue)
    /\ queue' = <<>>
    /\ writer' = "saved"
    /\ UNCHANGED <<pc, att, chan, submitted, requests, errors, crashes>>

\* MUTANT: the records of a failed batch are not queued again.
saveFailsAndDrops ==
    /\ writer = "flush" /\ errors < MaxErrors
    /\ writer' = "failed"
    /\ queue' = <<>>
    /\ errors' = errors + 1
    /\ UNCHANGED <<db, pc, att, chan, submitted, requests, crashes>>

\* The transaction fails: the records go back to the queue, in order.
SaveFails ==
    /\ writer = "flush" /\ errors < MaxErrors
    /\ writer' = "failed"
    /\ errors' = errors + 1
    /\ UNCHANGED <<db, pc, att, chan, queue, submitted, requests, crashes>>

\* The result goes to every subscriber, whichever batch its record is in.
Notify ==
    /\ writer \in {"saved", "failed"}
    /\ pc' = [k \in Keys |-> IF pc[k] # "wait" THEN pc[k]
                             ELSE IF writer = "saved" THEN "submit" ELSE "idle"]
    /\ att' = [k \in Keys |-> IF pc'[k] = "idle" THEN NoVote ELSE att[k]]
    /\ writer' = "select"
    /\ UNCHANGED <<db, chan, queue, submitted, requests, errors, crashes>>

\* The validator client stops and starts again: what was not written is lost.
Restart ==
    /\ crashes < MaxCrashes
    /\ crashes' = crashes + 1
    /\ pc' = [k \in Keys |-> "idle"]
    /\ att' = [k \in Keys |-> NoVote]
    /\ chan' = <<>> /\ queue' = <<>> /\ writer' = "select"
    /\ db' = IF Pruning THEN [k \in Keys |-> PruneAttestations(db[k])] ELSE db
    /\ UNCHANGED <<submitted, requests, errors>>

Attester(k) == Send(k) \/ Subscribe(k) \/ Submit(k)
Writer == Receive \/ Tick \/ Save \/ SaveFails \/ Notify

Next ==
    \/ \E k \in Keys : Attester(k) \/ \E a \in Votes[k] : SlashableAttestationCheck(k, a)
    \/ Writer
    \/ Restart

Spec == Init /\ [][Next]_vars

\* The goroutines that hold an attestation, and the writer, go on; failures need not happen.
FairSpec == Spec /\ WF_vars(Writer) /\ \A k \in Keys : WF_vars(Attester(k))
-----------------------------------------------------------------------------
(* Properties.                                                             *)

Slashable(a, b) ==
    \/ a.target = b.target /\ a.root # b.root
    \/ IsSurround(a.source, a.target, b.source, b.target)
    \/ IsSurround(b.source, b.target, a.source, a.target)

\* Whether no restart can have pruned the attestation yet.
Recent(b, a) ==
    /\ \A e \in b.targets : a.source + PruningEpochs >= e[1]
    /\ \A e \in b.sources : a.target + PruningEpochs >= e[1]

\* An attestation whose record was in the database when it was submitted is contradicted by no
\* later submission of its key before pruning may drop it: not across restarts, failed writes,
\* or answers that belong to the batch of another key.
SavedNeverContradicted ==
    \A k \in Keys : \A i, j \in 1..Len(submitted[k]) :
        i < j /\ submitted[k][i].saved /\ Slashable(submitted[k][i].att, submitted[k][j].att)
          => Pruning /\ ~Recent(db[k], submitted[k][i].att)

Indexed(b, a) == <<a.source, a.target>> \in b.targets /\ <<a.target, a.source>> \in b.sources

\* Every record sent to the writer reaches both epoch indices, through failing writes and
\* whatever the callers do, if the client does not stop again.
EventuallyRecorded ==
    \A k \in Keys : \A a \in Votes[k] :
        InFlight(k, a) /\ crashes = MaxCrashes ~> Indexed(db[k], a)

\* An attester goes on to submit only once the record it queued is saved.
SubmittedIsSaved ==
    \A k \in Keys : \A i \in 1..Len(submitted[k]) : submitted[k][i].saved

\* Every attester that waits for its record to be saved is told so, if the client runs on.
CallerAnswered ==
    \A k \in Keys : pc[k] = "wait" ~> pc[k] # "wait"

\* No attestation is let through whose target is at or below the lowest one that is present.
LowestEnforced ==
    \A k \in Keys : \A a \in Votes[k] :
        passesCheck(db[k], a) /\ signingRootsDiffer(db[k], a)
          => db[k].roots = {} \/ \E e \in db[k].roots : a.target > e[1]

=============================================================================
