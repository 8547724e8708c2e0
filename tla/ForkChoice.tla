---------------------------- MODULE ForkChoice ----------------------------
(***************************************************************************)
(* The fork choice store as a state machine: one action for each operation *)
(* that the blockchain service calls under the store's write lock, the     *)
(* wall clock that the operations read without it, and the slot ticker     *)
(* that calls NewSlot, which may run late.                                 *)
(*                                                                         *)
(* Blocks, attestations, engine verdicts and the failures of the two       *)
(* calls that leave the store (the balances of a state and the unrealized  *)
(* checkpoints of a state) are inputs.                                     *)
(***************************************************************************)
EXTENDS ForkChoiceHead, Justification

CONSTANTS
    Validators,        \* validator indices that attest
    Proposers,         \* validator indices that propose
    StartSlot,         \* the wall clock at startup
    AnchorValidated,   \* was the anchor the last validated checkpoint of the database
    MaxTickerLag,      \* bound: slots the ticker may lag behind the clock
    BlockSlots,        \* bound: the slots that have blocks
    VoteSlots,         \* bound: the slots that are attested
    MaxJustified,      \* bound: the last epoch that blocks justify
    BalanceErrors,     \* may balancesByRoot fail: a subset of BOOLEAN
    UnrealizedErrors   \* may UnrealizedCheckpoints fail: a subset of BOOLEAN

\* The zero root stands for every block before the anchor.
Checkpoints == [epoch : Epochs, root : OptRoots]

Blocks ==
    [parent : PayloadNodes \cup {NoNode}, slot : Slots, proposer : Proposers,
     state : BeaconStates(Epochs, OptRoots)]   \* the post-state

ASSUME InputsAssumption ==
    /\ Validators \subseteq Nat
    /\ Proposers # {}
    /\ StartSlot \in AnchorSlot..MaxSlot /\ AnchorValidated \in BOOLEAN
    /\ MaxTickerLag \in Nat /\ MaxJustified \in Nat 
    /\ BlockSlots \subseteq Slots /\ VoteSlots \subseteq Slots
    /\ \A slot \in Slots : ToEpoch(slot) \in Epochs
    /\ BalanceErrors \subseteq BOOLEAN /\ UnrealizedErrors \subseteq BOOLEAN

VARIABLES
    currentSlot,   \* slots.CurrentSlot(genesisTime): the wall clock
    tickedSlot,    \* the last slot NewSlot was called for
    block,         \* the blocks made so far, by root
    tree,          \* the nodes of the store, see ForkChoiceTree
    epochs,        \* the four epochs of each consensus node
    checkpoints,   \* the four checkpoints of the store
    boost,         \* proposer boost, see ForkChoiceHead
    weights,       \* balances and weights, see ForkChoiceHead
    voting,        \* votes and balances, see ForkChoiceHead
    heads,         \* bestDescendant, headNode, highestReceivedNode,
                   \* receivedBlocksLastEpoch and allTipsAreInvalid
    payloadVotes,  \* the PTC votes of each consensus node
    proposals,     \* blockRootsBySlotProposer
    finalizedPayloadBlockHash,
    rejected       \* history: the roots whose nodes an engine verdict removed

\* What an operation of the store leaves alone: the time and the history.
clock == <<currentSlot, tickedSlot, rejected>>
store == <<tree, epochs, checkpoints, boost, weights, voting, heads, payloadVotes, proposals,
           finalizedPayloadBlockHash>>
vars == <<currentSlot, tickedSlot, block, tree, epochs, checkpoints, boost, weights,
          voting, heads, payloadVotes, proposals, finalizedPayloadBlockHash, rejected>>

Known == DOMAIN block

-----------------------------------------------------------------------------
(* The store after startup from the anchor, the finalized and justified    *)
(* checkpoint of the database.  The checkpoints are set before the anchor  *)
(* is inserted, and so before its payload hash can be found.               *)

AnchorCheckpoint == [epoch |-> ToEpoch(AnchorSlot), root |-> Anchor]
NoCheckpoint == [epoch |-> 0, root |-> ZeroHash]

\* What the anchor's own state has justified and finalized.
BeforeAnchor(epochsBack) ==
    [epoch |-> IF ToEpoch(AnchorSlot) < epochsBack THEN 0 ELSE ToEpoch(AnchorSlot) - epochsBack,
     root |-> ZeroHash]

AnchorBlock(proposer) ==
    [parent |-> NoNode, slot |-> AnchorSlot, proposer |-> proposer,
     state |-> [previous |-> BeforeAnchor(2), current |-> BeforeAnchor(1),
                finalized |-> BeforeAnchor(2),
                roots |-> [e \in Epochs |-> IF EpochStart(e) >= AnchorSlot THEN Anchor ELSE ZeroHash],
                bits |-> [i \in 0..3 |-> ToEpoch(AnchorSlot) > i + 1],
                prevTarget |-> FALSE, currTarget |-> FALSE]]

NodeEpochs(jc, fc) ==
    [justified |-> jc.epoch, unrealizedJustified |-> jc.epoch,
     finalized |-> fc.epoch, unrealizedFinalized |-> fc.epoch]

AnchorTree ==
    [empty |-> {Anchor},
     full |-> IF IsGloas(AnchorSlot) THEN {} ELSE {Anchor},
     root |-> Anchor,
     slot |-> [r \in Roots |-> IF r = Anchor THEN AnchorSlot ELSE 0],
     parent |-> [r \in Roots |-> NoNode],
     path |-> [r \in Roots |-> {}],
     target |-> [r \in Roots |->
                    IF r = Anchor /\ SinceEpochStarts(AnchorSlot) = 0 THEN Anchor ELSE ZeroHash],
     children |-> [pn \in PayloadNodes |-> {}],
     optimistic |-> [pn \in PayloadNodes |-> ~(RootOf(pn) = Anchor /\ AnchorValidated)],
     finalizedDependentRoot |-> ZeroHash]

NoPayloadVotes == [attesters |-> {}, present |-> {}, available |-> {}]

\* The balances of the state of a block: a call out of the store.
balancesByRoot(r) == IF r \in Roots THEN BalancesOf[r] ELSE <<>>

Init ==
    /\ currentSlot = StartSlot
    /\ tickedSlot = StartSlot
    /\ rejected = {}
    /\ tree = AnchorTree
    /\ \E p \in Proposers :
          /\ block = [r \in {Anchor} |-> AnchorBlock(p)]
          /\ proposals = [k \in Slots \X Proposers |-> IF k = <<AnchorSlot, p>> THEN {Anchor} ELSE {}]
    /\ epochs = [r \in Roots |-> NodeEpochs(BeforeAnchor(1), BeforeAnchor(2))]
    /\ checkpoints = [justified |-> AnchorCheckpoint, finalized |-> AnchorCheckpoint,
                      unrealizedJustified |-> NoCheckpoint, unrealizedFinalized |-> NoCheckpoint]
    /\ boost = [root |-> ZeroHash, previousRoot |-> ZeroHash, previousScore |-> 0]
    /\ weights = NoWeights
    /\ voting = [votes |-> <<>>, balances |-> <<>>,
                 justifiedBalances |-> balancesByRoot(Anchor), slashed |-> {}]
    /\ heads = [bestDescendant |-> [r \in Roots |-> ZeroHash],
                headNode |-> Anchor, highestReceivedNode |-> Anchor,
                receivedBlocksLastEpoch |->
                    [i \in 0..SlotsPerEpoch - 1 |->
                        IF AnchorSlot + SlotsPerEpoch > StartSlot /\ i = AnchorSlot % SlotsPerEpoch
                        THEN AnchorSlot ELSE 0],
                allTipsAreInvalid |-> FALSE]
    /\ payloadVotes = [r \in Roots |-> NoPayloadVotes]
    /\ finalizedPayloadBlockHash = ZeroHash

-----------------------------------------------------------------------------
(* Time.  An operation that runs between Tick and NewSlot sees the new     *)
(* slot before the ticker has reset the store for it.                      *)

Tick ==
    /\ currentSlot < MaxSlot
    /\ currentSlot - tickedSlot <= MaxTickerLag
    /\ currentSlot' = currentSlot + 1
    /\ UNCHANGED <<tickedSlot, rejected, block, store>>

-----------------------------------------------------------------------------
(* The target and the dependent root of a chain at an epoch.               *)

RootFound(r) == [root |-> r, err |-> FALSE]
RootError == [root |-> ZeroHash, err |-> TRUE]

targetRootForEpoch(t, root, epoch) ==
    LET walk[r \in OptRoots] ==
            IF r \notin t.empty THEN RootError
            ELSE LET target == t.target[r]
                     nodeEpoch == ToEpoch(t.slot[r])
                 IN  IF epoch > nodeEpoch THEN RootFound(r)
                     ELSE IF target = ZeroHash THEN RootFound(ZeroHash)
                     ELSE IF epoch = nodeEpoch THEN RootFound(target)
                     ELSE IF target \notin t.empty THEN RootError
                     ELSE IF nodeEpoch # ToEpoch(t.slot[target]) THEN walk[target]
                     ELSE IF t.parent[target] = NoNode THEN RootError
                     ELSE walk[RootOf(t.parent[target])]
    IN  walk[root]

dependentRootForEpoch(t, root, epoch) ==
    LET target == targetRootForEpoch(t, root, epoch)
        r == target.root
    IN  IF target.err \/ r = ZeroHash THEN target
        ELSE IF r \notin t.empty THEN RootError
        ELSE IF ToEpoch(t.slot[r]) < epoch THEN RootFound(r)
        ELSE IF t.parent[r] = NoNode THEN RootFound(t.finalizedDependentRoot)
        ELSE RootFound(RootOf(t.parent[r]))

-----------------------------------------------------------------------------
(* Insertion of a block b with root r.  The operators of this section      *)
(* return a record of the parts of the store that they change.             *)

\* The parent pointer insert finds for b; NoNode when it finds none.
resolveParent(b) ==
    IF /\ RootOf(b.parent) \in tree.empty
       /\ IsFull(b.parent) => RootOf(b.parent) \in tree.full
    THEN b.parent ELSE NoNode

\* The epoch whose dependent root decides the boost.
boostEpoch == IF ToEpoch(currentSlot) = 0 THEN 0 ELSE ToEpoch(currentSlot) - 1

BestDescendants(t, w, bo, pv, ep, chk, old) ==
    updateBestDescendant(t, w, bo, pv, currentSlot, [r \in Roots |-> ep[r].justified],
                         chk.justified.epoch, old)

\* insert for a root that is not in the store.  When a dependent root is not
\* found it returns an error with the node already linked.
insert(r, b, timely) ==
    LET t == insertNodes(tree, r, b.slot, b.parent)
        ep == [epochs EXCEPT ![r] = NodeEpochs(b.state.current, b.state.finalized)]
        w == freshWeights(weights, r)
        pv == [payloadVotes EXCEPT ![r] = NoPayloadVotes]
        candidate == currentSlot = b.slot /\ timely /\ boost.root = ZeroHash
        own == dependentRootForEpoch(t, r, boostEpoch)
        head == dependentRootForEpoch(t, heads.headNode, boostEpoch)
        err == candidate /\ (own.err \/ head.err)
        bo == IF candidate /\ ~err /\ own.root = head.root
              THEN [boost EXCEPT !.root = r] ELSE boost
        old == [heads.bestDescendant EXCEPT ![r] = ZeroHash]
    IN  [tree |-> t, epochs |-> ep, weights |-> w, payloadVotes |-> pv, boost |-> bo, err |-> err,
         pn |-> IF IsGloas(b.slot) THEN Empty(r) ELSE Full(r),
         heads |->
            IF err THEN [heads EXCEPT !.bestDescendant = old]
            ELSE [heads EXCEPT
                    !.bestDescendant = BestDescendants(t, w, bo, pv, ep, checkpoints, old),
                    !.highestReceivedNode = IF b.slot > t.slot[@] THEN r ELSE @,
                    !.receivedBlocksLastEpoch =
                        IF b.slot + SlotsPerEpoch > currentSlot
                        THEN [@ EXCEPT ![b.slot % SlotsPerEpoch] = b.slot] ELSE @]]

\* insert for a root that is in the store: the node that is there.
inserted(r) ==
    [tree |-> tree, epochs |-> epochs, weights |-> weights, payloadVotes |-> payloadVotes,
     boost |-> boost, err |-> FALSE, pn |-> Empty(r), heads |-> heads]

recordedProposals(b, r) ==
    [proposals EXCEPT ![<<b.slot, b.proposer>>] = IF Cardinality(@) >= 2 THEN @ ELSE @ \cup {r}]

\* MUTANT: the slot in the epoch is not looked at.
decidedByParentAlways(unrealizedJustifiedEpoch, stateSlot) ==
    LET currentEpoch == ToEpoch(currentSlot)
    IN  \/ unrealizedJustifiedEpoch = currentEpoch
        \/ /\ ToEpoch(stateSlot) = currentEpoch
           /\ unrealizedJustifiedEpoch + 1 = currentEpoch

\* Nothing more can be justified than the parent has, or not yet.
decidedByParent(unrealizedJustifiedEpoch, stateSlot) ==
    LET currentEpoch == ToEpoch(currentSlot)
    IN  \/ unrealizedJustifiedEpoch = currentEpoch
        \/ /\ ToEpoch(stateSlot) = currentEpoch
           /\ unrealizedJustifiedEpoch + 1 = currentEpoch
           /\ SinceEpochStarts(stateSlot) * 3 < SlotsPerEpoch * 2

\* pullTips for node r of tree t.  stateEpoch is the epoch of the block, the
\* state being its post-state.
pullTips(t, ep, r, b, unrealizedErr) ==
    LET p == ep[RootOf(t.parent[r])]
        pulled == UnrealizedCheckpoints(b.state, ToEpoch(b.slot))
        jc == b.state.current
        fc == b.state.finalized
        uj == IF unrealizedErr THEN jc ELSE pulled.jc
        uf == IF unrealizedErr THEN fc ELSE pulled.fc
        finalizes == uf.epoch > checkpoints.unrealizedFinalized.epoch
        justifies == uj.epoch > checkpoints.unrealizedJustified.epoch
        late == ToEpoch(b.slot) < ToEpoch(currentSlot)
    IN  IF t.parent[r] = NoNode
        THEN [epochs |-> ep, checkpoints |-> checkpoints, jc |-> jc, fc |-> fc]
        ELSE IF decidedByParent(p.unrealizedJustified, b.slot)
        THEN [epochs |-> [ep EXCEPT ![r].unrealizedJustified = p.unrealizedJustified,
                                    ![r].unrealizedFinalized = p.unrealizedFinalized],
              checkpoints |-> checkpoints, jc |-> jc, fc |-> fc]
        ELSE [epochs |-> [ep EXCEPT ![r].unrealizedJustified = uj.epoch,
                                    ![r].unrealizedFinalized = uf.epoch,
                                    ![r].justified = IF late THEN uj.epoch ELSE @,
                                    ![r].finalized = IF late THEN uf.epoch ELSE @],
              checkpoints |-> [checkpoints EXCEPT
                                    !.unrealizedJustified = IF justifies \/ finalizes THEN uj ELSE @,
                                    !.unrealizedFinalized = IF finalizes THEN uf ELSE @],
              jc |-> IF late THEN uj ELSE jc, fc |-> IF late THEN uf ELSE fc]

\* prune keeps the payload hash of the checkpoint while it can be found.
finalizedHash(t, finalized) ==
    IF finalized.root \in t.empty /\ t.parent[finalized.root] # NoNode
    THEN checkpointPayloadHashForRoot(t, finalized.root)
    ELSE finalizedPayloadBlockHash

\* MUTANT: any other checkpoint replaces the one of the store.
supersedesAny(checkpoint, old) == checkpoint.root # ZeroHash /\ checkpoint # old

supersedes(checkpoint, old) == checkpoint.epoch > old.epoch

updateCheckpoints(t, chk, jc, fc, balanceErr) ==
    LET justifies == supersedes(jc, chk.justified)
        err == justifies /\ balanceErr
        finalizes == ~err /\ supersedes(fc, chk.finalized)
        pruned == IF finalizes THEN prune(t, fc) ELSE Kept(t)
    IN  [checkpoints |-> [chk EXCEPT !.justified = IF justifies THEN jc ELSE @,
                                     !.finalized = IF finalizes THEN fc ELSE @],
         voting |-> IF justifies /\ ~err
                    THEN [voting EXCEPT !.justifiedBalances = balancesByRoot(jc.root)] ELSE voting,
         hash |-> IF finalizes THEN finalizedHash(t, fc) ELSE finalizedPayloadBlockHash,
         tree |-> pruned.tree, err |-> err \/ pruned.err]

\* removeNodeAndChildren takes the boost from the nodes it removes.
unboosted(bo, removed) ==
    [root |-> IF bo.root \in removed THEN ZeroHash ELSE bo.root,
     previousRoot |-> IF bo.previousRoot \in removed THEN ZeroHash ELSE bo.previousRoot,
     previousScore |-> IF bo.previousRoot \in removed THEN 0 ELSE bo.previousScore]

\* InsertNode after insert returned `i'.
insertedNode(i, r, b, balanceErr, unrealizedErr) ==
    \E pulled \in {pullTips(i.tree, i.epochs, r, b, unrealizedErr)} :
    \E chk \in {updateCheckpoints(i.tree, pulled.checkpoints, pulled.jc, pulled.fc, balanceErr)} :
    LET undo == IF chk.err THEN removeNode(chk.tree, i.pn) ELSE Kept(chk.tree)
    IN  /\ tree' = undo.tree
        /\ epochs' = pulled.epochs
        /\ checkpoints' = chk.checkpoints
        /\ voting' = chk.voting
        /\ finalizedPayloadBlockHash' = chk.hash
        /\ boost' = unboosted(i.boost, undo.removed)
        /\ proposals' = recordedProposals(b, r)

InsertNode(r, b, timely, balanceErr, unrealizedErr) ==
    \E i \in {IF r \in tree.empty THEN inserted(r) ELSE insert(r, b, timely)} :
        /\ r \in tree.empty \/ resolveParent(b) # NoNode
        /\ IF i.err
           THEN /\ tree' = i.tree /\ epochs' = i.epochs
                /\ UNCHANGED <<checkpoints, voting, boost, proposals, finalizedPayloadBlockHash>>
           ELSE insertedNode(i, r, b, balanceErr, unrealizedErr)
        /\ weights' = i.weights
        /\ payloadVotes' = i.payloadVotes
        /\ heads' = i.heads
        /\ block' = [x \in Known \cup {r} |-> IF x = r THEN b ELSE block[x]]
        /\ UNCHANGED clock

\* One block of the slice that InsertChain is called with.
InsertChain(r, b, timely, hasPayload, balanceErr) ==
    LET i == IF r \in tree.empty THEN inserted(r) ELSE insert(r, b, timely)
        newFull == hasPayload /\ r \notin i.tree.full
        t == IF newFull THEN makeFull(i.tree, r) ELSE i.tree
        chk == updateCheckpoints(t, checkpoints, b.state.current, b.state.finalized, balanceErr)
    IN  /\ r \in tree.empty \/ resolveParent(b) # NoNode
        /\ IF i.err
           THEN /\ tree' = i.tree
                /\ UNCHANGED <<checkpoints, voting, finalizedPayloadBlockHash>>
           ELSE /\ tree' = chk.tree /\ checkpoints' = chk.checkpoints /\ voting' = chk.voting
                /\ finalizedPayloadBlockHash' = chk.hash
        /\ weights' = IF newFull /\ ~i.err THEN freshFullWeight(i.weights, r) ELSE i.weights
        /\ epochs' = i.epochs
        /\ boost' = i.boost
        /\ payloadVotes' = i.payloadVotes
        /\ heads' = i.heads
        /\ block' = [x \in Known \cup {r} |-> IF x = r THEN b ELSE block[x]]
        /\ UNCHANGED <<clock, proposals>>

InsertPayload(r) ==
    /\ r \in tree.empty \ tree.full
    /\ tree' = makeFull(tree, r)
    /\ weights' = updateNewFullNodeWeight(voting, weights, r)
    /\ UNCHANGED <<clock, block, epochs, checkpoints, boost, voting, heads,
                   payloadVotes, proposals, finalizedPayloadBlockHash>>

MarkFullNode(r) ==
    /\ r \in tree.empty \ tree.full
    /\ tree' = makeFull(tree, r)
    /\ weights' = freshFullWeight(weights, r)
    /\ UNCHANGED <<clock, block, epochs, checkpoints, boost, voting, heads,
                   payloadVotes, proposals, finalizedPayloadBlockHash>>

-----------------------------------------------------------------------------
(* Execution status.                                                       *)

SetOptimisticToValid(r) ==
    /\ r \in tree.empty
    /\ tree' = setNodeAndParentValidated(tree, IF r \in tree.full THEN Full(r) ELSE Empty(r))
    /\ UNCHANGED <<clock, block, epochs, checkpoints, boost, weights, voting,
                   heads, payloadVotes, proposals, finalizedPayloadBlockHash>>

SetOptimisticToInvalid(r, parentRoot, hash, lastValidHash) ==
    \E pn \in invalidNodes(tree, r, parentRoot, hash, lastValidHash) :
        LET result == removeNode(tree, pn) IN
        /\ tree' = result.tree
        /\ boost' = unboosted(boost, result.removed)
        /\ rejected' = IF result.err THEN rejected
                       ELSE rejected \cup result.removed \cup {RootOf(pn)}
        /\ UNCHANGED <<currentSlot, tickedSlot, block, epochs, checkpoints, weights, voting,
                       heads, payloadVotes, proposals, finalizedPayloadBlockHash>>

-----------------------------------------------------------------------------
(* The start of a slot.                                                    *)

\* Nodes whose unrealized epochs have become their epochs.
realized(done) ==
    [r \in Roots |->
        IF r \in done
        THEN [epochs[r] EXCEPT !.justified = epochs[r].unrealizedJustified,
                               !.finalized = epochs[r].unrealizedFinalized]
        ELSE epochs[r]]

\* The nodes whose unrealized checkpoint beats the one of the store.
justifying(nodes) ==
    {r \in nodes : epochs[r].unrealizedJustified > checkpoints.justified.epoch}
finalizing(nodes) ==
    {r \in nodes : epochs[r].unrealizedFinalized > checkpoints.finalized.epoch}

realizedCheckpoints(justifiers, finalizers) ==
    [checkpoints EXCEPT
        !.justified = IF justifiers = {} THEN @ ELSE checkpoints.unrealizedJustified,
        !.finalized = IF finalizers = {} THEN @ ELSE checkpoints.unrealizedFinalized]

updateUnrealizedCheckpoints ==
    /\ epochs' = realized(tree.empty)
    /\ checkpoints' = realizedCheckpoints(justifying(tree.empty), finalizing(tree.empty))
    /\ voting' = IF justifying(tree.empty) = {} THEN voting
                 ELSE [voting EXCEPT !.justifiedBalances =
                                        balancesByRoot(checkpoints.unrealizedJustified.root)]
    /\ tree' = prune(tree, checkpoints'.finalized).tree
    /\ finalizedPayloadBlockHash' = finalizedHash(tree, checkpoints'.finalized)

\* The balances of the new justified checkpoint are not found: the loop over
\* the map stops at the node `at' with the nodes `done' behind it, and the
\* tree is not pruned.
updateUnrealizedFails ==
    \E at \in justifying(tree.empty) :
    \E done \in SUBSET (tree.empty \ justifying(tree.empty)) :
        /\ epochs' = realized(done \cup {at})
        /\ checkpoints' = realizedCheckpoints({at}, finalizing(done))
        /\ UNCHANGED <<voting, tree, finalizedPayloadBlockHash>>

\* MUTANT: the ticker is a slot early.
slotIsDueEarly == tickedSlot <= currentSlot

\* The ticker fires once for each slot, when it has begun.
slotIsDue == tickedSlot < currentSlot

\* MUTANT: the boost is kept into the next slot.
keepProposerBoostRoot(b) == b

resetProposerBoostRoot(b) == [b EXCEPT !.root = ZeroHash]

NewSlot ==
    /\ slotIsDue
    /\ tickedSlot' = tickedSlot + 1
    /\ boost' = resetProposerBoostRoot(boost)
    /\ \/ /\ SinceEpochStarts(tickedSlot + 1) # 0
          /\ UNCHANGED <<tree, epochs, checkpoints, voting, finalizedPayloadBlockHash>>
       \/ /\ SinceEpochStarts(tickedSlot + 1) = 0
          /\ justifying(tree.empty) # {} => FALSE \in BalanceErrors
          /\ updateUnrealizedCheckpoints
       \/ /\ SinceEpochStarts(tickedSlot + 1) = 0
          /\ TRUE \in BalanceErrors
          /\ updateUnrealizedFails
    /\ UNCHANGED <<currentSlot, rejected, block, weights, heads, payloadVotes, proposals>>

-----------------------------------------------------------------------------
(* Votes.                                                                  *)

ProcessAttestation(index, root, slot, payloadStatus) ==
    /\ ~(payloadStatus /\ IsGloas(slot) /\ root \in tree.empty /\ tree.slot[root] = slot)
    /\ voting' = [voting EXCEPT !.votes = votedAt(@, index, root, slot, payloadStatus)]
    /\ UNCHANGED <<clock, block, tree, epochs, checkpoints, boost, weights,
                   heads, payloadVotes, proposals, finalizedPayloadBlockHash>>

InsertSlashedIndex(index) ==
    /\ index \notin voting.slashed
    /\ voting' = [voting EXCEPT !.slashed = @ \cup {index}]
    /\ weights' = slashedVote(tree, voting, weights, index)
    /\ UNCHANGED <<clock, block, tree, epochs, checkpoints, boost, heads,
                   payloadVotes, proposals, finalizedPayloadBlockHash>>

SetPTCVote(r, member, payloadPresent, blobDataAvailable) ==
    LET set(S, bit) == IF bit THEN S \cup {member} ELSE S \ {member}
    IN  /\ r \in tree.empty
        /\ payloadVotes' = [payloadVotes EXCEPT
                ![r] = [attesters |-> @.attesters \cup {member},
                        present |-> set(@.present, payloadPresent),
                        available |-> set(@.available, blobDataAvailable)]]
        /\ UNCHANGED <<clock, block, tree, epochs, checkpoints, boost, weights,
                       voting, heads, proposals, finalizedPayloadBlockHash>>

\* At most two roots are kept.
RecordBlockForEquivocation(r, slot, proposer) ==
    /\ proposals' = [proposals EXCEPT ![<<slot, proposer>>] =
                        IF Cardinality(@) >= 2 THEN @ ELSE @ \cup {r}]
    /\ UNCHANGED <<clock, block, tree, epochs, checkpoints, boost, weights,
                   voting, heads, payloadVotes, finalizedPayloadBlockHash>>

-----------------------------------------------------------------------------
(* Head.                                                                   *)

\* The node the walk starts from, the zero root when it is not known.
justifiedNode ==
    IF checkpoints.justified.root \in tree.empty THEN checkpoints.justified.root
    ELSE IF checkpoints.justified.epoch = 0 THEN tree.root
    ELSE ZeroHash

head(best) ==
    LET found == orSelf(best[justifiedNode], justifiedNode)
        viable == viableForHead(epochs[found].justified, checkpoints.justified.epoch,
                                ToEpoch(currentSlot))
    IN  [heads EXCEPT
            !.bestDescendant = best,
            !.headNode = IF justifiedNode # ZeroHash /\ viable THEN found ELSE @,
            !.allTipsAreInvalid = IF justifiedNode = ZeroHash THEN @ ELSE ~viable]

\* The store's Head, which the service calls after each import and, through
\* UpdateHead, at each slot.
UpdateHead ==
    LET moved == movedVotes(tree, voting, weights)
        v == rotatedVotes(voting)
        unboostedWeights == removePreviousProposerBoost(tree, boost, moved)
        score == proposerScore(tree, boost, unboostedWeights, v, proposals,
                               [r \in Known |-> block[r].proposer], currentSlot)
        bo == [boost EXCEPT !.previousRoot = boost.root, !.previousScore = score]
        summed == applyWeightChanges(tree, applyNewProposerBoost(boost, unboostedWeights, score))
        w == removeProposerBoostFromParent(tree, bo, summed, currentSlot)
    IN  /\ UNCHANGED <<clock, block, tree, epochs, checkpoints, payloadVotes,
                       proposals, finalizedPayloadBlockHash>>
        /\ voting' = v
        /\ boost' = bo
        /\ weights' = w
        /\ heads' = head(BestDescendants(tree, w, bo, payloadVotes, epochs, checkpoints,
                                         heads.bestDescendant))

\* The best descendant of the last head, or the head itself.
latestHead == orSelf(heads.bestDescendant[heads.headNode], heads.headNode)

IsCanonical(r) ==
    r \in tree.empty /\ orSelf(heads.bestDescendant[r], r) = latestHead

ReceivedBlocksLastEpoch ==
    LET lowerBound == IF currentSlot > SlotsPerEpoch THEN currentSlot - SlotsPerEpoch ELSE currentSlot
    IN  Cardinality({i \in DOMAIN heads.receivedBlocksLastEpoch :
            /\ heads.receivedBlocksLastEpoch[i] # 0
            /\ lowerBound <= heads.receivedBlocksLastEpoch[i]})

-----------------------------------------------------------------------------
(* The blocks, attestations and verdicts that the service brings.          *)

\* r is the lowest root that no block has yet.
IsNew(r) == r \notin Known /\ \A x \in Roots \ Known : r <= x

\* The payload nodes a new block can build on: before Gloas every block builds
\* on its parent's payload.
Parents ==
    {pn \in PayloadNodes :
        /\ RootOf(pn) \in tree.empty
        /\ IF IsFull(pn) THEN RootOf(pn) \in tree.full ELSE IsGloas(tree.slot[RootOf(pn)])}

Descends(r, ancestor) ==
    ancestor = ZeroHash \/ r = ancestor \/ (r # ZeroHash /\ ancestor \in RootsOn(tree, r))

\* The state of a block r at `slot' on the block p, before the attestations of
\* the block.  Bound: blocks are at most two epochs apart.
StateBefore(r, p, slot) ==
    LET parentEpoch == ToEpoch(block[p].slot)
        st == block[p].state
        oneOn == ProcessJustificationAndFinalization(st, parentEpoch)
        at == IF ToEpoch(slot) = parentEpoch THEN st
              ELSE IF ToEpoch(slot) = parentEpoch + 1 THEN oneOn
              ELSE ProcessJustificationAndFinalization(oneOn, parentEpoch + 1)
    IN  [at EXCEPT !.roots = [e \in Epochs |-> IF EpochStart(e) >= slot THEN r ELSE @[e]]]

WithTargets(st, prev, curr) == [st EXCEPT !.prevTarget = prev, !.currTarget = curr]

\* What the votes in the block may add: the target of the previous epoch, or of
\* the current one when the votes of two thirds of its slots can be included.
StatesAfter(st, slot) ==
    LET mayJustify(epoch) == ToEpoch(AnchorSlot) <= epoch /\ epoch <= MaxJustified /\ epoch > 0
    IN  {s \in {WithTargets(st, p, c) : p, c \in BOOLEAN} :
            /\ st.prevTarget => s.prevTarget
            /\ s.prevTarget /\ ~st.prevTarget => ToEpoch(slot) > 0 /\ mayJustify(ToEpoch(slot) - 1)
            /\ st.currTarget => s.currTarget
            /\ s.currTarget => /\ mayJustify(ToEpoch(slot))
                               /\ SinceEpochStarts(slot) * 3 >= SlotsPerEpoch * 2}

\* The votes for the anchor, which was finalized by the epoch after its own.
AnchorVotes ==
    {v \in [source : {BeforeAnchor(1)}, target : {AnchorCheckpoint}] : AnchorSlot > 0}
FinalizesAnchor(votes) ==
    AnchorSlot > 0 => \A v \in votes :
        v.target.epoch > ToEpoch(AnchorSlot) => v.source.epoch >= ToEpoch(AnchorSlot)

\* Less than a third of the validators break the rules.
Accountable(st, slot) ==
    LET votes == AnchorVotes \cup Votes(st, ToEpoch(slot)) \cup
                 UNION {Votes(block[x].state, ToEpoch(block[x].slot)) : x \in Known}
    IN  NobodySlashable(votes) /\ FinalizesAnchor(votes)

NewBlocks(r, pn, slot) ==
    {[parent |-> pn, slot |-> slot, proposer |-> p, state |-> st] :
        p \in Proposers,
        st \in {x \in StatesAfter(StateBefore(r, RootOf(pn), slot), slot) : Accountable(x, slot)}}

\* The service refuses blocks that are not later than the finalized slot.
LaterThanFinalized(slot) == slot > EpochStart(checkpoints.finalized.epoch)

SlotsAfter(pn) ==
    {s \in BlockSlots :
        /\ tree.slot[RootOf(pn)] < s /\ s <= currentSlot /\ LaterThanFinalized(s)
        /\ ToEpoch(s) <= ToEpoch(tree.slot[RootOf(pn)]) + 2}

ImportBlock ==
    \E r \in {x \in Roots : IsNew(x)}, pn \in Parents : \E slot \in SlotsAfter(pn) :
    \E b \in NewBlocks(r, pn, slot), timely \in {x \in BOOLEAN : x => slot = currentSlot} :
    \E balanceErr \in BalanceErrors, unrealizedErr \in UnrealizedErrors :
        InsertNode(r, b, timely, balanceErr, unrealizedErr)

\* A block that was made before comes again: a duplicate, or a retry.  One that
\* was removed comes back as a new object, which its root tells from the old
\* one only when no node of the store builds on that.
ReimportBlock ==
    \E r \in {x \in Known \ ({Anchor} \cup rejected) :
                /\ LaterThanFinalized(block[x].slot)
                /\ x \in tree.empty \/ \A y \in tree.empty : x \notin RootsOn(tree, y)} :
    \E balanceErr \in BalanceErrors, unrealizedErr \in UnrealizedErrors :
        InsertNode(r, block[r], FALSE, balanceErr, unrealizedErr)

ImportChain ==
    \E r \in {x \in Roots : IsNew(x)}, pn \in Parents : \E slot \in SlotsAfter(pn) :
    \E b \in NewBlocks(r, pn, slot), hasPayload \in {x \in BOOLEAN : x => IsGloas(slot)} :
    \E balanceErr \in BalanceErrors :
        InsertChain(r, b, FALSE, hasPayload, balanceErr)

\* The engine does not change its mind: what it rejected is not imported again.
ImportPayload == \E r \in Known \ rejected : IsGloas(tree.slot[r]) /\ InsertPayload(r)

\* At startup for the root of the tree, and for the parent of the first block that is
\* missing when a block builds on its payload: the full node is made without the votes.
MarkFull == \E r \in Known \ rejected : IsGloas(tree.slot[r]) /\ MarkFullNode(r)

\* The payload hash that a block on pn names as its parent's.
HashUnder(pn) ==
    LET fulls == {q \in {pn} \cup tree.path[RootOf(pn)] : IsFull(q)}
    IN  IF fulls = {} THEN ZeroHash
        ELSE RootOf(CHOOSE q \in fulls : \A f \in fulls : tree.slot[RootOf(f)] <= tree.slot[RootOf(q)])

EngineValid == \E r \in Known : SetOptimisticToValid(r)

\* The engine rejects the payload of a known block, or of one that has not been
\* imported (the zero root), and names any block as the last valid one.
EngineInvalid ==
    \E lastValidHash \in Known \cup {ZeroHash} :
        \/ \E r \in Known \ {Anchor} :
              LET pn == block[r].parent
              IN  SetOptimisticToInvalid(r, RootOf(pn), HashUnder(pn), lastValidHash)
        \/ \E pn \in Parents :
              SetOptimisticToInvalid(ZeroHash, RootOf(pn), HashUnder(pn), lastValidHash)

\* An attestation counts from the slot after its own.
Attest ==
    \E index \in Validators, r \in tree.empty :
    \E slot \in {s \in VoteSlots : tree.slot[r] <= s /\ s < currentSlot} :
    \E payloadStatus \in (IF IsGloas(slot) THEN BOOLEAN ELSE {TRUE}) :
        ProcessAttestation(index, r, slot, payloadStatus)

Slash == \E index \in Validators : InsertSlashedIndex(index)

PayloadAttest ==
    \E r \in {x \in tree.empty : IsGloas(tree.slot[x]) /\ tree.slot[x] \in VoteSlots} :
    \E member \in PTC, present, available \in BOOLEAN : SetPTCVote(r, member, present, available)

\* The gossip validation sees a second block of the proposer of a known one,
\* which is never imported: the zero root stands for it.
Equivocate ==
    \E sibling \in tree.empty :
        /\ tree.slot[sibling] \in VoteSlots
        /\ RecordBlockForEquivocation(ZeroHash, tree.slot[sibling], block[sibling].proposer)

Next ==
    \/ Tick \/ NewSlot
    \/ ImportBlock \/ ReimportBlock \/ ImportChain \/ ImportPayload \/ MarkFull
    \/ EngineValid \/ EngineInvalid
    \/ Attest \/ Slash \/ PayloadAttest \/ Equivocate
    \/ UpdateHead

Spec == Init /\ [][Next]_vars

-----------------------------------------------------------------------------
(* What the store keeps.                                                   *)

\* The shape of the store: what the fields and the maps hold.
TypeOK ==
    /\ currentSlot \in Slots /\ tickedSlot \in Slots
    /\ Known \subseteq Roots /\ \A r \in Known : block[r] \in Blocks
    /\ tree \in Trees
    /\ checkpoints \in [justified : Checkpoints, finalized : Checkpoints,
                        unrealizedJustified : Checkpoints, unrealizedFinalized : Checkpoints]
    /\ boost.root \in OptRoots /\ boost.previousRoot \in OptRoots

-----------------------------------------------------------------------------
(* The tree.                                                               *)

IsLive(pn) == RootOf(pn) \in tree.empty /\ (IsFull(pn) => RootOf(pn) \in tree.full)

\* A node is validated only on top of validated nodes: what IsOptimistic says of
\* a block follows from one node, with the marking stopping at the first
\* validated ancestor (setNodeAndParentValidated) and a new empty node copying
\* its parent's status (insert).
OptimisticAncestry ==
    /\ \A r \in tree.empty : tree.parent[r] # NoNode /\ ~tree.optimistic[Empty(r)] =>
            ~tree.optimistic[tree.parent[r]]
    /\ \A r \in tree.full : ~tree.optimistic[Full(r)] => ~tree.optimistic[Empty(r)]

\* The walks down the tree look every child up in emptyNodeByRoot and use the
\* result unchecked: the children of a live node are in the map, point back at
\* it, and a full node never outlives its empty node.
ChildrenKnown ==
    /\ tree.root \in tree.empty
    /\ tree.full \subseteq tree.empty
    /\ \A pn \in PayloadNodes : IsLive(pn) =>
          \A c \in tree.children[pn] : c \in tree.empty /\ tree.parent[c] = pn

\* Until the engine rejects a payload, the maps hold exactly the tree: nothing
\* that insert, prune or a failed lookup leaves behind is out of reach of the
\* walks from the root.
NoOrphans == tree.empty = Reachable(tree)

\* A validated block leaves the store only by pruning: neither an engine verdict
\* (SetOptimisticToInvalid) nor the undoing of a failed import removes it,
\* whatever they name.
ValidatedStays ==
    [][\A r \in tree.empty \ tree'.empty :
            tree.optimistic[Empty(r)] \/ tree'.root # tree.root]_vars

-----------------------------------------------------------------------------
(* Checkpoints and pruning.                                                *)

\* Time only moves the checkpoints forward: whichever of InsertNode (through
\* pullTips and updateCheckpoints), InsertChain and NewSlot comes first.
CheckpointsAdvance ==
    [][/\ checkpoints'.justified.epoch >= checkpoints.justified.epoch
       /\ checkpoints'.finalized.epoch >= checkpoints.finalized.epoch]_vars

\* The walk of head starts at the justified block: it is in the store, with the
\* finalized block, under it.
JustifiedKnown ==
    /\ checkpoints.justified.root \in tree.empty
    /\ Descends(checkpoints.justified.root, checkpoints.finalized.root)

\* prune leaves the finalized block as the root of the tree and nothing that
\* does not build on it.
PrunedToFinalized ==
    /\ tree.root = checkpoints.finalized.root
    /\ tree.parent[tree.root] = NoNode
    /\ \A r \in tree.empty : Descends(r, tree.root)

\* The checkpoint is the finalized block at the start of the finalized epoch.
CompatibleWithFinalized ==
    \A r \in tree.empty \ {tree.root} : tree.slot[r] > EpochStart(checkpoints.finalized.epoch)

\* When the finalized block changes, prune also takes the children of the new
\* root that are too old to have the checkpoint in their chain, of its empty
\* and of its full node, with all that is below them.
PruneDropsIncompatible == [][tree'.root # tree.root => CompatibleWithFinalized']_vars

\* The last block of the chain of r that satisfies P.
LastOf(r, P(_)) ==
    LET chain == {x \in {r} \cup RootsOn(tree, r) : P(x)}
    IN  IF chain = {} THEN ZeroHash
        ELSE CHOOSE x \in chain : \A y \in chain : tree.slot[y] <= tree.slot[x]

\* For the epochs after the finalized one, and for every block of the tree,
\* targetRootForEpoch finds the last block at or before the start of the epoch
\* and dependentRootForEpoch the last one before it, though both hop over
\* target pointers that prune cuts.
DependentRootsCorrect ==
    \A r \in tree.empty : \A e \in checkpoints.finalized.epoch + 1 .. ToEpoch(currentSlot) + 1 :
        /\ targetRootForEpoch(tree, r, e) =
                RootFound(LastOf(r, LAMBDA x : tree.slot[x] <= EpochStart(e)))
        /\ dependentRootForEpoch(tree, r, e) =
                RootFound(LastOf(r, LAMBDA x : tree.slot[x] < EpochStart(e)))

\* The boost does not outlive its slot, however the wall clock, the ticker and
\* the imports interleave: Head, shouldExtendPayload and
\* removeProposerBoostFromParent use the parent of the boosted node unchecked,
\* and a boosted block that old could have been finalized and have none.
BoostIsTimely == boost.root # ZeroHash => tree.slot[boost.root] >= tickedSlot

\* The early exit of pullTips is exact: the unrealized epochs that a node
\* inherits from its parent are those of its own state.
UnrealizedExact ==
    \A r \in tree.empty :
        LET pulled == UnrealizedCheckpoints(block[r].state, ToEpoch(block[r].slot))
        IN  r # Anchor => /\ epochs[r].unrealizedJustified = pulled.jc.epoch
                          /\ epochs[r].unrealizedFinalized = pulled.fc.epoch

-----------------------------------------------------------------------------
(* Votes, boost and head.                                                  *)

Unslashed == {i \in DOMAIN voting.votes : i - 1 \notin voting.slashed}

\* The balances behind the counted votes that `at' selects.
Counted(at(_)) ==
    MapThenSumSet(LAMBDA i : balanceAt(voting.balances, i), {i \in Unslashed : at(voting.votes[i])})

\* Through any order of attestations, slashings, payloads, justified balances
\* that change, and boosts that come and go, a node holds the balances of the
\* latest counted votes for its block without payload, the pending votes (for a
\* block in its own slot) and the boost apart from the others.
EmptyVotesCounted ==
    \A r \in tree.empty :
        /\ weights.balance[Empty(r)] =
              Counted(LAMBDA v : v.currentRoot = r /\ ~v.currentPayloadStatus /\ v.currentSlot # tree.slot[r])
        /\ weights.nodeBalance[r] =
              Counted(LAMBDA v : v.currentRoot = r /\ ~v.currentPayloadStatus /\ v.currentSlot = tree.slot[r])
              + (IF r = boost.previousRoot THEN boost.previousScore ELSE 0)

\* The same for the votes with payload.
FullVotesCounted ==
    \A r \in tree.full :
        weights.balance[Full(r)] = Counted(LAMBDA v : v.currentRoot = r /\ v.currentPayloadStatus)

\* LMD-GHOST from the votes: the balances in the justified state of the latest
\* messages that are for a block `at' selects, by the node they resolve to.
Attesting(at(_)) ==
    LET node(i) == next(tree, voting.votes[i])
    IN  MapThenSumSet(LAMBDA i : balanceAt(voting.justifiedBalances, i),
                      {i \in Unslashed : node(i).pn # NoNode /\ at(node(i))})

BlockWeight(r, score) ==
    Attesting(LAMBDA n : Descends(RootOf(n.pn), r))
    + (IF boost.root \in tree.empty /\ Descends(boost.root, r) THEN score ELSE 0)

\* A boosted block does not decide on the payload of a block of the slot before.
PayloadWeight(pn, score) ==
    Attesting(LAMBDA n : (n.pn = pn /\ ~n.pending) \/ pn \in tree.path[RootOf(n.pn)])
    + (IF /\ boost.root \in tree.empty /\ pn \in tree.path[boost.root]
          /\ ~(tree.parent[boost.root] = pn /\ tree.slot[RootOf(pn)] + 1 = currentSlot)
       THEN score ELSE 0)

ViableLeaves ==
    {r \in tree.empty : /\ \A x \in tree.empty : RootOf(tree.parent[x]) # r
                        /\ viableForHead(epochs[r].justified, checkpoints.justified.epoch,
                                         ToEpoch(currentSlot))}

\* The walk of the protocol's get_head over the filtered block tree: to the
\* payload status that wins, then to the heaviest block on it, the higher root
\* when two weigh the same.
GHOST(score) ==
    LET filtered == {r \in tree.empty : \E leaf \in ViableLeaves : Descends(leaf, r)}
        w == [weight |-> [pn \in PayloadNodes |-> PayloadWeight(pn, score)]]
        weight == [r \in Roots |-> BlockWeight(r, score)]
        walk[r \in Roots] ==
            LET pn == choosePayloadContent(tree, w, boost, payloadVotes, currentSlot, r)
                children == {c \in filtered : tree.parent[c] = pn}
            IN  IF children = {} THEN r
                ELSE walk[CHOOSE c \in children : \A o \in children \ {c} :
                            \/ weight[c] > weight[o]
                            \/ weight[c] = weight[o] /\ RootRank[c] > RootRank[o]]
    IN  walk[checkpoints.justified.root]

\* Head, which moves balances, weights and best descendants incrementally,
\* agrees with the protocol's definition computed from the votes, and before
\* Gloas boosts the timely block whatever else was seen.
HeadIsGHOST ==
    [][vars' # vars /\ UpdateHead =>
        /\ heads'.headNode =
              IF \E leaf \in ViableLeaves : Descends(leaf, checkpoints.justified.root)
              THEN GHOST(boost'.previousScore) ELSE heads.headNode
        /\ ~IsGloas(currentSlot) =>
              boost'.previousScore = IF boost.root = ZeroHash THEN 0
                                     ELSE (committeeWeight(voting) * ProposerScoreBoost) \div 100]_vars

-----------------------------------------------------------------------------
(* What comments of the code say and the store does not keep.              *)

\* FinalizedPayloadBlockHash returns the hash of the payload at the finalized
\* checkpoint: before Gloas, of the finalized block.
FinalizedHashKnown ==
    ~IsGloas(tree.slot[checkpoints.finalized.root]) =>
        finalizedPayloadBlockHash = checkpoints.finalized.root

\* The votes of slashed validators are not accounted for: a full node for which
\* nobody else has voted has no balance.
SlashedNotCounted ==
    \A r \in tree.full :
        (\A i \in Unslashed : voting.votes[i].currentRoot # r) => weights.balance[Full(r)] = 0

\* The unrealized justified checkpoint of the store is the best of its nodes,
\* which NewSlot makes the justified one.
UnrealizedIsBest ==
    \A r \in tree.empty \ {Anchor} :
        epochs[r].unrealizedJustified <= checkpoints.unrealizedJustified.epoch

\* blockRootsBySlotProposer is pruned at finalization.
ProposalsPruned ==
    \A k \in DOMAIN proposals : k[1] < EpochStart(checkpoints.finalized.epoch) => proposals[k] = {}

\* IsCanonical says that a block is part of the canonical chain: with the head
\* just computed, it says so of every block the head builds on.
AncestorsCanonical ==
    [][UpdateHead /\ ~heads'.allTipsAreInvalid =>
        \A r \in tree.empty : Descends(heads'.headNode, r) => IsCanonical(r)']_vars

\* ReceivedBlocksLastEpoch counts the blocks of the last epoch: at least the
\* slots of it that have one.
ReceivedCounted ==
    Cardinality({s \in Slots : s > 0 /\ s + SlotsPerEpoch > currentSlot /\
                    \E r \in Known : block[r].slot = s}) <= ReceivedBlocksLastEpoch

=============================================================================
