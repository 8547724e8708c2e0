-------------------------- MODULE ForkChoiceHead --------------------------
(***************************************************************************)
(* Votes, balances, proposer boost, weights and the best descendant of the *)
(* fork choice store: what Head computes.  The operators take the tree t   *)
(* and the records below, and return the record after.                     *)
(*                                                                         *)
(*   w   weights: nodeBalance and nodeWeight of the consensus nodes (the   *)
(*       pending votes), balance and weight of the payload nodes           *)
(*   v   votes: the latest messages, the balances they were counted with,  *)
(*       the balances of the justified state, the slashed indices          *)
(*   b   proposer boost: proposerBoostRoot, previousProposerBoostRoot and  *)
(*       previousProposerBoostScore                                        *)
(***************************************************************************)
EXTENDS ForkChoiceTree

CONSTANTS
    RootRank,                 \* the order of bytes.Compare on roots
    BalancesOf,               \* the balances of the state of each block
    ProposerScoreBoost,       \* percentage of the committee weight
    ReorgHeadWeightThreshold, \* percentage of the committee weight
    PTC                       \* the payload timeliness committee

ASSUME BalancesAssumption ==
    /\ BalancesOf \in [Roots -> Seq(Nat)]
    /\ RootRank \in [Roots -> Nat]
    /\ \A q, r \in Roots : RootRank[q] = RootRank[r] => q = r
    /\ ProposerScoreBoost \in Nat /\ ReorgHeadWeightThreshold \in Nat
    /\ IsFiniteSet(PTC)

Vote == [currentRoot : OptRoots, nextRoot : OptRoots,
         currentSlot : Slots, nextSlot : Slots,
         currentPayloadStatus : BOOLEAN, nextPayloadStatus : BOOLEAN]

NoVote == [currentRoot |-> ZeroHash, nextRoot |-> ZeroHash,
           currentSlot |-> 0, nextSlot |-> 0,
           currentPayloadStatus |-> FALSE, nextPayloadStatus |-> FALSE]

NoWeights == [nodeBalance |-> [r \in Roots |-> 0], nodeWeight |-> [r \in Roots |-> 0],
              balance |-> [pn \in PayloadNodes |-> 0], weight |-> [pn \in PayloadNodes |-> 0]]

Minus(x, y) == IF x < y THEN 0 ELSE x - y

-----------------------------------------------------------------------------
(* Balances.  Validator index i is the place i + 1 of the sequences.       *)

\* MUTANT: a vote for a block in its own slot counts as a vote without payload.
resolveVoteNodeUnpending(t, r, slot, payloadStatus) ==
    IF r \notin t.empty THEN [pn |-> NoNode, pending |-> TRUE]
    ELSE IF payloadStatus
         THEN [pn |-> IF r \in t.full THEN Full(r) ELSE NoNode, pending |-> FALSE]
    ELSE [pn |-> Empty(r), pending |-> FALSE]

\* Where a vote counts: a payload node (NoNode if the code finds none), and
\* whether it counts on the consensus node instead.
resolveVoteNode(t, r, slot, payloadStatus) ==
    IF r \notin t.empty THEN [pn |-> NoNode, pending |-> TRUE]
    ELSE IF payloadStatus
         THEN [pn |-> IF r \in t.full THEN Full(r) ELSE NoNode, pending |-> FALSE]
    ELSE [pn |-> Empty(r), pending |-> slot = t.slot[r]]

credit(w, at, amount) ==
    IF at.pn = NoNode THEN w
    ELSE IF at.pending THEN [w EXCEPT !.nodeBalance[RootOf(at.pn)] = @ + amount]
    ELSE [w EXCEPT !.balance = [@ EXCEPT ![at.pn] = @ + amount]]

debit(w, at, amount) ==
    IF at.pn = NoNode THEN w
    ELSE IF at.pending THEN [w EXCEPT !.nodeBalance[RootOf(at.pn)] = Minus(@, amount)]
    ELSE [w EXCEPT !.balance = [@ EXCEPT ![at.pn] = Minus(@, amount)]]

balanceAt(balances, i) == IF i \in DOMAIN balances THEN balances[i] ELSE 0

\* Votes that updateBalances passes over.
skipped(v, i) ==
    \/ i - 1 \in v.slashed
    \/ v.votes[i].currentRoot = ZeroHash /\ v.votes[i].nextRoot = ZeroHash

current(t, vote) == resolveVoteNode(t, vote.currentRoot, vote.currentSlot, vote.currentPayloadStatus)
next(t, vote) == resolveVoteNode(t, vote.nextRoot, vote.nextSlot, vote.nextPayloadStatus)

\* MUTANT: the new balance is taken from the old target.
moveVoteAtNewBalance(t, v, w, i) ==
    LET vote == v.votes[i]
        old == balanceAt(v.balances, i)
        new == balanceAt(v.justifiedBalances, i)
    IN  IF skipped(v, i) \/ (old = new /\ vote.currentSlot = vote.nextSlot) THEN w
        ELSE debit(credit(w, next(t, vote), new), current(t, vote), new)

\* The vote at place i: the new balance to the new target, then the old
\* balance from the old one.
moveVote(t, v, w, i) ==
    LET vote == v.votes[i]
        old == balanceAt(v.balances, i)
        new == balanceAt(v.justifiedBalances, i)
    IN  IF skipped(v, i) \/ (old = new /\ vote.currentSlot = vote.nextSlot) THEN w
        ELSE debit(credit(w, next(t, vote), new), current(t, vote), old)

movedVotes(t, v, w) ==
    LET upTo[i \in 0..Len(v.votes)] == IF i = 0 THEN w ELSE moveVote(t, v, upTo[i - 1], i)
    IN  upTo[Len(v.votes)]

rotated(vote) ==
    [vote EXCEPT !.currentRoot = vote.nextRoot, !.currentSlot = vote.nextSlot,
                 !.currentPayloadStatus = vote.nextPayloadStatus]

rotatedVotes(v) ==
    [v EXCEPT !.votes = [i \in DOMAIN @ |-> IF skipped(v, i) THEN @[i] ELSE rotated(@[i])],
              !.balances = v.justifiedBalances]

\* The vote of a slashed validator is taken back, unless no balance was ever
\* counted for it.
slashedVote(t, v, w, index) ==
    IF index + 1 \in DOMAIN v.balances \cap DOMAIN v.votes
    THEN debit(w, current(t, v.votes[index + 1]), v.balances[index + 1])
    ELSE w

\* The votes that updateNewFullNodeWeight counts for the new full node of r.
countedForFull(v, r) ==
    {i \in DOMAIN v.votes \cap DOMAIN v.balances :
        v.votes[i].currentRoot = r /\ v.votes[i].nextPayloadStatus}

\* MUTANT: the votes that were waiting for the payload are forgotten.
newFullNodeUnweighted(v, w, r) ==
    [w EXCEPT !.balance = [@ EXCEPT ![Full(r)] = 0],
              !.weight = [@ EXCEPT ![Full(r)] = 0]]

updateNewFullNodeWeight(v, w, r) ==
    LET sum == MapThenSumSet(LAMBDA i : v.balances[i], countedForFull(v, r))
    IN  [w EXCEPT !.balance = [@ EXCEPT ![Full(r)] = sum],
                  !.weight = [@ EXCEPT ![Full(r)] = sum]]

\* A new node starts with no votes.
freshWeights(w, r) ==
    [w EXCEPT !.nodeBalance[r] = 0, !.nodeWeight[r] = 0,
              !.balance = [@ EXCEPT ![Empty(r)] = 0, ![Full(r)] = 0],
              !.weight = [@ EXCEPT ![Empty(r)] = 0, ![Full(r)] = 0]]

freshFullWeight(w, r) ==
    [w EXCEPT !.balance = [@ EXCEPT ![Full(r)] = 0],
              !.weight = [@ EXCEPT ![Full(r)] = 0]]

\* One validator's attestation.  The votes grow up to its index, and only a
\* vote that is allocated by this call may be set without a higher epoch.
grown(votes, index) ==
    [i \in 1..(IF index < Len(votes) THEN Len(votes) ELSE index + 1) |->
        IF i \in DOMAIN votes THEN votes[i] ELSE NoVote]

votedAt(votes, index, root, slot, payloadStatus) ==
    LET all == grown(votes, index)
    IN  IF index < Len(votes) /\ ToEpoch(slot) <= ToEpoch(all[index + 1].nextSlot) THEN all
        ELSE [all EXCEPT ![index + 1].nextSlot = slot, ![index + 1].nextRoot = root,
                         ![index + 1].nextPayloadStatus = payloadStatus]

-----------------------------------------------------------------------------
(* Proposer boost.                                                         *)

committeeWeight(v) ==
    MapThenSumSet(LAMBDA i : v.justifiedBalances[i], DOMAIN v.justifiedBalances)
        \div SlotsPerEpoch

\* MUTANT: the boost of the last call stays.
keepPreviousProposerBoost(t, b, w) == w

removePreviousProposerBoost(t, b, w) ==
    IF b.previousRoot \notin t.empty THEN w
    ELSE [w EXCEPT !.nodeBalance[b.previousRoot] = Minus(@, b.previousScore)]

\* `proposals' is blockRootsBySlotProposer, `proposer' the block proposers.
shouldApplyProposerBoost(t, b, w, v, proposals, proposer, slot) ==
    LET r == b.root
        p == RootOf(t.parent[r])
    IN  /\ r # ZeroHash
        /\ \/ ~IsGloas(slot)
           \/ /\ r \in t.empty
              /\ \/ t.parent[r] = NoNode
                 \/ t.slot[p] + 1 # t.slot[r]
                 \/ w.nodeWeight[p] * 100 >= committeeWeight(v) * ReorgHeadWeightThreshold
                 \/ proposals[t.slot[p], proposer[p]] \subseteq {p}

\* MUTANT: the committee weight is divided before it is multiplied.
proposerScoreRounded(t, b, w, v, proposals, proposer, slot) ==
    IF shouldApplyProposerBoost(t, b, w, v, proposals, proposer, slot) /\ b.root \in t.empty
    THEN (committeeWeight(v) \div 100) * ProposerScoreBoost
    ELSE 0

proposerScore(t, b, w, v, proposals, proposer, slot) ==
    IF shouldApplyProposerBoost(t, b, w, v, proposals, proposer, slot) /\ b.root \in t.empty
    THEN (committeeWeight(v) * ProposerScoreBoost) \div 100
    ELSE 0

applyNewProposerBoost(b, w, score) ==
    IF b.root = ZeroHash THEN w ELSE [w EXCEPT !.nodeBalance[b.root] = @ + score]

\* MUTANT: the boosted block decides on its parent's payload.
keepProposerBoostOnParent(t, b, w, slot) == w

\* p.weight is the weight of the payload node the boosted block builds on.
removeProposerBoostFromParent(t, b, w, slot) ==
    IF b.root \notin t.empty THEN w
    ELSE LET p == t.parent[b.root]
         IN  IF p = NoNode \/ t.slot[RootOf(p)] + 1 # slot THEN w
             ELSE [w EXCEPT !.weight = [@ EXCEPT ![p] = Minus(@, b.previousScore)]]

-----------------------------------------------------------------------------
(* Weights.  The code sums them from the leaves up; the sum of a subtree   *)
(* is the sum of what its nodes hold directly.                             *)

direct(t, w, r) ==
    w.nodeBalance[r] + w.balance[Empty(r)] + (IF r \in t.full THEN w.balance[Full(r)] ELSE 0)

subtreeWeight(t, w, nodes) == MapThenSumSet(LAMBDA x : direct(t, w, x), nodes)

applyWeightChanges(t, w) ==
    LET visited == Reachable(t)
    IN  [w EXCEPT
            !.nodeWeight = [r \in Roots |->
                IF r \in visited THEN subtreeWeight(t, w, {r} \cup ConsensusBelow(t, r)) ELSE @[r]],
            !.weight = [pn \in PayloadNodes |->
                IF RootOf(pn) \in visited /\ (IsFull(pn) => RootOf(pn) \in t.full)
                THEN w.balance[pn] + subtreeWeight(t, w, Below(t, pn)) ELSE @[pn]]]

-----------------------------------------------------------------------------
(* Best descendants.  `ptc' maps a root to the members of the committee    *)
(* that saw its payload and to those that saw its data.                    *)

viableForHead(nodeJustifiedEpoch, justifiedEpoch, currentEpoch) ==
    \/ justifiedEpoch = 0
    \/ nodeJustifiedEpoch = justifiedEpoch
    \/ nodeJustifiedEpoch + 2 >= currentEpoch

shouldExtendPayload(t, b, ptc, r) ==
    \/ /\ 2 * Cardinality(ptc[r].present) > Cardinality(PTC)
       /\ 2 * Cardinality(ptc[r].available) > Cardinality(PTC)
    \/ b.root \notin t.empty
    \/ RootOf(t.parent[b.root]) # r
    \/ IsFull(t.parent[b.root])

choosePayloadContent(t, w, b, ptc, slot, r) ==
    IF \/ r \notin t.full
       \/ w.weight[Full(r)] < w.weight[Empty(r)]
       \/ /\ w.weight[Full(r)] = w.weight[Empty(r)]
          /\ t.slot[r] + 1 = slot
          /\ ~shouldExtendPayload(t, b, ptc, r)
    THEN Empty(r) ELSE Full(r)

\* The heaviest of a set of siblings, the highest root among equals.
heaviest(w, siblings) ==
    CHOOSE c \in siblings : \A o \in siblings \ {c} :
        \/ w.nodeWeight[c] > w.nodeWeight[o]
        \/ w.nodeWeight[c] = w.nodeWeight[o] /\ RootRank[c] > RootRank[o]

\* What a node stands for in a comparison: its best descendant, or itself.
orSelf(best, r) == IF best = ZeroHash THEN r ELSE best

\* `epoch' maps a root to its justified epoch.
updateBestDescendant(t, w, b, ptc, slot, epoch, justifiedEpoch, old) ==
    LET leads(best, c) == viableForHead(epoch[orSelf(best, c)], justifiedEpoch, ToEpoch(slot))
        best[r \in Roots] ==
            LET pn == choosePayloadContent(t, w, b, ptc, slot, r)
                viable == {c \in t.children[pn] : leads(best[c], c)}
                child == heaviest(w, viable)
            IN  IF viable = {} THEN ZeroHash ELSE orSelf(best[child], child)
        visited == Reachable(t)
    IN  [r \in Roots |-> IF r \in visited THEN best[r] ELSE old[r]]

=============================================================================
