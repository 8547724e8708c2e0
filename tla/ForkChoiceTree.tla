-------------------------- MODULE ForkChoiceTree --------------------------
(***************************************************************************)
(* The block tree of the fork choice store, beacon-chain/forkchoice/       *)
(* doubly-linked-tree: consensus nodes, their empty and full payload       *)
(* nodes, the parent, child and target pointers and the optimistic status, *)
(* and the operations of the store on them.  An operator takes the tree    *)
(* before and returns the tree after, as the methods of Store do.          *)
(*                                                                         *)
(* Go pointers are modelled by roots.  A node that is deleted from the     *)
(* maps keeps its fields, the object lives on while somebody points at it: *)
(* t.empty and t.full are what the maps hold, the functions over Roots and *)
(* PayloadNodes are the heap.  A block hash is modelled by the root of its *)
(* block, because a block commits to exactly one payload.                  *)
(***************************************************************************)
EXTENDS Naturals, Sequences, FiniteSets, FiniteSetsExt

CONSTANTS
    Roots,           \* block roots, numbered in the order the blocks are made
    Anchor,          \* the root the store is started from
    AnchorSlot,      \* its slot
    MaxSlot,         \* bound: the last slot of the wall clock
    SlotsPerEpoch,
    GloasForkEpoch   \* the blocks of this epoch and later are Gloas blocks

ZeroHash == 0
PayloadNodes == Roots \X BOOLEAN
NoNode == <<ZeroHash, FALSE>>
OptRoots == Roots \cup {ZeroHash}
Slots == 0..MaxSlot
Epochs == 0..(MaxSlot \div SlotsPerEpoch)

ASSUME RootsAssumption ==
    /\ Roots \subseteq Nat \ {ZeroHash}
    /\ Anchor \in Roots
    /\ \A r \in Roots \ {Anchor} : r > Anchor
ASSUME TimeAssumption ==
    /\ MaxSlot \in Nat /\ AnchorSlot \in 0..MaxSlot
    /\ SlotsPerEpoch \in Nat \ {0} /\ GloasForkEpoch \in Nat

ToEpoch(slot) == slot \div SlotsPerEpoch
EpochStart(epoch) == epoch * SlotsPerEpoch
SinceEpochStarts(slot) == slot % SlotsPerEpoch
IsGloas(slot) == ToEpoch(slot) >= GloasForkEpoch

RootOf(pn) == pn[1]
IsFull(pn) == pn[2]
Empty(r) == <<r, FALSE>>
Full(r) == <<r, TRUE>>

Trees ==
    [empty : SUBSET Roots, full : SUBSET Roots,     \* emptyNodeByRoot, fullNodeByRoot
     root : Roots,                                  \* treeRootNode
     slot : [Roots -> Slots],
     parent : [Roots -> PayloadNodes \cup {NoNode}],
     path : [Roots -> SUBSET PayloadNodes],         \* what the block builds on, back to the anchor
     target : [Roots -> OptRoots],
     children : [PayloadNodes -> SUBSET Roots],
     optimistic : [PayloadNodes -> BOOLEAN],
     finalizedDependentRoot : OptRoots]

-----------------------------------------------------------------------------
(* Walks along the pointers.                                               *)

RootsOn(t, r) == {RootOf(q) : q \in t.path[r]}

\* The payload nodes a walk along the parent pointers from pn meets, pn
\* excluded.  The walk ends at a node whose parent is nil.
Above(t, pn) ==
    {q \in t.path[RootOf(pn)] :
        \A g \in {RootOf(pn)} \cup RootsOn(t, RootOf(pn)) :
            q \in t.path[g] => t.parent[g] # NoNode}

\* x is linked as a child of its parent payload node.
Linked(t, x) == t.parent[x] # NoNode /\ x \in t.children[t.parent[x]]

\* The nodes a walk along the children from the payload node pn meets.
Below(t, pn) ==
    {x \in Roots :
        /\ pn \in t.path[x]
        /\ \A g \in {x} \cup RootsOn(t, x) : pn \in t.path[g] => Linked(t, g)}

ConsensusBelow(t, r) ==
    Below(t, Empty(r)) \cup (IF r \in t.full THEN Below(t, Full(r)) ELSE {})

\* What a walk along the children from the tree root reaches.
Reachable(t) == {t.root} \cup ConsensusBelow(t, t.root)

allConsensusChildren(t, r) ==
    t.children[Empty(r)] \cup (IF r \in t.full THEN t.children[Full(r)] ELSE {})

hasConsensusChildren(t, r) == allConsensusChildren(t, r) # {}

tips(t) == {r \in t.empty : ~hasConsensusChildren(t, r)}

\* The first full payload node above pn, NoNode if there is none.
fullParent(t, pn) ==
    LET fulls == {q \in Above(t, pn) : IsFull(q)}
    IN  IF fulls = {} THEN NoNode
        ELSE CHOOSE q \in fulls : \A f \in fulls \ {q} : f \in t.path[RootOf(q)]

\* NoNode has the zero hash, which parentHash returns when no full node is found.
parentHash(t, pn) == RootOf(fullParent(t, pn))

checkpointPayloadHashForRoot(t, r) ==
    IF r \notin t.empty THEN ZeroHash
    ELSE IF ~IsGloas(t.slot[r]) THEN r
    ELSE parentHash(t, Empty(r))

-----------------------------------------------------------------------------
(* Growing the tree.                                                       *)

\* MUTANT: the target of the parent is taken over into the next epoch.
targetOfParent(t, r, slot, parent) ==
    IF SinceEpochStarts(slot) = 0 THEN r ELSE t.target[RootOf(parent)]

targetOf(t, r, slot, parent) ==
    IF SinceEpochStarts(slot) = 0 THEN r
    ELSE IF ToEpoch(slot) = ToEpoch(t.slot[RootOf(parent)])
         THEN t.target[RootOf(parent)]
         ELSE RootOf(parent)

\* The part of insert that makes the nodes of block r and links them under
\* the payload node `parent'.
insertNodes(t, r, slot, parent) ==
    [empty |-> t.empty \cup {r},
     full |-> IF IsGloas(slot) THEN t.full ELSE t.full \cup {r},
     root |-> t.root,
     slot |-> [t.slot EXCEPT ![r] = slot],
     parent |-> [t.parent EXCEPT ![r] = parent],
     path |-> [t.path EXCEPT ![r] = {parent} \cup t.path[RootOf(parent)]],
     target |-> [t.target EXCEPT ![r] = targetOf(t, r, slot, parent)],
     children |-> [t.children EXCEPT ![Empty(r)] = {}, ![Full(r)] = {}, ![parent] = @ \cup {r}],
     optimistic |-> [t.optimistic EXCEPT ![Empty(r)] = t.optimistic[parent], ![Full(r)] = TRUE],
     finalizedDependentRoot |-> t.finalizedDependentRoot]

\* A fresh full payload node for r, if there is none: InsertPayload,
\* MarkFullNode and the HasPayload branch of InsertChain.
makeFull(t, r) ==
    IF r \notin t.empty \/ r \in t.full THEN t
    ELSE [t EXCEPT !.full = @ \cup {r},
                   !.children = [@ EXCEPT ![Full(r)] = {}],
                   !.optimistic = [@ EXCEPT ![Full(r)] = TRUE]]

-----------------------------------------------------------------------------
(* Execution status.                                                       *)

\* MUTANT: only the node itself is marked.
validatedAlone(t, pn) == {pn}

\* The nodes setNodeAndParentValidated marks: up from pn, stopping at the
\* first one that is already validated.
validatedFrom(t, pn) ==
    LET chain == {pn} \cup Above(t, pn)
    IN  {q \in chain : /\ t.optimistic[q]
                       /\ \A g \in chain : q \in t.path[RootOf(g)] => t.optimistic[g]}

setNodeAndParentValidated(t, pn) ==
    LET marked == validatedFrom(t, pn)
    IN  [t EXCEPT !.optimistic =
            [q \in PayloadNodes |->
                @[q] /\ q \notin marked /\ ~(~IsFull(q) /\ Full(RootOf(q)) \in marked)]]

-----------------------------------------------------------------------------
(* Removing invalid nodes.  The operators return the tree, the roots whose *)
(* empty node was removed (invalidRoots in the code), and whether the      *)
(* operation failed.                                                       *)

Kept(t) == [tree |-> t, removed |-> {}, err |-> FALSE]
Refused(t) == [tree |-> t, removed |-> {}, err |-> TRUE]

\* The roots whose empty node removeNodeAndChildren deletes.
removedWith(t, pn) ==
    IF IsFull(pn) THEN Below(t, pn)
    ELSE {RootOf(pn)} \cup ConsensusBelow(t, RootOf(pn))

\* MUTANT: the full nodes of the descendants stay in their map.
removeEmptyAndChildren(t, pn) ==
    LET gone == removedWith(t, pn)
    IN  [tree |-> [t EXCEPT !.empty = @ \ gone, !.full = @ \ {RootOf(pn)}],
         removed |-> gone, err |-> FALSE]

removeNodeAndChildren(t, pn) ==
    LET gone == removedWith(t, pn)
    IN  [tree |-> [t EXCEPT !.empty = @ \ gone,
                            !.full = @ \ (gone \cup (IF IsFull(pn) THEN {RootOf(pn)} ELSE {}))],
         removed |-> gone, err |-> FALSE]

\* A list of one child is emptied without looking at the child.
unlinked(siblings, r) ==
    IF Cardinality(siblings) = 1 THEN {} ELSE siblings \ {r}

\* MUTANT: a validated node is removed too.
removeAnyNode(t, pn) ==
    LET parent == t.parent[RootOf(pn)]
    IN  IF parent = NoNode THEN Refused(t)
        ELSE removeNodeAndChildren(
                [t EXCEPT !.children =
                    [t.children EXCEPT ![parent] = unlinked(t.children[parent], RootOf(pn))]], pn)

removeNode(t, pn) ==
    LET parent == t.parent[RootOf(pn)]
    IN  IF ~t.optimistic[pn] \/ parent = NoNode THEN Refused(t)
        ELSE removeNodeAndChildren(
                [t EXCEPT !.children =
                    [t.children EXCEPT ![parent] = unlinked(t.children[parent], RootOf(pn))]], pn)

\* The nearest of the payload nodes `nodes' of one chain: a set of at most one.
nearest(t, nodes) == {q \in nodes : \A g \in nodes \ {q} : g \in t.path[RootOf(q)]}

\* The payload that setOptimisticToInvalid takes for invalid before it looks
\* for the first invalid one of the chain: NoNode when nothing is to be
\* removed, no node at all when the code returns an error.
invalidStart(t, root, parentRoot, hash, lastValidHash) ==
    LET hits == {q \in Above(t, Empty(parentRoot)) : RootOf(q) \in {hash, lastValidHash}}
    IN  IF root \in t.full
        THEN {pn \in {Full(root)} : t.parent[root] # NoNode /\ RootOf(t.parent[root]) = parentRoot}
        ELSE IF parentRoot \notin t.empty THEN {}
        ELSE IF parentRoot = lastValidHash THEN {NoNode}
        ELSE IF parentRoot = hash THEN {pn \in {Full(hash)} : hash \in t.full}
        ELSE {IF RootOf(q) = lastValidHash THEN NoNode ELSE q : q \in nearest(t, hits)}

\* From the invalid payload pn of the chain up to the one above which the last
\* valid payload comes.
firstInvalid(t, pn, lastValidHash) ==
    {q \in {pn} \cup Above(t, pn) :
        (q = pn \/ IsFull(q)) /\ fullParent(t, q) = Full(lastValidHash)}

\* The payload nodes that setOptimisticToInvalid hands to removeNode: at most one.
invalidNodes(t, root, parentRoot, hash, lastValidHash) ==
    UNION {IF Full(lastValidHash) \in Above(t, pn) THEN firstInvalid(t, pn, lastValidHash)
           ELSE {q \in {pn} : RootOf(pn) = root} :
           pn \in invalidStart(t, root, parentRoot, hash, lastValidHash) \ {NoNode}}

-----------------------------------------------------------------------------
(* Pruning at finalization.                                                *)

\* MUTANT: the full nodes stay in their map.
prunedEmptyNodes(t, gone) == [t EXCEPT !.empty = @ \ gone]

\* Deletes the nodes `gone' from the maps and empties their child lists.
prunedNodes(t, gone) ==
    [t EXCEPT !.empty = @ \ gone,
              !.full = @ \ gone,
              !.children =
                [q \in PayloadNodes |->
                    IF RootOf(q) \in gone /\ (IsFull(q) => RootOf(q) \in t.full)
                    THEN {} ELSE @[q]]]

\* Mutants: what builds on the finalized node goes too, nothing goes.
competingAll(t, f) == Reachable(t) \ {f}
competingNone(t, f) == {}

\* Everything that pruneFinalizedNodeByRootMap meets from the tree root before
\* the finalized node f.
competing(t, f) == Reachable(t) \ ({f} \cup ConsensusBelow(t, f))

\* MUTANT: a child at the checkpoint slot is kept.
tooOldStrictly(t, f, maxSlot) == {c \in allConsensusChildren(t, f) : t.slot[c] < maxSlot}

\* The children of f that are too old to build on the checkpoint, with all
\* that is below them.
tooOld(t, f, maxSlot) == {c \in allConsensusChildren(t, f) : t.slot[c] <= maxSlot}

\* MUTANT: the children are deleted and stay linked.
pruneLinkedChildren(t, f, maxSlot) ==
    LET old == tooOld(t, f, maxSlot)
    IN  prunedNodes(t, old \cup UNION {ConsensusBelow(t, c) : c \in old})

pruneChildren(t, f, maxSlot) ==
    LET old == tooOld(t, f, maxSlot)
        u == prunedNodes(t, old \cup UNION {ConsensusBelow(t, c) : c \in old})
    IN  [u EXCEPT !.children =
            [pn \in PayloadNodes |->
                IF pn = Empty(f) \/ (pn = Full(f) /\ f \in t.full) THEN @[pn] \ old ELSE @[pn]]]

prune(t, finalized) ==
    LET f == finalized.root
        u == prunedNodes(t, competing(t, f))
        v == [u EXCEPT
                !.finalizedDependentRoot = RootOf(t.parent[f]),
                !.target = [x \in Roots |->
                    IF x = f /\ f \in Reachable(t) /\ @[x] # f THEN ZeroHash ELSE @[x]],
                !.parent = [t.parent EXCEPT ![f] = NoNode],
                !.root = f]
    IN  IF f \notin t.empty THEN Refused(t)
        ELSE IF t.parent[f] = NoNode THEN Kept(t)
        ELSE Kept(IF t.slot[f] = EpochStart(finalized.epoch) THEN v
                  ELSE pruneChildren(v, f, EpochStart(finalized.epoch)))

=============================================================================
