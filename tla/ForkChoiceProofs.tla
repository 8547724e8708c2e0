-------------------------- MODULE ForkChoiceProofs --------------------------
(***************************************************************************)
(* Theorems about ForkChoice for every value of its constants: any number  *)
(* of blocks and slots, before and after the Gloas fork, with every failure*)
(* of the calls that leave the store.                                      *)
(*                                                                         *)
(* The inductive invariant, IInv, carries the chain structure of the blocks*)
(* (what a block builds on is a chain, and its parent is the nearest of    *)
(* it), without which neither the marking of validated nodes nor the       *)
(* removal of invalid ones can be shown to stop where it should.           *)
(*                                                                         *)
(* A removal can leave blocks behind that no walk from the root meets, so  *)
(* the theorems about the shape of the whole tree, the last ones, are about*)
(* the behaviours in which nothing is removed but by pruning.              *)
(***************************************************************************)
EXTENDS ForkChoice, ForkChoiceTreeProofs

\* A step is first-order unless it says otherwise.
USE ZenonT(30)

-----------------------------------------------------------------------------
(* Types of what is inserted.                                              *)

\* What insert does to the tree and to the boost.
LEMMA InsertFacts ==
    ASSUME NEW r, NEW b, NEW timely
    PROVE  /\ insert(r, b, timely).tree = insertNodes(tree, r, b.slot, b.parent)
           /\ insert(r, b, timely).pn \in {Empty(r), Full(r)}
           /\ \/ insert(r, b, timely).boost = boost
              \/ /\ insert(r, b, timely).boost = [boost EXCEPT !.root = r]
                 /\ currentSlot = b.slot
           /\ insert(r, b, timely).err => insert(r, b, timely).boost = boost
  BY DEF insert

\* The epochs start at zero, end with that of MaxSlot, and follow the slots.
LEMMA EpochFacts ==
    /\ 0 \in Epochs
    /\ \A e \in Epochs : e \in Nat /\ PrevEpoch(e) \in Epochs
    /\ \A s \in Slots : ToEpoch(s) \in Epochs
    /\ \A s, u \in Slots : s <= u => ToEpoch(s) <= ToEpoch(u)
    /\ \A e, d \in Epochs : e <= d /\ d # e => e + 1 \in Epochs
<1>1. \A a, b \in Nat, n \in Nat \ {0} : a <= b => a \div n <= b \div n /\ a \div n \in Nat
  BY SMTT(30)
<1>2. MaxSlot \div SlotsPerEpoch \in Nat
  BY SMTT(30), <1>1, TimeAssumption
<1>3. \A s, u \in Slots : s <= u => ToEpoch(s) <= ToEpoch(u)
  BY SMTT(30), <1>1, TimeAssumption DEF Slots, ToEpoch
<1>4. \A s \in Slots : ToEpoch(s) \in Epochs
  BY InputsAssumption
<1> QED
  BY SMTT(30), <1>2, <1>3, <1>4 DEF Epochs, PrevEpoch

\* The fields of a state.
LEMMA StateFields ==
    ASSUME NEW st \in BeaconStates(Epochs, OptRoots)
    PROVE  /\ st.previous \in Checkpoints /\ st.current \in Checkpoints
           /\ st.finalized \in Checkpoints /\ st.roots \in [Epochs -> OptRoots]
           /\ st.bits \in [0..3 -> BOOLEAN]
           /\ st.prevTarget \in BOOLEAN /\ st.currTarget \in BOOLEAN
  BY DEF BeaconStates, Checkpoints

\* computeCheckpoints returns checkpoints.
LEMMA ComputedType ==
    ASSUME NEW st \in BeaconStates(Epochs, OptRoots), NEW epoch \in Epochs, NEW bits
    PROVE  justifiedBy(st, bits, epoch) \in Checkpoints /\ finalizedBy(st, bits, epoch) \in Checkpoints
<1>1. \A e \in Epochs : Checkpoint(e, st.roots[e]) \in Checkpoints
  BY StateFields DEF Checkpoint, Checkpoints
<1>2. PrevEpoch(epoch) \in Epochs
  BY EpochFacts
<1> QED
  BY <1>1, <1>2, StateFields DEF justifiedBy, finalizedBy

\* UnrealizedCheckpoints returns checkpoints.
LEMMA UnrealizedType ==
    ASSUME NEW st \in BeaconStates(Epochs, OptRoots), NEW epoch \in Epochs
    PROVE  /\ UnrealizedCheckpoints(st, epoch).jc \in Checkpoints
           /\ UnrealizedCheckpoints(st, epoch).fc \in Checkpoints
  BY ComputedType, StateFields DEF UnrealizedCheckpoints

\* Epoch processing returns a state.
LEMMA ProcessType ==
    ASSUME NEW st \in BeaconStates(Epochs, OptRoots), NEW epoch \in Epochs
    PROVE  ProcessJustificationAndFinalization(st, epoch) \in BeaconStates(Epochs, OptRoots)
<1> DEFINE bits == processJustificationBits(st)
           j == justifiedBy(st, bits, epoch)
           f == finalizedBy(st, bits, epoch)
           weighed == [st EXCEPT !.previous = st.current, !.current = j, !.finalized = f, !.bits = bits]
           base == IF epoch <= 1 THEN st ELSE weighed
<1>1. j \in Checkpoints /\ f \in Checkpoints
  BY ComputedType
<1>2. bits \in [0..3 -> BOOLEAN]
  BY DEF processJustificationBits
<1>3. ProcessJustificationAndFinalization(st, epoch) =
        [base EXCEPT !.prevTarget = st.currTarget, !.currTarget = FALSE]
  BY DEF ProcessJustificationAndFinalization
<1> HIDE DEF j, f, bits
<1>4. base \in BeaconStates(Epochs, OptRoots)
  BY <1>1, <1>2, StateFields DEF BeaconStates, Checkpoints
<1> HIDE DEF base
<1> QED
  BY <1>3, <1>4, StateFields DEF BeaconStates

\* The state before the attestations of a block is a state.
LEMMA StateBeforeType ==
    ASSUME TypeOK, NEW r \in Roots, NEW p \in Known, NEW slot \in Slots, block[p].slot <= slot
    PROVE  StateBefore(r, p, slot) \in BeaconStates(Epochs, OptRoots)
<1> DEFINE pe == ToEpoch(block[p].slot)
           st == block[p].state
           oneOn == ProcessJustificationAndFinalization(st, pe)
           twoOn == ProcessJustificationAndFinalization(oneOn, pe + 1)
           at == IF ToEpoch(slot) = pe THEN st ELSE IF ToEpoch(slot) = pe + 1 THEN oneOn ELSE twoOn
           roots == [e \in Epochs |-> IF EpochStart(e) >= slot THEN r ELSE at.roots[e]]
<1>1. block[p].slot \in Slots /\ st \in BeaconStates(Epochs, OptRoots)
  BY DEF TypeOK, Blocks
<1>2. pe \in Epochs /\ ToEpoch(slot) \in Epochs /\ pe <= ToEpoch(slot)
  BY <1>1, EpochFacts
<1>3. oneOn \in BeaconStates(Epochs, OptRoots)
  BY <1>1, <1>2, ProcessType
<1>4. ToEpoch(slot) # pe /\ ToEpoch(slot) # pe + 1 => pe + 1 \in Epochs
  BY <1>2, EpochFacts
<1>5. at \in BeaconStates(Epochs, OptRoots)
  BY <1>1, <1>3, <1>4, ProcessType
<1>6. StateBefore(r, p, slot) = [at EXCEPT !.roots = roots]
  BY DEF StateBefore
<1> HIDE DEF at
<1>7. roots \in [Epochs -> OptRoots]
  BY <1>5, StateFields DEF OptRoots
<1> HIDE DEF roots
<1> QED
  BY <1>5, <1>6, <1>7 DEF BeaconStates

\* The blocks that are imported are blocks.
LEMMA NewBlocksType ==
    ASSUME TypeOK, NEW r \in Roots, NEW pn \in PayloadNodes, RootOf(pn) \in Known,
           NEW slot \in Slots, block[RootOf(pn)].slot <= slot, NEW b \in NewBlocks(r, pn, slot)
    PROVE  b \in Blocks /\ b.parent = pn /\ b.slot = slot
<1> DEFINE before == StateBefore(r, RootOf(pn), slot)
<1>1. before \in BeaconStates(Epochs, OptRoots)
  BY StateBeforeType
<1>2. PICK p \in Proposers, st \in StatesAfter(before, slot) :
        b = [parent |-> pn, slot |-> slot, proposer |-> p, state |-> st]
  BY SMTT(30) DEF NewBlocks
<1> HIDE DEF before
<1>3. PICK x \in BOOLEAN, y \in BOOLEAN : st = WithTargets(before, x, y)
  BY SMTT(30), <1>2 DEF StatesAfter
<1>4. st \in BeaconStates(Epochs, OptRoots)
  BY <1>1, <1>3 DEF BeaconStates, WithTargets
<1> QED
  BY <1>2, <1>4 DEF Blocks

-----------------------------------------------------------------------------
(* The inductive invariant.                                                *)

StoreCheckpoints ==
    [justified : Checkpoints, finalized : Checkpoints,
     unrealizedJustified : Checkpoints, unrealizedFinalized : Checkpoints]

\* A boost is a record of two roots and a score, of a block that has been made
\* for the last ticked slot or a later one.
BoostOf(bo, t, known, ticked) ==
    /\ bo = [root |-> bo.root, previousRoot |-> bo.previousRoot, previousScore |-> bo.previousScore]
    /\ bo.root \in OptRoots /\ bo.previousRoot \in OptRoots
    /\ bo.root # ZeroHash => bo.root \in known /\ t.slot[bo.root] >= ticked

\* The nodes of the blocks that have been made have the slots of the blocks.
SlotsOf(t, blocks) == \A r \in DOMAIN blocks : t.slot[r] = blocks[r].slot

IInv ==
    /\ TypeOK
    /\ tickedSlot <= currentSlot
    /\ SlotsOf(tree, block)
    /\ AllKnown(tree, Known)
    /\ TreeInv(tree)
    /\ MissingRejected(tree, rejected)
    /\ BoostOf(boost, tree, Known, tickedSlot)

\* The step of ValidatedStays.
Stay == \A r \in tree.empty \ tree'.empty : tree.optimistic[Empty(r)] \/ tree'.root # tree.root

-----------------------------------------------------------------------------
(* Import of a block.                                                      *)

\* The blocks with the block b for r.
With(blocks, r, b) == [x \in DOMAIN blocks \cup {r} |-> IF x = r THEN b ELSE blocks[x]]

\* What the actions bring to insert: a duplicate, or a block that nothing in
\* the store builds on, for a live node.
Importable(r, b) ==
    /\ r \in Roots /\ b \in Blocks
    /\ r \in Known => b = block[r]
    /\ r \in tree.empty \/ Fresh(tree, r)
    /\ r \in tree.empty \/ resolveParent(b) # NoNode

\* What insert returns: a tree that keeps the invariant, with the boost on at
\* most the block of the current slot.
ImportResult(r, b, timely) == IF r \in tree.empty THEN inserted(r) ELSE insert(r, b, timely)

Imported(i, r, b) ==
    /\ i.tree \in Trees /\ TreeInv(i.tree)
    /\ AllKnown(i.tree, Known \cup {r}) /\ MissingRejected(i.tree, rejected)
    /\ SlotsOf(i.tree, With(block, r, b))
    /\ BoostOf(i.boost, i.tree, Known \cup {r}, tickedSlot)
    /\ r \in i.tree.empty /\ tree.empty \subseteq i.tree.empty /\ i.tree.root = tree.root
    /\ \A x \in tree.empty : i.tree.optimistic[Empty(x)] = tree.optimistic[Empty(x)]
    /\ i.pn = Empty(r) \/ (i.pn = Full(r) /\ r \notin tree.empty)
    /\ i.err => i.boost = boost
    /\ r \notin tree.empty => \A x \in i.tree.empty : Full(r) \notin i.tree.path[x]

\* insert keeps the tree, and boosts at most the block of the current slot.
LEMMA ImportFacts ==
    ASSUME IInv, NEW r, NEW b, Importable(r, b), NEW timely
    PROVE  Imported(ImportResult(r, b, timely), r, b)
<1>0. PICK i : i = ImportResult(r, b, timely)
  OBVIOUS
<1>1. tree \in Trees /\ TreeInv(tree) /\ Chains(tree) /\ r \in Roots /\ b \in Blocks /\ Known \subseteq Roots
  BY DEF IInv, TypeOK, TreeInv, Importable
<1>2. CASE r \in tree.empty
  <2>1. i.tree = tree /\ i.boost = boost /\ i.pn = Empty(r) /\ ~i.err
    BY <1>0, <1>2 DEF inserted, ImportResult
  <2>2. r \in Known /\ b = block[r] /\ Known \cup {r} = Known
    BY <1>2 DEF IInv, AllKnown, Importable
  <2>3. SlotsOf(tree, With(block, r, b))
    BY <2>2 DEF IInv, SlotsOf, With, Known
  <2> QED
    BY <1>0, <1>1, <1>2, <2>1, <2>2, <2>3 DEF IInv, Imported
<1>3. CASE r \notin tree.empty
  <2>1. /\ i.tree = insertNodes(tree, r, b.slot, b.parent)
        /\ i.pn \in {Empty(r), Full(r)}
        /\ i.boost = boost \/ (i.boost = [boost EXCEPT !.root = r] /\ currentSlot = b.slot)
        /\ i.err => i.boost = boost
    BY SMTT(30), <1>0, <1>3, InsertFacts DEF ImportResult
  <2>2. /\ Fresh(tree, r) /\ b.slot \in Slots /\ b.parent \in PayloadNodes
        /\ RootOf(b.parent) \in tree.empty
        /\ IsFull(b.parent) => RootOf(b.parent) \in tree.full
    <3>1. b.slot \in Slots /\ b.parent \in PayloadNodes \cup {NoNode}
      BY <1>1 DEF Blocks
    <3> QED
      BY <1>3, <3>1 DEF Importable, resolveParent
  <2>3. i.tree \in Trees /\ IsInsertion(tree, i.tree, r, b.slot, b.parent)
    BY SMTT(30), <1>1, <2>1, <2>2, InsertFields
  <2>4. TreeInv(i.tree)
    BY <1>1, <2>2, <2>3, InsertTree
  <2>5. AllKnown(i.tree, Known \cup {r})
    BY <1>1, <2>2, <2>3, InsertKnown DEF IInv
  <2>6. MissingRejected(i.tree, rejected)
    BY <1>1, <2>2, <2>3, InsertMissing DEF IInv
  <2>7. \A x \in Roots : i.tree.slot[x] = IF x = r THEN b.slot ELSE tree.slot[x]
    BY SMTT(30), <1>1, <2>3, TreeFields DEF IsInsertion
  <2>8. SlotsOf(i.tree, With(block, r, b))
    BY <1>1, <2>7 DEF IInv, SlotsOf, With, Known
  <2>9. BoostOf(i.boost, i.tree, Known \cup {r}, tickedSlot)
    <3>1. ASSUME NEW x \in Known
          PROVE  i.tree.slot[x] = tree.slot[x]
      BY <1>1, <2>7 DEF IInv, SlotsOf, Importable, Known
    <3>2. CASE i.boost = boost
      BY <3>1, <3>2 DEF IInv, BoostOf
    <3>3. CASE i.boost = [boost EXCEPT !.root = r] /\ currentSlot = b.slot
      <4>1. i.boost = [root |-> r, previousRoot |-> boost.previousRoot,
                       previousScore |-> boost.previousScore]
        BY <3>3 DEF IInv, BoostOf
      <4>2. i.tree.slot[r] >= tickedSlot
        BY <1>1, <2>7, <3>3 DEF IInv, TypeOK, Slots
      <4> QED
        BY SMTT(30), <1>1, <4>1, <4>2 DEF IInv, BoostOf, OptRoots
    <3> QED
      BY <2>1, <3>2, <3>3
  <2>10. /\ i.tree.empty = tree.empty \cup {r} /\ i.tree.root = tree.root
    BY <2>3 DEF IsInsertion
  <2>11. ASSUME NEW x \in tree.empty
         PROVE  i.tree.optimistic[Empty(x)] = tree.optimistic[Empty(x)]
    <3>1. x \in Roots /\ RootOf(Empty(x)) = x /\ Empty(x) \in PayloadNodes
      BY <1>1, TreeFields, NodeFacts
    <3> QED
      BY SMTT(30), <1>1, <2>2, <2>3, <3>1, InsertFrame
  <2>12. ASSUME NEW x \in i.tree.empty
         PROVE  Full(r) \notin i.tree.path[x]
    <3>1. RootOf(Full(r)) = r
      BY <1>1, NodeFacts
    <3>2. r \notin RootsOn(i.tree, x)
      <4>1. CASE x = r
        BY <2>4, <4>1 DEF TreeInv, Chains
      <4>2. CASE x \in tree.empty
        BY SMTT(30), <1>1, <2>2, <2>3, <4>2, InsertFrame DEF Fresh
      <4> QED
        BY <2>10, <4>1, <4>2
    <3> QED
      BY <3>1, <3>2 DEF RootsOn
  <2> QED
    BY <1>0, <1>3, <2>1, <2>3, <2>4, <2>5, <2>6, <2>8, <2>9, <2>10, <2>11, <2>12 DEF Imported
<1> QED
  BY <1>2, <1>3

\* pullTips returns checkpoints.
LEMMA PullTipsType ==
    ASSUME NEW b \in Blocks, checkpoints \in StoreCheckpoints,
           NEW t, NEW ep, NEW r, NEW unrealizedErr
    PROVE  LET pulled == pullTips(t, ep, r, b, unrealizedErr)
           IN  /\ pulled.checkpoints \in StoreCheckpoints
               /\ pulled.jc \in Checkpoints /\ pulled.fc \in Checkpoints
<1>1. b.state \in BeaconStates(Epochs, OptRoots) /\ ToEpoch(b.slot) \in Epochs
  BY EpochFacts DEF Blocks
<1> DEFINE pulled == UnrealizedCheckpoints(b.state, ToEpoch(b.slot))
           jc == b.state.current
           fc == b.state.finalized
           uj == IF unrealizedErr THEN jc ELSE pulled.jc
           uf == IF unrealizedErr THEN fc ELSE pulled.fc
           finalizes == uf.epoch > checkpoints.unrealizedFinalized.epoch
           justifies == uj.epoch > checkpoints.unrealizedJustified.epoch
           chk == [checkpoints EXCEPT
                        !.unrealizedJustified = IF justifies \/ finalizes THEN uj ELSE @,
                        !.unrealizedFinalized = IF finalizes THEN uf ELSE @]
           p == pullTips(t, ep, r, b, unrealizedErr)
<1>2. jc \in Checkpoints /\ fc \in Checkpoints /\ uj \in Checkpoints /\ uf \in Checkpoints
  BY <1>1, StateFields, UnrealizedType
<1>3. p.checkpoints \in {checkpoints, chk} /\ p.jc \in {jc, uj} /\ p.fc \in {fc, uf}
  BY DEF pullTips
<1> HIDE DEF uj, uf, p, justifies, finalizes
<1>4. chk \in StoreCheckpoints
  BY <1>2 DEF StoreCheckpoints
<1> QED
  BY <1>2, <1>3, <1>4 DEF p

\* updateCheckpoints raises the checkpoints and prunes the tree.
LEMMA UpdateCheckpointsFacts ==
    ASSUME NEW t \in Trees, TreeInv(t), NEW chk \in StoreCheckpoints,
           NEW jc \in Checkpoints, NEW fc \in Checkpoints, NEW balanceErr,
           NEW c, c = updateCheckpoints(t, chk, jc, fc, balanceErr)
    PROVE  /\ c.tree \in Trees /\ IsShrinking(t, c.tree) /\ KeepsFull(t, c.tree)
           /\ c.tree = t \/ (~c.err /\ c.tree.root # t.root)
           /\ c.checkpoints \in StoreCheckpoints
<1> DEFINE justifies == supersedes(jc, chk.justified)
           err == justifies /\ balanceErr
           finalizes == ~err /\ supersedes(fc, chk.finalized)
           pruned == IF finalizes THEN prune(t, fc) ELSE Kept(t)
           new == [chk EXCEPT !.justified = IF justifies THEN jc ELSE @,
                              !.finalized = IF finalizes THEN fc ELSE @]
<1>1. c.tree = pruned.tree /\ (c.err => err \/ pruned.err) /\ c.checkpoints = new
  BY DEF updateCheckpoints
<1>2. new \in StoreCheckpoints
  <2> HIDE DEF justifies, finalizes
  <2> QED
    BY DEF StoreCheckpoints
<1>3. CASE finalizes
  <2>1. pruned = prune(t, fc) /\ ~err
    BY <1>3
  <2>2. c.tree = prune(t, fc).tree /\ (c.err => prune(t, fc).err)
    BY <1>1, <2>1
  <2> HIDE DEF pruned
  <2> QED
    BY SMTT(30), <1>1, <1>2, <2>2, PruneFields
<1>4. CASE ~finalizes
  <2>1. c.tree = t
    BY <1>1, <1>4 DEF Kept
  <2>2. IsShrinking(t, t) /\ KeepsFull(t, t)
    BY DEF TreeInv, Rooted, IsShrinking, KeepsFull
  <2> QED
    BY <1>1, <1>2, <2>1, <2>2
<1> QED
  BY <1>3, <1>4

\* The boost without the removed nodes.
LEMMA UnboostedOf ==
    ASSUME NEW bo, NEW t, NEW u, u.slot = t.slot, NEW known, NEW ticked,
           BoostOf(bo, t, known, ticked), NEW removed
    PROVE  BoostOf(unboosted(bo, removed), u, known, ticked)
  BY DEF BoostOf, unboosted, OptRoots

\* A step that imports b for r, from what it makes of the tree.
LEMMA ImportedInv ==
    ASSUME IInv, UNCHANGED <<currentSlot, tickedSlot>>, NEW r \in Roots, NEW b \in Blocks,
           block' = With(block, r, b), checkpoints' \in StoreCheckpoints,
           tree' \in Trees, TreeInv(tree'), AllKnown(tree', Known \cup {r}),
           MissingRejected(tree', rejected'), SlotsOf(tree', With(block, r, b)),
           BoostOf(boost', tree', Known \cup {r}, tickedSlot)
    PROVE  IInv'
<1>1. Known' = Known \cup {r}
  BY DEF Known, With
<1>2. Known' \subseteq Roots /\ \A x \in Known' : block'[x] \in Blocks
  BY <1>1 DEF With, IInv, TypeOK, Known
<1>3. TypeOK'
  BY <1>2 DEF IInv, TypeOK, BoostOf, StoreCheckpoints
<1> QED
  BY <1>1, <1>3 DEF IInv

-----------------------------------------------------------------------------
(* The actions.                                                             *)

\* A new block on a live node can be imported.
LEMMA NewImportable ==
    ASSUME IInv, NEW r \in Roots, IsNew(r), NEW pn \in Parents, NEW slot \in SlotsAfter(pn),
           NEW b \in NewBlocks(r, pn, slot)
    PROVE  Importable(r, b) /\ r \notin tree.empty
<1>1. r \notin Known /\ Fresh(tree, r)
  BY DEF IsNew, IInv, AllKnown, Fresh
<1>2. /\ pn \in PayloadNodes /\ pn # NoNode /\ RootOf(pn) \in tree.empty
      /\ IsFull(pn) => RootOf(pn) \in tree.full
  BY NodeFacts DEF Parents
<1>3. RootOf(pn) \in Known /\ tree.slot[RootOf(pn)] = block[RootOf(pn)].slot
  BY <1>2 DEF IInv, AllKnown, SlotsOf, Known
<1>4. slot \in Slots /\ block[RootOf(pn)].slot \in Slots /\ block[RootOf(pn)].slot <= slot
  <2>1. slot \in Slots /\ tree.slot[RootOf(pn)] < slot
    BY InputsAssumption DEF SlotsAfter
  <2>2. block[RootOf(pn)].slot \in Slots
    BY <1>3 DEF IInv, TypeOK, Blocks
  <2> QED
    BY SMTT(30), <1>3, <2>1, <2>2, TimeAssumption DEF Slots
<1>5. b \in Blocks /\ b.parent = pn
  <2>1. TypeOK
    BY DEF IInv
  <2> QED
    BY SMTT(30), <1>2, <1>3, <1>4, <2>1, NewBlocksType
<1>6. resolveParent(b) # NoNode
  BY <1>2, <1>5 DEF resolveParent
<1> QED
  BY <1>1, <1>5, <1>6 DEF Importable, Fresh

\* A block that was made before can be imported again.
LEMMA KnownImportable ==
    ASSUME IInv, NEW r \in Known, r \in tree.empty \/ \A y \in tree.empty : r \notin RootsOn(tree, y),
           NEW timely, NEW balanceErr, NEW unrealizedErr,
           InsertNode(r, block[r], timely, balanceErr, unrealizedErr)
    PROVE  Importable(r, block[r])
<1>1. r \in tree.empty \/ resolveParent(block[r]) # NoNode
  BY DEF InsertNode
<1> QED
  BY <1>1 DEF Importable, IInv, TypeOK, Fresh

-----------------------------------------------------------------------------
\* InsertNode keeps the invariant and removes no validated block.
LEMMA InsertNodeStep ==
    ASSUME IInv, NEW r, NEW b, Importable(r, b), NEW timely, NEW balanceErr, NEW unrealizedErr,
           InsertNode(r, b, timely, balanceErr, unrealizedErr)
    PROVE  IInv' /\ Stay
<1>1. PICK i : i = ImportResult(r, b, timely)
  OBVIOUS
<1>2. /\ i.tree \in Trees /\ TreeInv(i.tree)
      /\ AllKnown(i.tree, Known \cup {r}) /\ MissingRejected(i.tree, rejected)
      /\ SlotsOf(i.tree, With(block, r, b))
      /\ BoostOf(i.boost, i.tree, Known \cup {r}, tickedSlot)
      /\ tree.empty \subseteq i.tree.empty /\ i.tree.root = tree.root
      /\ \A x \in tree.empty : i.tree.optimistic[Empty(x)] = tree.optimistic[Empty(x)]
      /\ i.pn = Empty(r) \/ (i.pn = Full(r) /\ r \notin tree.empty)
      /\ r \notin tree.empty => \A x \in i.tree.empty : Full(r) \notin i.tree.path[x]
      /\ i.err => i.boost = boost
  <2>1. Imported(i, r, b)
    BY <1>1, ImportFacts
  <2> QED
    BY <2>1 DEF Imported
<1>3. /\ r \in Roots /\ b \in Blocks /\ i.pn \in PayloadNodes
      /\ checkpoints \in StoreCheckpoints
  BY <1>2, NodeFacts DEF Importable, IInv, TypeOK, StoreCheckpoints
<1>4. /\ block' = With(block, r, b)
      /\ UNCHANGED <<currentSlot, tickedSlot, rejected>>
  BY DEF InsertNode, With, clock, Known
<1>5. CASE i.err
  <2>1. tree' = i.tree /\ UNCHANGED <<checkpoints, boost>>
    BY <1>1, <1>5 DEF InsertNode, ImportResult
  <2>2. IInv'
    BY <1>2, <1>3, <1>4, <1>5, <2>1, ImportedInv
  <2> QED
    BY <1>2, <2>1, <2>2 DEF Stay
<1>6. CASE ~i.err
  <2> DEFINE pulled == pullTips(i.tree, i.epochs, r, b, unrealizedErr)
             chk == updateCheckpoints(i.tree, pulled.checkpoints, pulled.jc, pulled.fc, balanceErr)
             undo == IF chk.err THEN removeNode(chk.tree, i.pn) ELSE Kept(chk.tree)
  <2>1. /\ tree' = undo.tree /\ checkpoints' = chk.checkpoints
        /\ boost' = unboosted(i.boost, undo.removed)
    <3>1. insertedNode(i, r, b, balanceErr, unrealizedErr)
      BY <1>1, <1>6 DEF InsertNode, ImportResult
    <3> QED
      BY <3>1 DEF insertedNode
  <2>2. /\ pulled.checkpoints \in StoreCheckpoints
        /\ pulled.jc \in Checkpoints /\ pulled.fc \in Checkpoints
    BY <1>3, PullTipsType
  <2> HIDE DEF pulled
  <2>3. /\ chk.tree \in Trees /\ IsShrinking(i.tree, chk.tree) /\ KeepsFull(i.tree, chk.tree)
        /\ chk.tree = i.tree \/ (~chk.err /\ chk.tree.root # i.tree.root)
        /\ chk.checkpoints \in StoreCheckpoints
    BY <1>2, <2>2, UpdateCheckpointsFacts
  <2> HIDE DEF chk
  <2>4. CASE ~chk.err
    <3>1. tree' = chk.tree
      BY <2>1, <2>4 DEF Kept
    <3>2. TreeInv(tree') /\ AllKnown(tree', Known \cup {r})
      BY <1>2, <2>3, <3>1, ShrinkTree, ShrinkKnown
    <3>3. MissingRejected(tree', rejected)
      <4>1. MissingRejected(tree', rejected \cup {})
        BY <1>2, <2>3, <3>1, ShrinkMissing DEF KeepsFull
      <4> QED
        BY <4>1 DEF MissingRejected
    <3>4. tree'.slot = i.tree.slot
      BY <2>3, <3>1 DEF IsShrinking
    <3>5. SlotsOf(tree', With(block, r, b))
      BY <1>2, <3>4 DEF SlotsOf
    <3>6. BoostOf(boost', tree', Known \cup {r}, tickedSlot)
      BY <1>2, <2>1, <3>4, UnboostedOf
    <3>7. IInv'
      BY <1>3, <1>4, <2>1, <2>3, <3>1, <3>2, <3>3, <3>5, <3>6, ImportedInv
    <3> QED
      BY <1>2, <2>3, <3>1, <3>7 DEF Stay
  <2>5. CASE chk.err
    <3>1. tree' = removeNode(i.tree, i.pn).tree
      BY <2>1, <2>3, <2>5
    <3>2. /\ tree' \in Trees /\ IsShrinking(i.tree, tree') /\ tree'.root = i.tree.root
          /\ \A x \in i.tree.empty \ tree'.empty : i.tree.optimistic[Empty(x)]
          /\ i.tree.full \cap tree'.empty \subseteq
                tree'.full \cup
                (IF IsFull(i.pn) /\ ~removeNode(i.tree, i.pn).err THEN {RootOf(i.pn)} ELSE {})
      BY <1>2, <1>3, <3>1, RemoveFields
    <3>3. TreeInv(tree') /\ AllKnown(tree', Known \cup {r})
      BY <1>2, <3>2, ShrinkTree, ShrinkKnown
    <3>4. MissingRejected(tree', rejected)
      <4>1. CASE i.pn = Empty(r)
        <5>1. i.tree.full \cap tree'.empty \subseteq tree'.full \cup {}
          BY <1>3, <3>2, <4>1, NodeFacts
        <5>2. MissingRejected(tree', rejected \cup {})
          BY <1>2, <3>2, <5>1, ShrinkMissing
        <5> QED
          BY <5>2 DEF MissingRejected
      <4>2. CASE i.pn = Full(r) /\ r \notin tree.empty
        <5>1. i.tree.full \cap tree'.empty \subseteq tree'.full \cup {r}
          BY <1>3, <3>2, <4>2, NodeFacts
        <5>2. MissingRejected(tree', rejected \cup {r})
          BY <1>2, <3>2, <5>1, ShrinkMissing
        <5>3. \A x \in tree'.empty : Full(r) \notin tree'.path[x]
          BY <1>2, <3>2, <4>2 DEF IsShrinking
        <5> QED
          BY <5>2, <5>3 DEF MissingRejected
      <4> QED
        BY <1>2, <4>1, <4>2
    <3>5. tree'.slot = i.tree.slot
      BY <3>2 DEF IsShrinking
    <3>6. SlotsOf(tree', With(block, r, b))
      BY <1>2, <3>5 DEF SlotsOf
    <3>7. BoostOf(boost', tree', Known \cup {r}, tickedSlot)
      BY <1>2, <2>1, <3>5, UnboostedOf
    <3>8. IInv'
      BY <1>3, <1>4, <2>1, <2>3, <3>2, <3>3, <3>4, <3>6, <3>7, ImportedInv
    <3> QED
      BY <1>2, <3>2, <3>8 DEF Stay
  <2> QED
    BY <2>4, <2>5
<1> QED
  BY <1>5, <1>6

\* A new full node leaves the blocks and what they build on alone.
LEMMA NewFullKeeps ==
    ASSUME NEW t \in Trees, NEW u \in Trees, NEW r \in Roots, IsNewFull(t, u, r),
           NEW known, AllKnown(t, known), NEW gone, MissingRejected(t, gone)
    PROVE  /\ AllKnown(u, known) /\ MissingRejected(u, gone)
           /\ \A x \in t.empty : u.optimistic[Empty(x)] = t.optimistic[Empty(x)]
<1>1. AllKnown(u, known)
  BY DEF IsNewFull, AllKnown, RootsOn
<1>2. MissingRejected(u, gone)
  BY DEF IsNewFull, MissingRejected
<1>3. ASSUME NEW x \in t.empty
      PROVE  u.optimistic[Empty(x)] = t.optimistic[Empty(x)]
  <2>1. Empty(x) \in PayloadNodes /\ Empty(x) # Full(r)
    BY NodeFacts, TreeFields
  <2> QED
    BY <2>1, TreeFields DEF IsNewFull
<1> QED
  BY <1>1, <1>2, <1>3

\* InsertChain keeps the invariant and removes no validated block.
LEMMA InsertChainStep ==
    ASSUME IInv, NEW r, NEW b, Importable(r, b), r \notin tree.empty, NEW timely,
           NEW hasPayload, NEW balanceErr, InsertChain(r, b, timely, hasPayload, balanceErr)
    PROVE  IInv' /\ Stay
<1>1. PICK i : i = ImportResult(r, b, timely)
  OBVIOUS
<1>2. /\ i.tree \in Trees /\ TreeInv(i.tree)
      /\ AllKnown(i.tree, Known \cup {r}) /\ MissingRejected(i.tree, rejected)
      /\ SlotsOf(i.tree, With(block, r, b))
      /\ BoostOf(i.boost, i.tree, Known \cup {r}, tickedSlot)
      /\ r \in i.tree.empty /\ tree.empty \subseteq i.tree.empty /\ i.tree.root = tree.root
      /\ \A x \in tree.empty : i.tree.optimistic[Empty(x)] = tree.optimistic[Empty(x)]
      /\ \A x \in i.tree.empty : Full(r) \notin i.tree.path[x]
  <2>1. Imported(i, r, b)
    BY <1>1, ImportFacts
  <2> QED
    BY <2>1 DEF Imported
<1>3. /\ r \in Roots /\ b \in Blocks /\ checkpoints \in StoreCheckpoints
      /\ b.state.current \in Checkpoints /\ b.state.finalized \in Checkpoints
  <2>1. r \in Roots /\ b \in Blocks /\ checkpoints \in StoreCheckpoints
    BY DEF Importable, IInv, TypeOK, StoreCheckpoints
  <2>2. b.state \in BeaconStates(Epochs, OptRoots)
    BY <2>1 DEF Blocks
  <2> QED
    BY <2>1, <2>2, StateFields
<1>4. /\ block' = With(block, r, b) /\ boost' = i.boost
      /\ UNCHANGED <<currentSlot, tickedSlot, rejected>>
  BY <1>1 DEF InsertChain, ImportResult, With, clock, Known
<1>5. CASE i.err
  <2>1. tree' = i.tree /\ UNCHANGED checkpoints
    BY <1>1, <1>5 DEF InsertChain, ImportResult
  <2>2. IInv'
    BY <1>2, <1>3, <1>4, <2>1, ImportedInv
  <2> QED
    BY <1>2, <2>1, <2>2 DEF Stay
<1>6. CASE ~i.err
  <2> DEFINE newFull == hasPayload /\ r \notin i.tree.full
             t == IF newFull THEN makeFull(i.tree, r) ELSE i.tree
             chk == updateCheckpoints(t, checkpoints, b.state.current, b.state.finalized, balanceErr)
  <2>1. tree' = chk.tree /\ checkpoints' = chk.checkpoints
    BY <1>1, <1>6 DEF InsertChain, ImportResult
  <2>2. /\ t \in Trees /\ TreeInv(t) /\ AllKnown(t, Known \cup {r}) /\ MissingRejected(t, rejected)
        /\ t.empty = i.tree.empty /\ t.root = i.tree.root /\ t.slot = i.tree.slot
        /\ \A x \in i.tree.empty : t.optimistic[Empty(x)] = i.tree.optimistic[Empty(x)]
    <3>1. CASE newFull
      <4>1. t = makeFull(i.tree, r)
        BY <3>1
      <4>2. t \in Trees /\ IsNewFull(i.tree, t, r)
        BY <1>2, <3>1, <4>1, MakeFullFields
      <4> HIDE DEF t
      <4>3. TreeInv(t)
        BY <1>2, <3>1, <4>2, NewFullTree
      <4>4. /\ AllKnown(t, Known \cup {r}) /\ MissingRejected(t, rejected)
            /\ \A x \in i.tree.empty : t.optimistic[Empty(x)] = i.tree.optimistic[Empty(x)]
        BY <1>2, <1>3, <4>2, NewFullKeeps
      <4>5. t.empty = i.tree.empty /\ t.root = i.tree.root /\ t.slot = i.tree.slot
        BY <4>2 DEF IsNewFull
      <4> QED
        BY <4>2, <4>3, <4>4, <4>5
    <3>2. CASE ~newFull
      <4>1. t = i.tree
        BY <3>2
      <4> HIDE DEF t
      <4> QED
        BY <1>2, <4>1
    <3> QED
      BY <3>1, <3>2
  <2> HIDE DEF t
  <2>3. /\ chk.tree \in Trees /\ IsShrinking(t, chk.tree) /\ KeepsFull(t, chk.tree)
        /\ chk.tree = t \/ (~chk.err /\ chk.tree.root # t.root)
        /\ chk.checkpoints \in StoreCheckpoints
    BY <1>3, <2>2, UpdateCheckpointsFacts
  <2> HIDE DEF chk
  <2>4. TreeInv(tree') /\ AllKnown(tree', Known \cup {r})
    BY <2>1, <2>2, <2>3, ShrinkTree, ShrinkKnown
  <2>5. MissingRejected(tree', rejected')
    <3>1. MissingRejected(tree', rejected \cup {})
      BY <2>1, <2>2, <2>3, ShrinkMissing DEF KeepsFull
    <3> QED
      BY <1>4, <3>1 DEF MissingRejected
  <2>6. tree'.slot = i.tree.slot
    BY <2>1, <2>2, <2>3 DEF IsShrinking
  <2>7. SlotsOf(tree', With(block, r, b))
    BY <1>2, <2>6 DEF SlotsOf
  <2>8. BoostOf(boost', tree', Known \cup {r}, tickedSlot)
    BY <1>2, <1>4, <2>6 DEF BoostOf
  <2>9. IInv'
    BY <1>3, <1>4, <2>1, <2>3, <2>4, <2>5, <2>7, <2>8, ImportedInv
  <2> QED
    BY <1>2, <2>1, <2>2, <2>3, <2>9 DEF Stay
<1> QED
  BY <1>5, <1>6

\* The imports keep the invariant and remove no validated block.
LEMMA ImportStep ==
    ASSUME IInv, ImportBlock \/ ReimportBlock \/ ImportChain
    PROVE  IInv' /\ Stay
<1>1. CASE ImportBlock
  <2>1. PICK r, pn, slot, b, timely, balanceErr, unrealizedErr :
             /\ r \in Roots /\ pn \in Parents /\ slot \in SlotsAfter(pn) /\ b \in NewBlocks(r, pn, slot) /\ IsNew(r)
             /\ InsertNode(r, b, timely, balanceErr, unrealizedErr)
    BY <1>1 DEF ImportBlock
  <2>2. Importable(r, b)
    BY <2>1, NewImportable
  <2> QED
    BY <2>1, <2>2, InsertNodeStep
<1>2. CASE ReimportBlock
  <2>1. PICK r, balanceErr, unrealizedErr :
             /\ r \in Known
             /\ r \in tree.empty \/ \A y \in tree.empty : r \notin RootsOn(tree, y)
             /\ InsertNode(r, block[r], FALSE, balanceErr, unrealizedErr)
    BY <1>2 DEF ReimportBlock
  <2>2. Importable(r, block[r])
    BY <2>1, KnownImportable
  <2> QED
    BY <2>1, <2>2, InsertNodeStep
<1>3. CASE ImportChain
  <2>1. PICK r, pn, slot, b, hasPayload, balanceErr :
             /\ r \in Roots /\ pn \in Parents /\ slot \in SlotsAfter(pn) /\ b \in NewBlocks(r, pn, slot) /\ IsNew(r)
             /\ InsertChain(r, b, FALSE, hasPayload, balanceErr)
    BY <1>3 DEF ImportChain
  <2>2. Importable(r, b) /\ r \notin tree.empty
    BY <2>1, NewImportable
  <2> QED
    BY <2>1, <2>2, InsertChainStep
<1> QED
  BY <1>1, <1>2, <1>3

-----------------------------------------------------------------------------
(* The operations that bring no block.                                     *)

\* A step that leaves the blocks alone, from what it makes of the tree.
LEMMA KeptInv ==
    ASSUME IInv, UNCHANGED block, currentSlot' \in Slots, tickedSlot' \in Slots,
           tickedSlot' <= currentSlot', checkpoints' \in StoreCheckpoints,
           tree' \in Trees, TreeInv(tree'), AllKnown(tree', Known),
           MissingRejected(tree', rejected'), tree'.slot = tree.slot,
           BoostOf(boost', tree', Known, tickedSlot')
    PROVE  IInv'
<1>1. Known' = Known
  BY DEF Known
<1>2. TypeOK'
  BY <1>1 DEF IInv, TypeOK, BoostOf, StoreCheckpoints
<1>3. SlotsOf(tree', block')
  BY DEF IInv, SlotsOf
<1> QED
  BY <1>1, <1>2, <1>3 DEF IInv

\* What IInv says of the parts that an operation leaves alone.
LEMMA Unchanged ==
    ASSUME IInv
    PROVE  /\ currentSlot \in Slots /\ tickedSlot \in Slots /\ tickedSlot <= currentSlot
           /\ checkpoints \in StoreCheckpoints /\ tree \in Trees /\ TreeInv(tree)
           /\ AllKnown(tree, Known) /\ MissingRejected(tree, rejected)
           /\ BoostOf(boost, tree, Known, tickedSlot)
  BY DEF IInv, TypeOK, StoreCheckpoints

\* A new full node keeps the invariant when nothing builds on the old one.
LEMMA MakeFullStep ==
    ASSUME IInv, NEW r \in tree.empty, r \notin tree.full,
           \A x \in tree.empty : Full(r) \notin tree.path[x],
           tree' = makeFull(tree, r),
           UNCHANGED <<currentSlot, tickedSlot, rejected, block, checkpoints, boost>>
    PROVE  IInv' /\ Stay
<1>1. tree \in Trees /\ TreeInv(tree) /\ r \in Roots
  BY Unchanged, TreeFields
<1>2. tree' \in Trees /\ IsNewFull(tree, tree', r)
  BY <1>1, MakeFullFields
<1>3. TreeInv(tree')
  BY <1>1, <1>2, NewFullTree
<1>4. AllKnown(tree', Known) /\ MissingRejected(tree', rejected')
  BY <1>1, <1>2, NewFullKeeps, Unchanged
<1>5. tree'.slot = tree.slot /\ tree'.empty = tree.empty
  BY <1>2 DEF IsNewFull
<1>6. BoostOf(boost', tree', Known, tickedSlot')
  BY <1>5, Unchanged DEF BoostOf
<1>7. IInv'
  BY <1>2, <1>3, <1>4, <1>5, <1>6, Unchanged, KeptInv
<1> QED
  BY <1>5, <1>7 DEF Stay

\* The payload of a block that was not rejected keeps the invariant: nothing can
\* build on a full node that is missing.
LEMMA PayloadStep ==
    ASSUME IInv, ImportPayload \/ MarkFull
    PROVE  IInv' /\ Stay
<1>1. CASE ImportPayload
  <2>1. PICK r \in Known \ rejected : InsertPayload(r)
    BY <1>1 DEF ImportPayload
  <2>2. /\ r \in tree.empty /\ r \notin tree.full /\ tree' = makeFull(tree, r)
        /\ UNCHANGED <<currentSlot, tickedSlot, rejected, block, checkpoints, boost>>
    BY <2>1 DEF InsertPayload, clock
  <2>3. \A x \in tree.empty : Full(r) \notin tree.path[x]
    BY <2>1, <2>2, Unchanged DEF MissingRejected
  <2> QED
    BY <2>2, <2>3, MakeFullStep
<1>2. CASE MarkFull
  <2>1. PICK r \in Known \ rejected : MarkFullNode(r)
    BY <1>2 DEF MarkFull
  <2>2. /\ r \in tree.empty /\ r \notin tree.full /\ tree' = makeFull(tree, r)
        /\ UNCHANGED <<currentSlot, tickedSlot, rejected, block, checkpoints, boost>>
    BY <2>1 DEF MarkFullNode, clock
  <2>3. \A x \in tree.empty : Full(r) \notin tree.path[x]
    BY <2>1, <2>2, Unchanged DEF MissingRejected
  <2> QED
    BY <2>2, <2>3, MakeFullStep
<1> QED
  BY <1>1, <1>2

\* A payload found valid keeps the invariant.
LEMMA ValidStep ==
    ASSUME IInv, EngineValid
    PROVE  IInv' /\ Stay
<1>1. PICK r \in Known : SetOptimisticToValid(r)
  BY DEF EngineValid
<1> DEFINE pn == IF r \in tree.full THEN Full(r) ELSE Empty(r)
<1>2. /\ r \in tree.empty /\ tree' = setNodeAndParentValidated(tree, pn)
      /\ UNCHANGED <<currentSlot, tickedSlot, rejected, block, checkpoints, boost>>
  BY <1>1 DEF SetOptimisticToValid, clock
<1>3. tree \in Trees /\ TreeInv(tree) /\ r \in Roots
  BY <1>2, Unchanged, TreeFields
<1>4. /\ pn \in PayloadNodes /\ RootOf(pn) \in tree.empty
      /\ IsFull(pn) => RootOf(pn) \in tree.full
  BY <1>2, <1>3, NodeFacts
<1> HIDE DEF pn
<1>5. tree' \in Trees /\ IsValidation(tree, tree', validatedFrom(tree, pn))
  BY <1>2, <1>3, ValidateFields
<1>6. TreeInv(tree')
  BY <1>3, <1>4, <1>5, ValidateTree
<1>7. /\ tree'.slot = tree.slot /\ tree'.empty = tree.empty /\ tree'.path = tree.path
      /\ tree'.full = tree.full
  BY <1>5 DEF IsValidation
<1>8. AllKnown(tree', Known) /\ MissingRejected(tree', rejected')
  BY <1>2, <1>7, Unchanged DEF AllKnown, MissingRejected, RootsOn
<1>9. BoostOf(boost', tree', Known, tickedSlot')
  BY <1>2, <1>7, Unchanged DEF BoostOf
<1>10. IInv'
  BY <1>2, <1>5, <1>6, <1>7, <1>8, <1>9, Unchanged, KeptInv
<1> QED
  BY <1>7, <1>10 DEF Stay

\* What setOptimisticToInvalid hands to removeNode is a payload node.
LEMMA InvalidNodesType ==
    ASSUME NEW t \in Trees, NEW root, NEW parentRoot, NEW hash, NEW lastValidHash,
           NEW pn \in invalidNodes(t, root, parentRoot, hash, lastValidHash)
    PROVE  pn \in PayloadNodes
<1>1. \A q \in PayloadNodes : Above(t, q) \subseteq PayloadNodes
  BY NodeFacts, TreeFields DEF Above
<1>2. ASSUME NEW q \in invalidStart(t, root, parentRoot, hash, lastValidHash) \ {NoNode}
      PROVE  q \in PayloadNodes
  <2>1. CASE root \in t.full
    BY <1>2, <2>1, TreeFields, NodeFacts DEF invalidStart
  <2>2. CASE root \notin t.full
    <3>1. parentRoot \in t.empty
      BY <1>2, <2>2 DEF invalidStart
    <3>2. Above(t, Empty(parentRoot)) \subseteq PayloadNodes
      BY <1>1, <3>1, TreeFields, NodeFacts
    <3>3. q \in Above(t, Empty(parentRoot)) \/ (q = Full(hash) /\ hash \in t.full)
      BY <1>2, <2>2, <3>1 DEF invalidStart, nearest
    <3> QED
      BY <3>2, <3>3, TreeFields, NodeFacts
  <2> QED
    BY <2>1, <2>2
<1>3. PICK q \in invalidStart(t, root, parentRoot, hash, lastValidHash) \ {NoNode} :
        pn \in IF Full(lastValidHash) \in Above(t, q) THEN firstInvalid(t, q, lastValidHash)
               ELSE {x \in {q} : RootOf(q) = root}
  BY DEF invalidNodes
<1>4. pn = q \/ pn \in Above(t, q)
  BY <1>3 DEF firstInvalid
<1> QED
  BY <1>1, <1>2, <1>3, <1>4

\* A payload found invalid keeps the invariant and takes no validated block.
LEMMA InvalidStep ==
    ASSUME IInv, EngineInvalid
    PROVE  IInv' /\ Stay
<1>1. PICK r, parentRoot, hash, lastValidHash : SetOptimisticToInvalid(r, parentRoot, hash, lastValidHash)
  BY DEF EngineInvalid
<1>2. PICK pn \in invalidNodes(tree, r, parentRoot, hash, lastValidHash) :
        /\ tree' = removeNode(tree, pn).tree
        /\ boost' = unboosted(boost, removeNode(tree, pn).removed)
        /\ rejected \subseteq rejected'
        /\ ~removeNode(tree, pn).err => RootOf(pn) \in rejected'
        /\ UNCHANGED <<currentSlot, tickedSlot, block, checkpoints>>
  BY <1>1 DEF SetOptimisticToInvalid
<1>3. tree \in Trees /\ TreeInv(tree) /\ pn \in PayloadNodes
  BY Unchanged, InvalidNodesType
<1>4. /\ tree' \in Trees /\ IsShrinking(tree, tree') /\ tree'.root = tree.root
      /\ \A x \in tree.empty \ tree'.empty : tree.optimistic[Empty(x)]
      /\ tree.full \cap tree'.empty \subseteq tree'.full \cup
            (IF IsFull(pn) /\ ~removeNode(tree, pn).err THEN {RootOf(pn)} ELSE {})
  BY <1>2, <1>3, RemoveFields
<1>5. TreeInv(tree') /\ AllKnown(tree', Known)
  BY <1>3, <1>4, ShrinkTree, ShrinkKnown, Unchanged
<1>6. MissingRejected(tree', rejected')
  <2>1. tree.full \cap tree'.empty \subseteq tree'.full \cup rejected'
    BY <1>2, <1>4
  <2>2. MissingRejected(tree', rejected \cup rejected')
    BY <1>4, <2>1, ShrinkMissing, Unchanged
  <2> QED
    BY <1>2, <2>2 DEF MissingRejected
<1>7. tree'.slot = tree.slot
  BY <1>4 DEF IsShrinking
<1>8. BoostOf(boost', tree', Known, tickedSlot')
  BY <1>2, <1>7, Unchanged, UnboostedOf
<1>9. IInv'
  BY <1>2, <1>4, <1>5, <1>6, <1>7, <1>8, Unchanged, KeptInv
<1> QED
  BY <1>4, <1>9 DEF Stay

\* The clock and the ticker keep the invariant: NewSlot takes the boost of the
\* slot that ends, and removes blocks only with another root for the tree.
LEMMA TimeStep ==
    ASSUME IInv, Tick \/ NewSlot
    PROVE  IInv' /\ Stay
<1>1. CASE Tick
  <2>1. /\ currentSlot' = currentSlot + 1 /\ currentSlot < MaxSlot
        /\ UNCHANGED <<tickedSlot, rejected, block, tree, checkpoints, boost>>
    BY <1>1 DEF Tick, store
  <2>2. currentSlot' \in Slots /\ tickedSlot' <= currentSlot'
    BY SMTT(30), <2>1, Unchanged, TimeAssumption DEF Slots
  <2>3. IInv'
    BY <2>1, <2>2, Unchanged, KeptInv
  <2> QED
    BY <2>1, <2>3 DEF Stay
<1>2. CASE NewSlot
  <2>1. /\ tickedSlot < currentSlot /\ tickedSlot' = tickedSlot + 1
        /\ boost' = [boost EXCEPT !.root = ZeroHash]
        /\ UNCHANGED <<currentSlot, rejected, block>>
    BY <1>2 DEF NewSlot, slotIsDue, resetProposerBoostRoot
  <2>2. tickedSlot' \in Slots /\ currentSlot' \in Slots /\ tickedSlot' <= currentSlot'
    BY SMTT(30), <2>1, Unchanged, TimeAssumption DEF Slots
  <2>3. boost' = [root |-> ZeroHash, previousRoot |-> boost.previousRoot,
                  previousScore |-> boost.previousScore]
    BY <2>1, Unchanged DEF BoostOf
  <2>4. BoostOf(boost', tree', Known, tickedSlot')
    BY <2>3, Unchanged DEF BoostOf, OptRoots
  <2>5. \A J, F : realizedCheckpoints(J, F) \in StoreCheckpoints
    BY Unchanged DEF realizedCheckpoints, StoreCheckpoints
  <2>6. /\ checkpoints' = checkpoints \/ \E J, F : checkpoints' = realizedCheckpoints(J, F)
        /\ tree' = tree \/ tree' = prune(tree, checkpoints'.finalized).tree
    BY <1>2 DEF NewSlot, updateUnrealizedCheckpoints, updateUnrealizedFails
  <2>7. checkpoints' \in StoreCheckpoints
    BY <2>5, <2>6, Unchanged
  <2>8. CASE tree' = tree
    <3>1. IInv'
      BY <2>1, <2>2, <2>4, <2>7, <2>8, Unchanged, KeptInv
    <3> QED
      BY <2>8, <3>1 DEF Stay
  <2>9. CASE tree' = prune(tree, checkpoints'.finalized).tree
    <3>1. /\ tree' \in Trees /\ IsShrinking(tree, tree') /\ KeepsFull(tree, tree')
          /\ tree' = tree \/ tree'.root # tree.root
      BY <2>9, Unchanged, PruneFields
    <3>2. TreeInv(tree') /\ AllKnown(tree', Known)
      BY <3>1, ShrinkTree, ShrinkKnown, Unchanged
    <3>3. MissingRejected(tree', rejected')
      <4>1. MissingRejected(tree', rejected \cup {})
        BY <3>1, ShrinkMissing, Unchanged DEF KeepsFull
      <4> QED
        BY <2>1, <4>1 DEF MissingRejected
    <3>4. tree'.slot = tree.slot
      BY <3>1 DEF IsShrinking
    <3>5. IInv'
      BY <2>1, <2>2, <2>4, <2>7, <3>1, <3>2, <3>3, <3>4, KeptInv
    <3> QED
      BY <3>1, <3>5 DEF Stay
  <2> QED
    BY <2>6, <2>8, <2>9
<1> QED
  BY <1>1, <1>2

\* The votes and the head leave the tree alone; Head remembers the boost it
\* applied.
LEMMA VoteStep ==
    ASSUME IInv, Attest \/ Slash \/ PayloadAttest \/ Equivocate \/ UpdateHead
    PROVE  IInv' /\ Stay
<1>1. UNCHANGED <<currentSlot, tickedSlot, rejected, block, tree, checkpoints>>
  BY DEF Attest, ProcessAttestation, Slash, InsertSlashedIndex, PayloadAttest, SetPTCVote,
         Equivocate, RecordBlockForEquivocation, UpdateHead, clock
<1>2. BoostOf(boost', tree', Known, tickedSlot')
  <2>1. CASE Attest \/ Slash \/ PayloadAttest \/ Equivocate
    <3>1. UNCHANGED boost
      BY <2>1 DEF Attest, ProcessAttestation, Slash, InsertSlashedIndex, PayloadAttest, SetPTCVote,
                  Equivocate, RecordBlockForEquivocation
    <3> QED
      BY <1>1, <3>1, Unchanged
  <2>2. CASE UpdateHead
    <3>1. PICK score : boost' = [boost EXCEPT !.previousRoot = boost.root, !.previousScore = score]
      BY <2>2 DEF UpdateHead
    <3>2. boost' = [root |-> boost.root, previousRoot |-> boost.root, previousScore |-> score]
      BY <3>1, Unchanged DEF BoostOf
    <3> QED
      BY <1>1, <3>2, Unchanged DEF BoostOf
  <2> QED
    BY <2>1, <2>2
<1>3. IInv'
  BY <1>1, <1>2, Unchanged, KeptInv
<1> QED
  BY <1>1, <1>3 DEF Stay

-----------------------------------------------------------------------------
(* The initial state.                                                      *)

\* The checkpoints of startup are checkpoints.
LEMMA AnchorCheckpoints ==
    /\ AnchorCheckpoint \in Checkpoints /\ NoCheckpoint \in Checkpoints
    /\ \A back \in Nat : BeforeAnchor(back) \in Checkpoints
<1>1. ToEpoch(AnchorSlot) \in Epochs /\ 0 \in Epochs
  BY EpochFacts, TimeAssumption DEF Slots
<1>2. \A back \in Nat : ToEpoch(AnchorSlot) >= back => ToEpoch(AnchorSlot) - back \in Epochs
  <2>1. MaxSlot \div SlotsPerEpoch \in Nat
    BY SMTT(30), TimeAssumption
  <2>2. \A m \in Nat : \A e \in 0..m, back \in Nat : e >= back => e - back \in 0..m
    BY SMTT(30)
  <2> QED
    BY <1>1, <2>1, <2>2 DEF Epochs
<1>3. \A back \in Nat : BeforeAnchor(back).epoch \in Epochs
  BY SMTT(30), <1>1, <1>2 DEF BeforeAnchor, Epochs
<1>4. \A back \in Nat : BeforeAnchor(back) = [epoch |-> BeforeAnchor(back).epoch, root |-> ZeroHash]
  BY DEF BeforeAnchor
<1> QED
  BY SMTT(30), <1>1, <1>3, <1>4, RootsAssumption DEF AnchorCheckpoint, NoCheckpoint, Checkpoints, OptRoots

\* The anchor is a block.
LEMMA AnchorBlockType ==
    ASSUME NEW p \in Proposers
    PROVE  AnchorBlock(p) \in Blocks /\ AnchorBlock(p).slot = AnchorSlot
<1> DEFINE roots == [e \in Epochs |-> IF EpochStart(e) >= AnchorSlot THEN Anchor ELSE ZeroHash]
           bits == [i \in 0..3 |-> ToEpoch(AnchorSlot) > i + 1]
           st == [previous |-> BeforeAnchor(2), current |-> BeforeAnchor(1),
                  finalized |-> BeforeAnchor(2), roots |-> roots, bits |-> bits,
                  prevTarget |-> FALSE, currTarget |-> FALSE]
<1>1. AnchorBlock(p) = [parent |-> NoNode, slot |-> AnchorSlot, proposer |-> p, state |-> st]
  BY DEF AnchorBlock
<1>2. roots \in [Epochs -> OptRoots] /\ bits \in [0..3 -> BOOLEAN]
  BY SMTT(30), RootsAssumption DEF OptRoots
<1>3. BeforeAnchor(2) \in Checkpoints /\ BeforeAnchor(1) \in Checkpoints
  BY AnchorCheckpoints
<1> HIDE DEF roots, bits
<1>4. st \in BeaconStates(Epochs, OptRoots)
  BY <1>2, <1>3 DEF BeaconStates, Checkpoints
<1> HIDE DEF st
<1> QED
  BY SMTT(30), <1>1, <1>4, TimeAssumption DEF Blocks, Slots

\* The tree of startup keeps the invariant of the tree.
LEMMA AnchorTreeInv ==
    /\ AnchorTree \in Trees /\ TreeInv(AnchorTree)
    /\ AnchorTree.slot[Anchor] = AnchorSlot
    /\ AllKnown(AnchorTree, {Anchor}) /\ MissingRejected(AnchorTree, {})
<1> DEFINE t == AnchorTree
<1>1. /\ t.empty = {Anchor} /\ t.full \subseteq {Anchor} /\ t.root = Anchor
      /\ t.slot = [r \in Roots |-> IF r = Anchor THEN AnchorSlot ELSE 0]
      /\ t.parent = [r \in Roots |-> NoNode] /\ t.path = [r \in Roots |-> {}]
      /\ t.children = [pn \in PayloadNodes |-> {}]
      /\ t.optimistic = [pn \in PayloadNodes |-> ~(RootOf(pn) = Anchor /\ AnchorValidated)]
  BY DEF AnchorTree
<1>2. t \in Trees
  <2> DEFINE slot == [r \in Roots |-> IF r = Anchor THEN AnchorSlot ELSE 0]
             target == [r \in Roots |->
                          IF r = Anchor /\ SinceEpochStarts(AnchorSlot) = 0 THEN Anchor ELSE ZeroHash]
             optimistic == [pn \in PayloadNodes |-> ~(RootOf(pn) = Anchor /\ AnchorValidated)]
  <2>1. slot \in [Roots -> Slots]
    BY SMTT(30), TimeAssumption DEF Slots
  <2>2. target \in [Roots -> OptRoots] /\ optimistic \in [PayloadNodes -> BOOLEAN]
    BY DEF OptRoots
  <2>3. t = [empty |-> {Anchor}, full |-> IF IsGloas(AnchorSlot) THEN {} ELSE {Anchor},
             root |-> Anchor, slot |-> slot, parent |-> [r \in Roots |-> NoNode],
             path |-> [r \in Roots |-> {}], target |-> target,
             children |-> [pn \in PayloadNodes |-> {}], optimistic |-> optimistic,
             finalizedDependentRoot |-> ZeroHash]
    BY DEF AnchorTree
  <2> HIDE DEF t, slot, target, optimistic
  <2> QED
    BY <2>1, <2>2, <2>3, RootsAssumption DEF Trees, OptRoots
<1> HIDE DEF t
<1>3. /\ Anchor \in Roots /\ t.parent[Anchor] = NoNode /\ t.path[Anchor] = {}
      /\ RootsOn(t, Anchor) = {} /\ t.slot[Anchor] = AnchorSlot
  BY SMTT(30), <1>1, RootsAssumption DEF RootsOn
<1>4. \A pn \in PayloadNodes : RootOf(pn) = Anchor => Above(t, pn) = {}
  BY <1>3 DEF Above
<1>5. Rooted(t)
  BY <1>1, <1>3 DEF Rooted
<1>6. Chains(t)
  BY <1>1, <1>3 DEF Chains, Transitive, Total, ParentNearest
<1>7. ValidatedChains(t)
  <2>1. \A a \in Upwards(t, Anchor) : a \in PayloadNodes /\ RootOf(a) = Anchor
    BY <1>3, <1>4, NodeFacts DEF Upwards
  <2> QED
    BY <1>1, <1>4, <2>1 DEF ValidatedChains
<1>8. ValidatedFull(t)
  BY SMTT(30), <1>1, NodeFacts, RootsAssumption DEF ValidatedFull
<1>9. AllKnown(t, {Anchor}) /\ MissingRejected(t, {})
  BY <1>1, <1>3 DEF AllKnown, MissingRejected
<1> QED
  BY <1>2, <1>3, <1>5, <1>6, <1>7, <1>8, <1>9 DEF TreeInv, t

\* The store starts with the invariant.
LEMMA InitInv == Init => IInv
<1> SUFFICES ASSUME Init PROVE IInv
  OBVIOUS
<1>1. PICK p \in Proposers : block = [r \in {Anchor} |-> AnchorBlock(p)]
  BY DEF Init
<1>2. /\ tree = AnchorTree /\ rejected = {} /\ currentSlot = StartSlot /\ tickedSlot = StartSlot
      /\ boost = [root |-> ZeroHash, previousRoot |-> ZeroHash, previousScore |-> 0]
      /\ checkpoints = [justified |-> AnchorCheckpoint, finalized |-> AnchorCheckpoint,
                        unrealizedJustified |-> NoCheckpoint, unrealizedFinalized |-> NoCheckpoint]
  BY DEF Init
<1>3. Known = {Anchor} /\ block[Anchor] \in Blocks /\ block[Anchor].slot = AnchorSlot
  BY <1>1, AnchorBlockType DEF Known
<1>4. StartSlot \in Slots /\ tickedSlot <= currentSlot
  BY SMTT(30), <1>2, InputsAssumption, TimeAssumption DEF Slots
<1>5. BoostOf(boost, tree, Known, tickedSlot)
  BY <1>2 DEF BoostOf, OptRoots
<1>6. TypeOK
  BY <1>2, <1>3, <1>4, AnchorTreeInv, AnchorCheckpoints, RootsAssumption DEF TypeOK, OptRoots
<1>7. SlotsOf(tree, block)
  BY <1>2, <1>3, AnchorTreeInv DEF SlotsOf, Known
<1> QED
  BY <1>2, <1>3, <1>4, <1>5, <1>6, <1>7, AnchorTreeInv DEF IInv

-----------------------------------------------------------------------------
(* The theorems.                                                           *)

\* Every step keeps the invariant and removes no validated block.
LEMMA NextInv == IInv /\ [Next]_vars => IInv' /\ (Stay \/ UNCHANGED vars)
<1> SUFFICES ASSUME IInv, [Next]_vars PROVE IInv' /\ (Stay \/ UNCHANGED vars)
  OBVIOUS
<1>1. CASE Next
  <2>1. \/ ImportBlock \/ ReimportBlock \/ ImportChain
        \/ ImportPayload \/ MarkFull
        \/ EngineValid
        \/ EngineInvalid
        \/ Tick \/ NewSlot
        \/ Attest \/ Slash \/ PayloadAttest \/ Equivocate \/ UpdateHead
    BY <1>1 DEF Next
  <2> QED
    BY <2>1, ImportStep, PayloadStep, ValidStep, InvalidStep, TimeStep, VoteStep
<1>2. CASE UNCHANGED vars
  BY <1>2 DEF vars, IInv, TypeOK, Known
<1> QED
  BY <1>1, <1>2

\* The store keeps the inductive invariant.
THEOREM StoreInvariant == Spec => []IInv
<1>1. IInv /\ [Next]_vars => IInv'
  BY NextInv
<1> QED
  BY <1>1, InitInv, PTL DEF Spec

\* The maps, the pointers and the checkpoints of the store hold roots, nodes and
\* epochs that exist.
THEOREM TypeCorrect == Spec => []TypeOK
<1>1. IInv => TypeOK
  BY DEF IInv
<1> QED
  BY <1>1, StoreInvariant, PTL

\* However the clock, the ticker and the imports interleave, a boosted block is
\* of the last ticked slot or a later one.
THEOREM BoostTimely == Spec => []BoostIsTimely
<1>1. IInv => BoostIsTimely
  BY DEF IInv, BoostOf, BoostIsTimely
<1> QED
  BY <1>1, StoreInvariant, PTL

\* The nodes above a validated node are validated, through every import, engine
\* verdict, failed import and prune.
THEOREM AncestryValidated == Spec => []OptimisticAncestry
<1>1. IInv => OptimisticAncestry
  BY Unchanged, ValidatedParent DEF OptimisticAncestry, TreeInv, ValidatedFull
<1> QED
  BY <1>1, StoreInvariant, PTL

\* Only pruning removes a validated block.
THEOREM ValidatedNeverRemoved == Spec => ValidatedStays
<1> DEFINE kept == \A r \in tree.empty \ tree'.empty :
                        tree.optimistic[Empty(r)] \/ tree'.root # tree.root
<1>1. IInv /\ [Next]_vars => [kept]_vars
  BY NextInv DEF Stay
<1>2. ValidatedStays <=> [][kept]_vars
  BY DEF ValidatedStays
<1> HIDE DEF kept
<1> QED
  BY <1>1, <1>2, StoreInvariant, PTL DEF Spec

-----------------------------------------------------------------------------
(* The store while it is undisturbed: the engine has rejected nothing, and *)
(* the finalized block is in the store, which is what the protocol         *)
(* guarantees with less than a third of faulty validators.                 *)

FinalizedInStore == checkpoints.finalized.root \in tree.empty

Undisturbed == rejected = {} /\ FinalizedInStore

\* A block is later than the block it builds on, which was made before.
LaterThanParent(b) ==
    /\ b.parent \in PayloadNodes /\ RootOf(b.parent) \in Known
    /\ block[RootOf(b.parent)].slot < b.slot

BlocksAscend == \A r \in Known \ {Anchor} : LaterThanParent(block[r])

\* The tree is whole, and the finalized block is its root.
WholeInv ==
    /\ BlocksAscend
    /\ Whole(tree)
    /\ tree.root = checkpoints.finalized.root

\* The step of PruneDropsIncompatible.
Drops == tree'.root # tree.root => CompatibleWithFinalized'

\* The start of an epoch is a number.
LEMMA EpochStartNat == \A e \in Epochs : EpochStart(e) \in Nat
<1>1. \A e, s \in Nat : e * s \in Nat
  BY SMTT(30)
<1> QED
  BY <1>1, EpochFacts, TimeAssumption DEF EpochStart

\* insert keeps the tree whole.
LEMMA ImportWhole ==
    ASSUME IInv, WholeInv, NEW r, NEW b, Importable(r, b), LaterThanParent(b), NEW timely
    PROVE  Whole(ImportResult(r, b, timely).tree)
<1>0. PICK i : i = ImportResult(r, b, timely)
  OBVIOUS
<1>1. tree \in Trees /\ TreeInv(tree) /\ r \in Roots /\ b \in Blocks /\ Whole(tree)
  BY DEF IInv, TypeOK, Importable, WholeInv
<1>2. CASE r \in tree.empty
  <2>1. i.tree = tree
    BY <1>0, <1>2 DEF inserted, ImportResult
  <2> QED
    BY <1>0, <1>1, <2>1
<1>3. CASE r \notin tree.empty
  <2>1. i.tree = insertNodes(tree, r, b.slot, b.parent)
    <3>1. i = insert(r, b, timely)
      BY <1>0, <1>3 DEF ImportResult
    <3>2. insert(r, b, timely).tree = insertNodes(tree, r, b.slot, b.parent)
      BY DEF insert
    <3> QED
      BY <3>1, <3>2
  <2>2. Fresh(tree, r) /\ b.slot \in Slots /\ b.parent \in PayloadNodes /\ Held(tree, b.parent)
    <3>1. b.slot \in Slots /\ b.parent \in PayloadNodes
      BY <1>1 DEF Blocks, LaterThanParent
    <3> QED
      BY <1>3, <3>1 DEF Importable, resolveParent, Held
  <2>3. i.tree \in Trees /\ IsInsertion(tree, i.tree, r, b.slot, b.parent)
    BY <1>1, <2>1, <2>2, InsertFields
  <2>4. tree.slot[RootOf(b.parent)] < b.slot
    BY DEF IInv, SlotsOf, LaterThanParent, Known
  <2> QED
    BY <1>0, <1>1, <2>2, <2>3, <2>4, InsertWhole
<1> QED
  BY <1>2, <1>3

\* updateCheckpoints keeps the tree whole; it fails only for a finalized block
\* that is not in the store.
LEMMA UpdateWhole ==
    ASSUME NEW t \in Trees, TreeInv(t), Whole(t), NEW chk \in StoreCheckpoints,
           NEW jc \in Checkpoints, NEW fc \in Checkpoints, t.root = chk.finalized.root,
           NEW c, c = updateCheckpoints(t, chk, jc, fc, FALSE)
    PROVE  /\ Whole(c.tree)
           /\ ~c.err => c.tree.root = c.checkpoints.finalized.root
           /\ c.err => c.tree = t /\ c.checkpoints.finalized.root \notin t.empty
           /\ c.tree.root # t.root =>
                \A x \in c.tree.empty \ {c.tree.root} :
                    c.tree.slot[x] > EpochStart(c.checkpoints.finalized.epoch)
<1> DEFINE justifies == supersedes(jc, chk.justified)
           finalizes == supersedes(fc, chk.finalized)
           pruned == IF finalizes THEN prune(t, fc) ELSE Kept(t)
           new == [chk EXCEPT !.justified = IF justifies THEN jc ELSE @,
                              !.finalized = IF finalizes THEN fc ELSE @]
<1>1. c.tree = pruned.tree /\ (c.err <=> pruned.err) /\ c.checkpoints = new
  BY DEF updateCheckpoints
<1>2. new.finalized = IF finalizes THEN fc ELSE chk.finalized
  <2> HIDE DEF justifies, finalizes
  <2> QED
    BY DEF StoreCheckpoints
<1>3. CASE finalizes
  <2>1. c.tree = prune(t, fc).tree /\ (c.err <=> prune(t, fc).err) /\ c.checkpoints.finalized = fc
    BY <1>1, <1>2, <1>3
  <2>2. EpochStart(fc.epoch) \in Nat
    BY EpochStartNat DEF Checkpoints
  <2>3. /\ Whole(c.tree)
        /\ fc.root \in t.empty => c.tree.root = fc.root /\ ~prune(t, fc).err
        /\ fc.root \notin t.empty => c.tree = t /\ prune(t, fc).err
        /\ c.tree.root # t.root =>
             \A x \in c.tree.empty \ {c.tree.root} : c.tree.slot[x] > EpochStart(fc.epoch)
    BY <2>1, <2>2, PruneWhole
  <2> HIDE DEF pruned, new
  <2> QED
    BY <2>1, <2>3
<1>4. CASE ~finalizes
  <2>1. c.tree = t /\ ~c.err /\ c.checkpoints.finalized = chk.finalized
    BY <1>1, <1>2, <1>4 DEF Kept
  <2> QED
    BY <2>1
<1> QED
  BY <1>3, <1>4

\* pullTips leaves the finalized checkpoint of the store alone.
LEMMA PullTipsFinalized ==
    ASSUME checkpoints \in StoreCheckpoints, NEW t, NEW ep, NEW r, NEW b, NEW unrealizedErr
    PROVE  pullTips(t, ep, r, b, unrealizedErr).checkpoints.finalized = checkpoints.finalized
<1> DEFINE p == pullTips(t, ep, r, b, unrealizedErr)
<1>1. \E x, y : p.checkpoints \in
            {checkpoints, [checkpoints EXCEPT !.unrealizedJustified = x, !.unrealizedFinalized = y]}
  BY DEF pullTips
<1> HIDE DEF p
<1> QED
  BY <1>1 DEF StoreCheckpoints, p

\* The blocks ascend with one more that is later than its parent.
LEMMA ImportAscends ==
    ASSUME IInv, BlocksAscend, NEW r, NEW b, Importable(r, b), LaterThanParent(b),
           block' = With(block, r, b)
    PROVE  BlocksAscend'
<1>1. Known' = Known \cup {r}
  BY DEF Known, With
<1>2. \A x \in Known : block'[x] = block[x]
  BY DEF Known, With, Importable
<1>3. block'[r] = b
  BY DEF Known, With
<1>4. ASSUME NEW x, LaterThanParent(x)
      PROVE  LaterThanParent(x)'
  BY <1>1, <1>2, <1>4 DEF LaterThanParent
<1>5. ASSUME NEW x \in Known' \ {Anchor}
      PROVE  LaterThanParent(block[x])'
  <2>1. CASE x = r
    <3>1. b.parent \in PayloadNodes /\ RootOf(b.parent) \in Known /\ block[RootOf(b.parent)].slot < b.slot
      BY DEF LaterThanParent
    <3> QED
      BY <1>1, <1>2, <1>3, <2>1, <3>1 DEF LaterThanParent
  <2>2. CASE x # r
    <3>1. x \in Known \ {Anchor} /\ block'[x] = block[x]
      BY <1>1, <1>2, <2>2
    <3>2. /\ block[x].parent \in PayloadNodes /\ RootOf(block[x].parent) \in Known
          /\ block[RootOf(block[x].parent)].slot < block[x].slot
      BY <3>1 DEF LaterThanParent, BlocksAscend
    <3> QED
      BY <1>1, <1>2, <3>1, <3>2 DEF LaterThanParent
  <2> QED
    BY <2>1, <2>2
<1> QED
  BY <1>5 DEF BlocksAscend

\* InsertNode keeps the tree whole.
LEMMA InsertNodeWhole ==
    ASSUME IInv, WholeInv, NEW r, NEW b, Importable(r, b), LaterThanParent(b), NEW timely,
           NEW unrealizedErr, InsertNode(r, b, timely, FALSE, unrealizedErr), FinalizedInStore'
    PROVE  WholeInv' /\ Drops
<1>1. PICK i : i = ImportResult(r, b, timely)
  OBVIOUS
<1>2. /\ i.tree \in Trees /\ TreeInv(i.tree) /\ i.tree.root = tree.root /\ Whole(i.tree)
      /\ i.pn = Empty(r) \/ i.pn = Full(r)
  <2>1. Imported(i, r, b)
    BY <1>1, ImportFacts
  <2>2. Whole(i.tree)
    BY <1>1, ImportWhole
  <2> QED
    BY <2>1, <2>2 DEF Imported
<1>3. /\ r \in Roots /\ b \in Blocks /\ i.pn \in PayloadNodes
      /\ checkpoints \in StoreCheckpoints
  BY <1>2, NodeFacts DEF Importable, IInv, TypeOK, StoreCheckpoints
<1>4. block' = With(block, r, b)
  BY DEF InsertNode, With, Known
<1>5. BlocksAscend'
  BY <1>4, ImportAscends DEF WholeInv
<1>6. CASE i.err
  <2>1. tree' = i.tree /\ UNCHANGED checkpoints
    BY <1>1, <1>6 DEF InsertNode, ImportResult
  <2> QED
    BY <1>2, <1>5, <2>1 DEF WholeInv, Drops
<1>7. CASE ~i.err
  <2> DEFINE pulled == pullTips(i.tree, i.epochs, r, b, unrealizedErr)
             chk == updateCheckpoints(i.tree, pulled.checkpoints, pulled.jc, pulled.fc, FALSE)
             undo == IF chk.err THEN removeNode(chk.tree, i.pn) ELSE Kept(chk.tree)
  <2>1. tree' = undo.tree /\ checkpoints' = chk.checkpoints
    <3>1. insertedNode(i, r, b, FALSE, unrealizedErr)
      BY <1>1, <1>7 DEF InsertNode, ImportResult
    <3> QED
      BY <3>1 DEF insertedNode
  <2>2. /\ pulled.checkpoints \in StoreCheckpoints
        /\ pulled.jc \in Checkpoints /\ pulled.fc \in Checkpoints
        /\ pulled.checkpoints.finalized = checkpoints.finalized
    BY SMTT(30), <1>3, PullTipsType, PullTipsFinalized
  <2> HIDE DEF pulled
  <2>3. i.tree.root = pulled.checkpoints.finalized.root
    BY <1>2, <2>2 DEF WholeInv
  <2>4. /\ Whole(chk.tree)
        /\ ~chk.err => chk.tree.root = chk.checkpoints.finalized.root
        /\ chk.err => chk.tree = i.tree /\ chk.checkpoints.finalized.root \notin i.tree.empty
        /\ chk.tree.root # i.tree.root =>
                \A x \in chk.tree.empty \ {chk.tree.root} :
                    chk.tree.slot[x] > EpochStart(chk.checkpoints.finalized.epoch)
    BY <1>2, <2>2, <2>3, UpdateWhole
  <2> HIDE DEF chk
  <2>5. CASE chk.err
    <3>1. tree' = removeNode(i.tree, i.pn).tree
      BY <2>1, <2>4, <2>5
    <3>2. tree'.empty \subseteq i.tree.empty
      BY <1>2, <1>3, <3>1, RemoveFields DEF IsShrinking
    <3> QED
      BY <2>1, <2>4, <2>5, <3>2 DEF FinalizedInStore
  <2>6. CASE ~chk.err
    <3>1. tree' = chk.tree
      BY <2>1, <2>6 DEF Kept
    <3>2. Drops
      BY <1>2, <2>1, <2>4, <3>1 DEF Drops, CompatibleWithFinalized
    <3> QED
      BY <1>5, <2>1, <2>4, <2>6, <3>1, <3>2 DEF WholeInv
  <2> QED
    BY <2>5, <2>6
<1> QED
  BY <1>6, <1>7

\* InsertChain keeps the tree whole.
LEMMA InsertChainWhole ==
    ASSUME IInv, WholeInv, NEW r, NEW b, Importable(r, b), r \notin tree.empty, LaterThanParent(b),
           NEW timely, NEW hasPayload, InsertChain(r, b, timely, hasPayload, FALSE), FinalizedInStore'
    PROVE  WholeInv' /\ Drops
<1>1. PICK i : i = ImportResult(r, b, timely)
  OBVIOUS
<1>2. /\ i.tree \in Trees /\ TreeInv(i.tree) /\ i.tree.root = tree.root /\ Whole(i.tree)
      /\ r \in i.tree.empty /\ \A x \in i.tree.empty : Full(r) \notin i.tree.path[x]
  <2>1. Imported(i, r, b)
    BY <1>1, ImportFacts
  <2>2. Whole(i.tree)
    BY <1>1, ImportWhole
  <2> QED
    BY <2>1, <2>2 DEF Imported
<1>3. /\ checkpoints \in StoreCheckpoints
      /\ b.state.current \in Checkpoints /\ b.state.finalized \in Checkpoints
  <2>1. b \in Blocks /\ checkpoints \in StoreCheckpoints
    BY DEF Importable, IInv, TypeOK, StoreCheckpoints
  <2>2. b.state \in BeaconStates(Epochs, OptRoots)
    BY <2>1 DEF Blocks
  <2> QED
    BY <2>1, <2>2, StateFields
<1>4. block' = With(block, r, b)
  BY DEF InsertChain, With, Known
<1>5. BlocksAscend'
  BY <1>4, ImportAscends DEF WholeInv
<1>6. CASE i.err
  <2>1. tree' = i.tree /\ UNCHANGED checkpoints
    BY <1>1, <1>6 DEF InsertChain, ImportResult
  <2> QED
    BY <1>2, <1>5, <2>1 DEF WholeInv, Drops
<1>7. CASE ~i.err
  <2> DEFINE newFull == hasPayload /\ r \notin i.tree.full
             t == IF newFull THEN makeFull(i.tree, r) ELSE i.tree
             chk == updateCheckpoints(t, checkpoints, b.state.current, b.state.finalized, FALSE)
  <2>1. tree' = chk.tree /\ checkpoints' = chk.checkpoints
    BY <1>1, <1>7 DEF InsertChain, ImportResult
  <2>2. t \in Trees /\ TreeInv(t) /\ Whole(t) /\ t.root = i.tree.root /\ t.empty = i.tree.empty
    <3>1. CASE newFull
      <4>1. t = makeFull(i.tree, r)
        BY <3>1
      <4>2. t \in Trees /\ IsNewFull(i.tree, t, r)
        BY <1>2, <3>1, <4>1, MakeFullFields
      <4> HIDE DEF t
      <4>3. TreeInv(t)
        BY <1>2, <3>1, <4>2, NewFullTree
      <4>4. Whole(t)
        BY <1>2, <3>1, <4>2, NewFullWhole
      <4> QED
        BY <4>2, <4>3, <4>4 DEF IsNewFull
    <3>2. CASE ~newFull
      <4>1. t = i.tree
        BY <3>2
      <4> HIDE DEF t
      <4> QED
        BY <1>2, <4>1
    <3> QED
      BY <3>1, <3>2
  <2> HIDE DEF t
  <2>3. t.root = checkpoints.finalized.root
    BY <1>2, <2>2 DEF WholeInv
  <2>4. /\ Whole(chk.tree)
        /\ ~chk.err => chk.tree.root = chk.checkpoints.finalized.root
        /\ chk.err => chk.tree = t /\ chk.checkpoints.finalized.root \notin t.empty
        /\ chk.tree.root # t.root =>
                \A x \in chk.tree.empty \ {chk.tree.root} :
                    chk.tree.slot[x] > EpochStart(chk.checkpoints.finalized.epoch)
    BY <1>3, <2>2, <2>3, UpdateWhole
  <2> HIDE DEF chk
  <2>5. ~chk.err
    BY <2>1, <2>4 DEF FinalizedInStore
  <2>6. Drops
    BY <1>2, <2>1, <2>2, <2>4 DEF Drops, CompatibleWithFinalized
  <2> QED
    BY <1>5, <2>1, <2>4, <2>5, <2>6 DEF WholeInv
<1> QED
  BY <1>6, <1>7

\* The imports keep the tree whole when the balances are found.
LEMMA ImportStepWhole ==
    ASSUME TRUE \notin BalanceErrors, IInv, WholeInv, FinalizedInStore',
           ImportBlock \/ ReimportBlock \/ ImportChain
    PROVE  WholeInv' /\ Drops
<1>1. \A e \in BalanceErrors : e = FALSE
  BY InputsAssumption
<1>2. ASSUME NEW r \in Roots, IsNew(r), NEW pn \in Parents, NEW slot \in SlotsAfter(pn),
             NEW b \in NewBlocks(r, pn, slot)
      PROVE  LaterThanParent(b)
  <2>1. pn \in PayloadNodes /\ RootOf(pn) \in tree.empty
    BY DEF Parents
  <2>2. RootOf(pn) \in Known /\ tree.slot[RootOf(pn)] = block[RootOf(pn)].slot
    BY <2>1 DEF IInv, AllKnown, SlotsOf, Known
  <2>3. slot \in Slots /\ tree.slot[RootOf(pn)] < slot
    BY InputsAssumption DEF SlotsAfter
  <2>4. b.parent = pn /\ b.slot = slot
    <3>1. TypeOK
      BY DEF IInv
    <3>2. block[RootOf(pn)].slot <= slot
      <4>1. block[RootOf(pn)].slot \in Slots
        BY <2>2, <3>1 DEF TypeOK, Blocks
      <4> QED
        BY SMTT(30), <2>2, <2>3, <4>1, TimeAssumption DEF Slots
    <3> QED
      BY SMTT(30), <2>1, <2>2, <2>3, <3>1, <3>2, NewBlocksType
  <2> QED
    BY <2>1, <2>2, <2>3, <2>4 DEF LaterThanParent
<1>3. CASE ImportBlock
  <2>1. PICK r, pn, slot, b, timely, balanceErr, unrealizedErr :
             /\ r \in Roots /\ pn \in Parents /\ slot \in SlotsAfter(pn) /\ b \in NewBlocks(r, pn, slot) /\ IsNew(r)
             /\ balanceErr \in BalanceErrors
             /\ InsertNode(r, b, timely, balanceErr, unrealizedErr)
    BY <1>3 DEF ImportBlock
  <2>2. Importable(r, b) /\ LaterThanParent(b) /\ balanceErr = FALSE
    BY <1>1, <1>2, <2>1, NewImportable
  <2> QED
    BY <2>1, <2>2, InsertNodeWhole
<1>4. CASE ReimportBlock
  <2>1. PICK r, balanceErr, unrealizedErr :
             /\ r \in Known /\ r # Anchor
             /\ r \in tree.empty \/ \A y \in tree.empty : r \notin RootsOn(tree, y)
             /\ balanceErr \in BalanceErrors
             /\ InsertNode(r, block[r], FALSE, balanceErr, unrealizedErr)
    BY <1>4 DEF ReimportBlock
  <2>2. Importable(r, block[r])
    BY <2>1, KnownImportable
  <2>3. LaterThanParent(block[r]) /\ balanceErr = FALSE
    BY <1>1, <2>1 DEF WholeInv, BlocksAscend
  <2> QED
    BY <2>1, <2>2, <2>3, InsertNodeWhole
<1>5. CASE ImportChain
  <2>1. PICK r, pn, slot, b, hasPayload, balanceErr :
             /\ r \in Roots /\ pn \in Parents /\ slot \in SlotsAfter(pn) /\ b \in NewBlocks(r, pn, slot) /\ IsNew(r)
             /\ balanceErr \in BalanceErrors
             /\ InsertChain(r, b, FALSE, hasPayload, balanceErr)
    BY <1>5 DEF ImportChain
  <2>2. Importable(r, b) /\ r \notin tree.empty /\ LaterThanParent(b) /\ balanceErr = FALSE
    BY <1>1, <1>2, <2>1, NewImportable
  <2> QED
    BY <2>1, <2>2, InsertChainWhole
<1> QED
  BY <1>3, <1>4, <1>5

\* A step that leaves the blocks, the finalized checkpoint and the root alone.
LEMMA KeptWhole ==
    ASSUME WholeInv, UNCHANGED <<block, checkpoints>>, tree'.root = tree.root, Whole(tree')
    PROVE  WholeInv' /\ Drops
  BY DEF WholeInv, BlocksAscend, LaterThanParent, Known, Drops

\* The payloads and the verdicts that reject nothing keep the tree whole.
LEMMA PayloadWhole ==
    ASSUME IInv, WholeInv, rejected' = {},
           ImportPayload \/ MarkFull \/ EngineValid \/ EngineInvalid
    PROVE  WholeInv' /\ Drops
<1>1. tree \in Trees /\ TreeInv(tree) /\ Whole(tree)
  BY Unchanged DEF WholeInv
<1>2. ASSUME NEW r \in tree.empty, r \notin tree.full, tree' = makeFull(tree, r),
             UNCHANGED <<block, checkpoints>>
      PROVE  WholeInv' /\ Drops
  <2>1. tree' \in Trees /\ IsNewFull(tree, tree', r)
    BY <1>1, <1>2, MakeFullFields
  <2>2. Whole(tree')
    BY <1>1, <1>2, <2>1, NewFullWhole
  <2>3. tree'.root = tree.root
    BY <2>1 DEF IsNewFull
  <2> QED
    BY <1>2, <2>2, <2>3, KeptWhole
<1>3. CASE ImportPayload
  <2>1. PICK r : InsertPayload(r)
    BY <1>3 DEF ImportPayload
  <2> QED
    BY <1>2, <2>1 DEF InsertPayload
<1>4. CASE MarkFull
  <2>1. PICK r : MarkFullNode(r)
    BY <1>4 DEF MarkFull
  <2> QED
    BY <1>2, <2>1 DEF MarkFullNode
<1>5. CASE EngineValid
  <2>1. PICK r : SetOptimisticToValid(r)
    BY <1>5 DEF EngineValid
  <2>2. PICK pn : tree' = setNodeAndParentValidated(tree, pn)
    BY <2>1 DEF SetOptimisticToValid
  <2>3. IsValidation(tree, tree', validatedFrom(tree, pn))
    BY <1>1, <2>2, ValidateFields
  <2>4. Whole(tree') /\ tree'.root = tree.root
    BY <1>1, <2>3, ValidateWhole DEF IsValidation
  <2>5. UNCHANGED <<block, checkpoints>>
    BY <2>1 DEF SetOptimisticToValid
  <2> QED
    BY <2>4, <2>5, KeptWhole
<1>6. CASE EngineInvalid
  <2>1. PICK r, parentRoot, hash, lastValidHash : SetOptimisticToInvalid(r, parentRoot, hash, lastValidHash)
    BY <1>6 DEF EngineInvalid
  <2>2. PICK pn \in invalidNodes(tree, r, parentRoot, hash, lastValidHash) :
          /\ tree' = removeNode(tree, pn).tree
          /\ rejected' = IF removeNode(tree, pn).err THEN rejected
                         ELSE rejected \cup removeNode(tree, pn).removed \cup {RootOf(pn)}
          /\ UNCHANGED <<block, checkpoints>>
    BY <2>1 DEF SetOptimisticToInvalid
  <2>3. removeNode(tree, pn).err
    BY <2>2
  <2>4. tree' = tree
    <3>1. removeNode(tree, pn) = Refused(tree)
      BY <2>3 DEF removeNode, removeNodeAndChildren
    <3> QED
      BY SMTT(30), <2>2, <3>1 DEF Refused
  <2> QED
    BY <1>1, <2>2, <2>4, KeptWhole
<1> QED
  BY <1>3, <1>4, <1>5, <1>6

\* The clock and the ticker keep the tree whole when the balances are found.
LEMMA TimeWhole ==
    ASSUME TRUE \notin BalanceErrors, IInv, WholeInv, FinalizedInStore', Tick \/ NewSlot
    PROVE  WholeInv' /\ Drops
<1>1. tree \in Trees /\ TreeInv(tree) /\ Whole(tree)
  BY Unchanged DEF WholeInv
<1>2. CASE UNCHANGED <<block, tree, checkpoints>>
  BY <1>1, <1>2, KeptWhole
<1>3. CASE NewSlot /\ updateUnrealizedCheckpoints
  <2>1. /\ checkpoints' = realizedCheckpoints(justifying(tree.empty), finalizing(tree.empty))
        /\ tree' = prune(tree, checkpoints'.finalized).tree /\ UNCHANGED block
    BY <1>3 DEF NewSlot, updateUnrealizedCheckpoints
  <2>2. checkpoints' \in StoreCheckpoints
    BY <2>1, Unchanged DEF realizedCheckpoints, StoreCheckpoints
  <2>3. EpochStart(checkpoints'.finalized.epoch) \in Nat
    BY <2>2, EpochStartNat DEF StoreCheckpoints, Checkpoints
  <2>4. /\ Whole(tree')
        /\ checkpoints'.finalized.root \in tree.empty => tree'.root = checkpoints'.finalized.root
        /\ checkpoints'.finalized.root \notin tree.empty => tree' = tree
        /\ tree'.root # tree.root =>
             \A x \in tree'.empty \ {tree'.root} :
                tree'.slot[x] > EpochStart(checkpoints'.finalized.epoch)
    BY SMTT(30), <1>1, <2>1, <2>3, PruneWhole
  <2>5. tree'.root = checkpoints'.finalized.root
    BY <2>4 DEF FinalizedInStore
  <2>6. BlocksAscend'
    BY <2>1 DEF WholeInv, BlocksAscend, LaterThanParent, Known
  <2> QED
    BY <2>4, <2>5, <2>6 DEF WholeInv, Drops, CompatibleWithFinalized
<1>4. CASE Tick
  BY <1>2, <1>4 DEF Tick, store
<1>5. CASE NewSlot
  <2>1. UNCHANGED <<block, tree, checkpoints>> \/ updateUnrealizedCheckpoints
    BY <1>5 DEF NewSlot
  <2> QED
    BY <1>2, <1>3, <1>5, <2>1
<1> QED
  BY <1>4, <1>5

\* Every step that leaves the store undisturbed keeps the tree whole.
LEMMA NextWhole ==
    ASSUME TRUE \notin BalanceErrors
    PROVE  IInv /\ WholeInv /\ [Next]_vars /\ Undisturbed' => WholeInv' /\ (Drops \/ UNCHANGED vars)
<1> SUFFICES ASSUME IInv, WholeInv, [Next]_vars, Undisturbed'
             PROVE  WholeInv' /\ (Drops \/ UNCHANGED vars)
  OBVIOUS
<1>1. rejected' = {} /\ FinalizedInStore'
  BY DEF Undisturbed
<1>2. CASE Next
  <2>1. \/ ImportBlock \/ ReimportBlock \/ ImportChain
        \/ ImportPayload \/ MarkFull \/ EngineValid \/ EngineInvalid
        \/ Tick \/ NewSlot
        \/ Attest \/ Slash \/ PayloadAttest \/ Equivocate \/ UpdateHead
    BY <1>2 DEF Next
  <2>2. CASE Attest \/ Slash \/ PayloadAttest \/ Equivocate \/ UpdateHead
    <3>1. UNCHANGED <<block, tree, checkpoints>>
      BY <2>2 DEF Attest, ProcessAttestation, Slash, InsertSlashedIndex, PayloadAttest,
                SetPTCVote, Equivocate, RecordBlockForEquivocation, UpdateHead
    <3> QED
      BY <3>1, KeptWhole DEF WholeInv
  <2> QED
    BY <1>1, <2>1, <2>2, ImportStepWhole, PayloadWhole, TimeWhole
<1>3. CASE UNCHANGED vars
  BY <1>3 DEF vars, WholeInv, BlocksAscend, LaterThanParent, Known
<1> QED
  BY <1>2, <1>3

\* The store starts with a whole tree.
LEMMA InitWhole == Init => WholeInv
<1> SUFFICES ASSUME Init PROVE WholeInv
  OBVIOUS
<1>1. /\ tree = AnchorTree /\ checkpoints.finalized = AnchorCheckpoint
      /\ \E p \in Proposers : block = [r \in {Anchor} |-> AnchorBlock(p)]
  BY DEF Init
<1>2. /\ tree.empty = {Anchor} /\ tree.full \subseteq {Anchor} /\ tree.root = Anchor
      /\ tree.path = [r \in Roots |-> {}] /\ tree.children = [pn \in PayloadNodes |-> {}]
  BY <1>1 DEF AnchorTree
<1>3. RootsOn(tree, Anchor) = {}
  BY <1>2, RootsAssumption DEF RootsOn
<1>4. Whole(tree)
  BY <1>2, <1>3 DEF Whole, Listed, Attached, Ascending
<1>5. BlocksAscend
  BY <1>1 DEF BlocksAscend, Known
<1> QED
  BY SMTT(30), <1>1, <1>2, <1>4, <1>5 DEF WholeInv, AnchorCheckpoint

-----------------------------------------------------------------------------
(* The theorems about the undisturbed store.                               *)

\* While the store is undisturbed and the balances of the justified states are
\* found, its tree is whole.
THEOREM WholeStore ==
    ASSUME TRUE \notin BalanceErrors
    PROVE  Spec /\ []Undisturbed => []WholeInv
<1>1. Init => WholeInv
  BY InitWhole
<1>2. IInv /\ WholeInv /\ [Next]_vars /\ Undisturbed' => WholeInv'
  BY NextWhole
<1> QED
  BY <1>1, <1>2, StoreInvariant, PTL DEF Spec

\* Nothing that insert and prune leave in the maps is out of reach of the walks
\* from the tree root.
THEOREM NothingOrphaned ==
    ASSUME TRUE \notin BalanceErrors
    PROVE  Spec /\ []Undisturbed => []NoOrphans
<1>1. IInv /\ WholeInv => NoOrphans
  BY Unchanged, WholeReachable DEF WholeInv, NoOrphans
<1> QED
  BY <1>1, WholeStore, StoreInvariant, PTL

\* Every child that the walks look up is in the map and points back at its parent.
THEOREM ChildrenAlwaysKnown ==
    ASSUME TRUE \notin BalanceErrors
    PROVE  Spec /\ []Undisturbed => []ChildrenKnown
<1>1. IInv /\ WholeInv => ChildrenKnown
  BY Unchanged DEF WholeInv, Whole, Listed, TreeInv, Rooted, ChildrenKnown
<1> QED
  BY <1>1, WholeStore, StoreInvariant, PTL

\* The finalized block is the root of the tree and every block builds on it.
THEOREM AlwaysPruned ==
    ASSUME TRUE \notin BalanceErrors
    PROVE  Spec /\ []Undisturbed => []PrunedToFinalized
<1>1. ASSUME IInv, WholeInv
      PROVE  PrunedToFinalized
  <2>1. /\ tree \in Trees /\ TreeInv(tree) /\ Whole(tree) /\ tree.root = checkpoints.finalized.root
    BY <1>1, Unchanged DEF WholeInv
  <2>2. tree.root \in tree.empty /\ tree.parent[tree.root] = NoNode
    BY <2>1 DEF TreeInv, Rooted
  <2>3. ASSUME NEW r \in tree.empty
        PROVE  Descends(r, tree.root)
    <3>1. r = tree.root \/ r \in ConsensusBelow(tree, tree.root)
      BY <2>1, WholeReachable DEF Reachable
    <3>2. r = tree.root \/ tree.root \in RootsOn(tree, r)
      BY <2>1, <2>2, <3>1, BelowLater
    <3>3. r # ZeroHash
      BY <2>1, TreeFields, RootsAssumption
    <3> QED
      BY <3>2, <3>3 DEF Descends
  <2> QED
    BY <2>1, <2>2, <2>3 DEF PrunedToFinalized
<1> QED
  BY <1>1, WholeStore, StoreInvariant, PTL

\* When the root of the tree changes, no block stays that is too old to have the
\* finalized checkpoint in its chain.
THEOREM IncompatibleAlwaysDropped ==
    ASSUME TRUE \notin BalanceErrors
    PROVE  Spec /\ []Undisturbed => PruneDropsIncompatible
<1>1. IInv /\ WholeInv /\ [Next]_vars /\ Undisturbed' => [Drops]_vars
  BY NextWhole
<1>2. PruneDropsIncompatible <=> [][Drops]_vars
  BY DEF PruneDropsIncompatible, Drops
<1> QED
  BY <1>1, <1>2, WholeStore, StoreInvariant, PTL DEF Spec

=============================================================================
