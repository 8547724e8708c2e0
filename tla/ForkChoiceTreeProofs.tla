------------------------ MODULE ForkChoiceTreeProofs ------------------------
(***************************************************************************)
(* What each operation of ForkChoiceTree does to the tree, for every value *)
(* of the constants: TreeInv, which every insertion, removal, prune and    *)
(* validation keeps, and Whole, which all of them but a removal keep.      *)
(***************************************************************************)
EXTENDS ForkChoiceTree, WellFoundedInduction, TLAPS

\* A step is first-order unless it says otherwise.
USE ZenonT(30)

-----------------------------------------------------------------------------
(* The invariant of the tree, in parts.                                    *)

\* The root of the tree is in the store and has no parent; no block is its own child.
Rooted(t) ==
    /\ t.root \in t.empty
    /\ t.parent[t.root] = NoNode
    /\ \A pn \in PayloadNodes : RootOf(pn) \notin t.children[pn]

\* What a block builds on includes what that builds on.
Transitive(t, x) ==
    \A y \in {x} \cup RootsOn(t, x) : \A q \in t.path[y] : t.path[RootOf(q)] \subseteq t.path[y]

\* What a block builds on is a chain.
Total(t, x) ==
    \A p, q \in t.path[x] : p = q \/ p \in t.path[RootOf(q)] \/ q \in t.path[RootOf(p)]

\* The parent pointer is the nearest of what a block builds on.
ParentNearest(t, x) ==
    t.parent[x] # NoNode =>
        t.parent[x] \in t.path[x] /\ \A g \in RootsOn(t, x) : t.parent[x] \notin t.path[g]

Chains(t) ==
    \A x \in t.empty :
        x \notin RootsOn(t, x) /\ Transitive(t, x) /\ Total(t, x) /\ ParentNearest(t, x)

\* The payload nodes of a live block, and those a walk up from it meets.
Upwards(t, x) ==
    Above(t, Empty(x)) \cup {Empty(x)} \cup (IF x \in t.full THEN {Full(x)} ELSE {})

\* Above a validated node every node is validated, removed ones included.
ValidatedChains(t) ==
    \A x \in t.empty : \A a \in Upwards(t, x) :
        ~t.optimistic[a] => \A b \in Above(t, a) : ~t.optimistic[b]

ValidatedFull(t) == \A r \in t.full : ~t.optimistic[Full(r)] => ~t.optimistic[Empty(r)]

\* Only a rejected payload is missing under a live block that builds on it.
MissingRejected(t, gone) ==
    \A x \in t.empty : \A y \in t.empty \ t.full : Full(y) \in t.path[x] => y \in gone

\* The store holds blocks that have been made, on blocks that have been made.
AllKnown(t, known) ==
    /\ t.empty \subseteq known
    /\ \A x \in t.empty : RootsOn(t, x) \subseteq known

TreeInv(t) == Rooted(t) /\ Chains(t) /\ ValidatedChains(t) /\ ValidatedFull(t)

\* No block of the store is r or builds on it.
Fresh(t, r) == r \notin t.empty /\ \A x \in t.empty : r \notin RootsOn(t, x)

-----------------------------------------------------------------------------
(* Payload nodes.                                                          *)

\* A payload node is the empty or the full node of its root.
LEMMA NodeFacts ==
    /\ NoNode \notin PayloadNodes
    /\ \A pn \in PayloadNodes :
            /\ RootOf(pn) \in Roots /\ IsFull(pn) \in BOOLEAN
            /\ IsFull(pn) => pn = Full(RootOf(pn))
            /\ ~IsFull(pn) => pn = Empty(RootOf(pn))
    /\ \A r \in Roots :
            /\ Empty(r) \in PayloadNodes /\ Full(r) \in PayloadNodes
            /\ RootOf(Empty(r)) = r /\ RootOf(Full(r)) = r
            /\ ~IsFull(Empty(r)) /\ IsFull(Full(r))
<1>1. NoNode \notin PayloadNodes
  BY RootsAssumption DEF NoNode, PayloadNodes, ZeroHash
<1>2. ASSUME NEW pn \in PayloadNodes
      PROVE  /\ RootOf(pn) \in Roots /\ IsFull(pn) \in BOOLEAN
             /\ IsFull(pn) => pn = Full(RootOf(pn))
             /\ ~IsFull(pn) => pn = Empty(RootOf(pn))
  <2>1. PICK r \in Roots, b \in BOOLEAN : pn = <<r, b>>
    BY SMTT(30) DEF PayloadNodes
  <2>2. CASE b = TRUE
    BY <2>1, <2>2 DEF RootOf, IsFull, Full
  <2>3. CASE b = FALSE
    BY <2>1, <2>3 DEF RootOf, IsFull, Empty
  <2> QED
    BY <2>2, <2>3
<1>3. ASSUME NEW r \in Roots
      PROVE  /\ Empty(r) \in PayloadNodes /\ Full(r) \in PayloadNodes
             /\ RootOf(Empty(r)) = r /\ RootOf(Full(r)) = r
             /\ ~IsFull(Empty(r)) /\ IsFull(Full(r))
  BY DEF PayloadNodes, RootOf, IsFull, Empty, Full
<1> QED
  BY <1>1, <1>2, <1>3

\* The fields of a tree.
LEMMA TreeFields ==
    ASSUME NEW t \in Trees
    PROVE  /\ t.empty \subseteq Roots /\ t.full \subseteq Roots /\ t.root \in Roots
           /\ t.slot \in [Roots -> Slots]
           /\ t.parent \in [Roots -> PayloadNodes \cup {NoNode}]
           /\ t.path \in [Roots -> SUBSET PayloadNodes]
           /\ t.target \in [Roots -> OptRoots]
           /\ t.children \in [PayloadNodes -> SUBSET Roots]
           /\ t.optimistic \in [PayloadNodes -> BOOLEAN]
           /\ t.finalizedDependentRoot \in OptRoots
  BY DEF Trees

\* What insertNodes does to the fields that the invariant reads.
IsInsertion(t, u, r, slot, parent) ==
    /\ u.empty = t.empty \cup {r}
    /\ t.full \subseteq u.full /\ u.full \subseteq t.full \cup {r}
    /\ u.root = t.root
    /\ u.slot = [t.slot EXCEPT ![r] = slot]
    /\ u.parent = [t.parent EXCEPT ![r] = parent]
    /\ u.path = [t.path EXCEPT ![r] = {parent} \cup t.path[RootOf(parent)]]
    /\ u.children = [t.children EXCEPT ![Empty(r)] = {}, ![Full(r)] = {},
                                       ![parent] = @ \cup {r}]
    /\ u.optimistic = [t.optimistic EXCEPT ![Empty(r)] = t.optimistic[parent],
                                           ![Full(r)] = TRUE]

\* insertNodes sets the fields of r and links it under the parent.
LEMMA InsertFields ==
    ASSUME NEW t \in Trees, NEW r \in Roots, NEW slot \in Slots, NEW parent \in PayloadNodes
    PROVE  /\ insertNodes(t, r, slot, parent) \in Trees
           /\ IsInsertion(t, insertNodes(t, r, slot, parent), r, slot, parent)
<1>1. targetOf(t, r, slot, parent) \in OptRoots
  BY NodeFacts DEF targetOf, Trees, OptRoots
<1>2. insertNodes(t, r, slot, parent) \in Trees
  BY SMTT(30), <1>1, NodeFacts DEF insertNodes, Trees
<1>3. IsInsertion(t, insertNodes(t, r, slot, parent), r, slot, parent)
  BY NodeFacts DEF insertNodes, IsInsertion, Trees
<1> QED
  BY <1>2, <1>3

\* What makeFull does to the fields that the invariant reads.
IsNewFull(t, u, r) ==
    /\ u.empty = t.empty /\ u.full = t.full \cup {r} /\ u.root = t.root
    /\ u.slot = t.slot /\ u.parent = t.parent /\ u.path = t.path
    /\ u.children = [t.children EXCEPT ![Full(r)] = {}]
    /\ u.optimistic = [t.optimistic EXCEPT ![Full(r)] = TRUE]

\* makeFull adds an optimistic full node.
LEMMA MakeFullFields ==
    ASSUME NEW t \in Trees, NEW r \in t.empty, r \notin t.full
    PROVE  makeFull(t, r) \in Trees /\ IsNewFull(t, makeFull(t, r), r)
<1>1. r \in Roots /\ Full(r) \in PayloadNodes
  BY NodeFacts DEF Trees
<1> DEFINE u == makeFull(t, r)
<1>2. u = [t EXCEPT !.full = @ \cup {r},
                    !.children = [@ EXCEPT ![Full(r)] = {}],
                    !.optimistic = [@ EXCEPT ![Full(r)] = TRUE]]
  BY DEF makeFull
<1>3. IsNewFull(t, u, r)
  BY <1>1, <1>2 DEF IsNewFull, Trees
<1>4. u \in Trees
  <2> DEFINE c == [t.children EXCEPT ![Full(r)] = {}]
             o == [t.optimistic EXCEPT ![Full(r)] = TRUE]
  <2>1. /\ t.full \cup {r} \subseteq Roots
        /\ c \in [PayloadNodes -> SUBSET Roots]
        /\ o \in [PayloadNodes -> BOOLEAN]
    BY <1>1 DEF Trees
  <2>2. u = [t EXCEPT !.full = t.full \cup {r}, !.children = c, !.optimistic = o]
    BY <1>2
  <2> HIDE DEF c, o, u
  <2> QED
    BY <2>1, <2>2 DEF Trees
<1> QED
  BY <1>3, <1>4


-----------------------------------------------------------------------------
(* Insertion.                                                              *)

\* What a walk up from a payload node meets depends on its root only.
LEMMA AboveByRoot ==
    ASSUME NEW t, NEW p, NEW q, RootOf(p) = RootOf(q)
    PROVE  Above(t, p) = Above(t, q)
  BY DEF Above

\* A fresh block changes nothing for the blocks of the store.
LEMMA InsertFrame ==
    ASSUME NEW t \in Trees, Chains(t), NEW r \in Roots, Fresh(t, r),
           NEW slot \in Slots, NEW parent \in PayloadNodes, NEW x \in t.empty,
           NEW u \in Trees, IsInsertion(t, u, r, slot, parent)
    PROVE  /\ RootsOn(u, x) = RootsOn(t, x)
           /\ \A y \in {x} \cup RootsOn(t, x) :
                /\ y \in Roots /\ y # r
                /\ u.path[y] = t.path[y] /\ u.parent[y] = t.parent[y]
                /\ RootsOn(u, y) = RootsOn(t, y)
                /\ RootsOn(t, y) \subseteq RootsOn(t, x)
           /\ \A a \in PayloadNodes : RootOf(a) \in {x} \cup RootsOn(t, x) =>
                /\ Above(u, a) = Above(t, a)
                /\ u.optimistic[a] = t.optimistic[a]
                /\ \A b \in Above(t, a) : b \in PayloadNodes /\ RootOf(b) \in RootsOn(t, x)
<1>1. /\ u.path = [t.path EXCEPT ![r] = {parent} \cup t.path[RootOf(parent)]]
      /\ u.parent = [t.parent EXCEPT ![r] = parent]
      /\ u.optimistic = [t.optimistic EXCEPT ![Empty(r)] = t.optimistic[parent],
                                             ![Full(r)] = TRUE]
  BY DEF IsInsertion
<1>2. ASSUME NEW y \in {x} \cup RootsOn(t, x)
      PROVE  /\ y \in Roots /\ y # r
             /\ u.path[y] = t.path[y] /\ u.parent[y] = t.parent[y]
             /\ RootsOn(u, y) = RootsOn(t, y)
             /\ RootsOn(t, y) \subseteq RootsOn(t, x)
  <2>1. y \in Roots /\ y # r
    BY SMTT(30), NodeFacts, TreeFields DEF Fresh, RootsOn
  <2>2. u.path[y] = t.path[y] /\ u.parent[y] = t.parent[y]
    BY SMTT(30), <1>1, <2>1, TreeFields
  <2>3. t.path[y] \subseteq t.path[x]
    BY DEF Chains, Transitive, RootsOn
  <2> QED
    BY <2>1, <2>2, <2>3 DEF RootsOn
<1>3. ASSUME NEW a \in PayloadNodes, RootOf(a) \in {x} \cup RootsOn(t, x)
      PROVE  /\ Above(u, a) = Above(t, a)
             /\ u.optimistic[a] = t.optimistic[a]
             /\ \A b \in Above(t, a) : b \in PayloadNodes /\ RootOf(b) \in RootsOn(t, x)
  <2>1. Above(u, a) = Above(t, a)
    BY <1>2, <1>3 DEF Above
  <2>2. a # Empty(r) /\ a # Full(r)
    BY <1>2, <1>3, NodeFacts
  <2>3. u.optimistic[a] = t.optimistic[a]
    BY SMTT(30), <1>1, <2>2, TreeFields
  <2>4. \A b \in Above(t, a) : b \in t.path[RootOf(a)]
    BY DEF Above
  <2>5. RootOf(a) \in Roots /\ RootsOn(t, RootOf(a)) \subseteq RootsOn(t, x)
    BY <1>2, <1>3
  <2>6. \A b \in t.path[RootOf(a)] : b \in PayloadNodes /\ RootOf(b) \in RootsOn(t, RootOf(a))
    BY <2>5, TreeFields DEF RootsOn
  <2> QED
    BY <2>1, <2>3, <2>4, <2>5, <2>6
<1> QED
  BY <1>2, <1>3

\* The block under which r is inserted.
LEMMA InsertedOn ==
    ASSUME NEW t \in Trees, Chains(t), NEW r \in Roots, Fresh(t, r),
           NEW slot \in Slots, NEW parent \in PayloadNodes, RootOf(parent) \in t.empty,
           NEW u \in Trees, IsInsertion(t, u, r, slot, parent)
    PROVE  /\ u.path[r] = {parent} \cup t.path[RootOf(parent)]
           /\ u.parent[r] = parent
           /\ RootsOn(u, r) = {RootOf(parent)} \cup RootsOn(t, RootOf(parent))
           /\ Above(u, Empty(r)) \subseteq {parent} \cup Above(t, parent)
<1> DEFINE p == RootOf(parent)
<1>1. u.path[r] = {parent} \cup t.path[p] /\ u.parent[r] = parent
  BY SMTT(30), TreeFields DEF IsInsertion
<1>2. RootsOn(u, r) = {p} \cup RootsOn(t, p)
  BY <1>1 DEF RootsOn
<1>3. \A y \in {p} \cup RootsOn(t, p) : u.path[y] = t.path[y] /\ u.parent[y] = t.parent[y]
  BY SMTT(30), InsertFrame
<1>4. ASSUME NEW q \in Above(u, Empty(r)), q # parent
      PROVE  q \in Above(t, parent)
  <2>1. q \in u.path[r] /\ \A g \in {r} \cup RootsOn(u, r) : q \in u.path[g] => u.parent[g] # NoNode
    BY NodeFacts DEF Above
  <2>2. q \in t.path[p]
    BY <2>1, <1>1, <1>4
  <2>3. \A g \in {p} \cup RootsOn(t, p) : q \in t.path[g] => t.parent[g] # NoNode
    BY <2>1, <1>2, <1>3
  <2> QED
    BY <2>2, <2>3 DEF Above
<1> QED
  BY <1>1, <1>2, <1>4

\* A block inserted under a node of the store keeps the chains.
LEMMA InsertChains ==
    ASSUME NEW t \in Trees, Chains(t), NEW r \in Roots, Fresh(t, r),
           NEW slot \in Slots, NEW parent \in PayloadNodes, RootOf(parent) \in t.empty,
           NEW u \in Trees, IsInsertion(t, u, r, slot, parent)
    PROVE  Chains(u)
<1> DEFINE p == RootOf(parent)
<1>1. u.empty = t.empty \cup {r}
  BY DEF IsInsertion
<1>2. ASSUME NEW x \in t.empty
      PROVE  x \notin RootsOn(u, x) /\ Transitive(u, x) /\ Total(u, x) /\ ParentNearest(u, x)
  <2>1. /\ RootsOn(u, x) = RootsOn(t, x)
        /\ \A y \in {x} \cup RootsOn(t, x) : u.path[y] = t.path[y] /\ u.parent[y] = t.parent[y]
        /\ \A y \in {x} \cup RootsOn(t, x) : RootsOn(t, y) \subseteq RootsOn(t, x)
    BY SMTT(30), InsertFrame
  <2>2. x \notin RootsOn(t, x) /\ Transitive(t, x) /\ Total(t, x) /\ ParentNearest(t, x)
    BY DEF Chains
  <2>3. \A y \in {x} \cup RootsOn(t, x) : \A q \in t.path[y] : RootOf(q) \in RootsOn(t, x)
    BY <2>1 DEF RootsOn
  <2>4. Transitive(u, x)
    BY <2>1, <2>2, <2>3 DEF Transitive
  <2>5. Total(u, x)
    BY <2>1, <2>2, <2>3 DEF Total
  <2>6. ParentNearest(u, x)
    BY <2>1, <2>2 DEF ParentNearest
  <2> QED
    BY <2>1, <2>2, <2>4, <2>5, <2>6
<1>3. r \notin RootsOn(u, r) /\ Transitive(u, r) /\ Total(u, r) /\ ParentNearest(u, r)
  <2>1. /\ u.path[r] = {parent} \cup t.path[p] /\ u.parent[r] = parent
        /\ RootsOn(u, r) = {p} \cup RootsOn(t, p)
    BY SMTT(30), InsertedOn
  <2>2. /\ p \notin RootsOn(t, p) /\ Transitive(t, p) /\ Total(t, p)
        /\ \A y \in {p} \cup RootsOn(t, p) : y # r /\ u.path[y] = t.path[y]
        /\ \A y \in {p} \cup RootsOn(t, p) : RootsOn(t, y) \subseteq RootsOn(t, p)
    BY SMTT(30), InsertFrame DEF Chains
  <2>3. \A y \in {p} \cup RootsOn(t, p) : \A q \in t.path[y] : RootOf(q) \in RootsOn(t, p)
    BY <2>2 DEF RootsOn
  <2>4. r \notin RootsOn(u, r)
    BY <2>1, <2>2
  <2>5. Transitive(u, r)
    BY SMTT(30), <2>1, <2>2, <2>3 DEF Transitive
  <2>6. Total(u, r)
    BY <2>1, <2>2, <2>3 DEF Total
  <2>7. \A y \in {p} \cup RootsOn(t, p) : parent \notin t.path[y]
    BY <2>2, <2>3 DEF RootsOn
  <2>8. ParentNearest(u, r)
    BY <2>1, <2>2, <2>7 DEF ParentNearest
  <2> QED
    BY <2>4, <2>5, <2>6, <2>8
<1> QED
  BY <1>1, <1>2, <1>3 DEF Chains

\* A block inserted under a node of the store keeps the invariant of the tree.
LEMMA InsertTree ==
    ASSUME NEW t \in Trees, TreeInv(t), NEW r \in Roots, Fresh(t, r),
           NEW slot \in Slots, NEW parent \in PayloadNodes, RootOf(parent) \in t.empty,
           IsFull(parent) => RootOf(parent) \in t.full,
           NEW u \in Trees, IsInsertion(t, u, r, slot, parent)
    PROVE  TreeInv(u)
<1> DEFINE p == RootOf(parent)
<1> USE DEF TreeInv
<1>1. Chains(u)
  BY InsertChains
<1>2. /\ u.empty = t.empty \cup {r} /\ u.root = t.root
      /\ t.full \subseteq u.full /\ u.full \subseteq t.full \cup {r}
      /\ p \in Roots /\ p # r
      /\ u.optimistic[Empty(r)] = t.optimistic[parent] /\ u.optimistic[Full(r)] = TRUE
      /\ \A a \in PayloadNodes : RootOf(a) # r => u.optimistic[a] = t.optimistic[a]
  <2>1. Empty(r) # Full(r) /\ \A a \in PayloadNodes : RootOf(a) # r => a # Empty(r) /\ a # Full(r)
    BY NodeFacts
  <2>2. /\ u.optimistic[Empty(r)] = t.optimistic[parent] /\ u.optimistic[Full(r)] = TRUE
        /\ \A a \in PayloadNodes : RootOf(a) # r => u.optimistic[a] = t.optimistic[a]
    <3>1. /\ t.optimistic \in [PayloadNodes -> BOOLEAN]
          /\ u.optimistic = [t.optimistic EXCEPT ![Empty(r)] = t.optimistic[parent],
                                                 ![Full(r)] = TRUE]
      BY TreeFields DEF IsInsertion
    <3> QED
      BY <2>1, <3>1, NodeFacts
  <2>3. p \in Roots /\ p # r
    BY NodeFacts DEF Fresh
  <2> QED
    BY <2>2, <2>3 DEF IsInsertion
<1>3. Rooted(u)
  <2>1. u.parent[t.root] = t.parent[t.root]
    BY TreeFields DEF IsInsertion, Rooted, Fresh
  <2>2. ASSUME NEW pn \in PayloadNodes
        PROVE  RootOf(pn) \notin u.children[pn]
    <3>1. u.children[pn] \subseteq t.children[pn] \/ (pn = parent /\ u.children[pn] \subseteq t.children[pn] \cup {r})
      <4>1. /\ t.children \in [PayloadNodes -> SUBSET Roots]
            /\ u.children = [t.children EXCEPT ![Empty(r)] = {}, ![Full(r)] = {},
                                               ![parent] = @ \cup {r}]
        BY TreeFields DEF IsInsertion
      <4>2. parent # Empty(r) /\ parent # Full(r)
        BY <1>2, NodeFacts
      <4> QED
        BY SMTT(30), <4>1, <4>2, NodeFacts
    <3> QED
      BY <3>1, <1>2 DEF Rooted
  <2> QED
    BY <1>2, <2>1, <2>2 DEF Rooted
<1>4. ValidatedFull(u)
  BY <1>2, NodeFacts, TreeFields DEF ValidatedFull
<1>5. ValidatedChains(u)
  <2>1. ASSUME NEW x \in t.empty, NEW a \in Upwards(u, x), ~u.optimistic[a], NEW b \in Above(u, a)
        PROVE  ~u.optimistic[b]
    <3>1. x \in Roots /\ x # r /\ RootOf(Empty(x)) = x /\ RootOf(Full(x)) = x
      BY NodeFacts, TreeFields DEF Fresh
    <3>2. a \in Upwards(t, x) /\ a \in PayloadNodes /\ RootOf(a) \in {x} \cup RootsOn(t, x)
      BY SMTT(30), <1>2, <2>1, <3>1, InsertFrame, NodeFacts DEF Upwards
    <3>3. ~t.optimistic[a] /\ b \in Above(t, a)
      BY SMTT(30), <2>1, <3>2, InsertFrame
    <3>4. ~t.optimistic[b]
      BY <3>2, <3>3 DEF ValidatedChains
    <3>5. b \in PayloadNodes /\ RootOf(b) \in RootsOn(t, x)
      BY <3>2, <3>3, InsertFrame
    <3> QED
      BY SMTT(30), <3>4, <3>5, InsertFrame
  <2>2. ASSUME NEW a \in Upwards(u, r), ~u.optimistic[a], NEW b \in Above(u, a)
        PROVE  ~u.optimistic[b]
    <3>1. parent \in Upwards(t, p) /\ Above(t, parent) = Above(t, Empty(p))
      BY SMTT(30), <1>2, NodeFacts, AboveByRoot DEF Upwards
    <3>2. \A c \in {parent} \cup Above(t, parent) :
            /\ c \in PayloadNodes /\ RootOf(c) \in {p} \cup RootsOn(t, p)
            /\ Above(u, c) = Above(t, c) /\ c \in Upwards(t, p)
            /\ u.optimistic[c] = t.optimistic[c]
      <4>1. p \in t.empty /\ RootOf(parent) \in {p} \cup RootsOn(t, p)
        OBVIOUS
      <4>2. \A c \in PayloadNodes : RootOf(c) \in {p} \cup RootsOn(t, p) =>
              /\ Above(u, c) = Above(t, c)
              /\ u.optimistic[c] = t.optimistic[c]
              /\ \A d \in Above(t, c) : d \in PayloadNodes /\ RootOf(d) \in RootsOn(t, p)
        BY <4>1, InsertFrame
      <4>3. \A c \in Above(t, parent) : c \in PayloadNodes /\ RootOf(c) \in RootsOn(t, p)
        BY <4>1, <4>2
      <4>4. {parent} \cup Above(t, parent) \subseteq Upwards(t, p)
        BY <3>1 DEF Upwards
      <4> QED
        BY <4>1, <4>2, <4>3, <4>4
    <3>3. Above(u, Empty(r)) \subseteq {parent} \cup Above(t, parent)
      BY InsertedOn
    <3>4. CASE a \in {parent} \cup Above(t, parent)
      <4>1. ~t.optimistic[a] /\ b \in Above(t, a)
        BY <2>2, <3>2, <3>4
      <4>2. ~t.optimistic[b]
        BY <4>1, <3>2, <3>4 DEF ValidatedChains
      <4>3. b \in PayloadNodes /\ RootOf(b) \in RootsOn(t, p)
        BY <4>1, <3>2, <3>4, InsertFrame
      <4> QED
        BY SMTT(30), <4>2, <4>3, InsertFrame
    <3>5. CASE a = Empty(r)
      <4>1. ~t.optimistic[parent] /\ b \in {parent} \cup Above(t, parent)
        BY <1>2, <2>2, <3>3, <3>5
      <4>2. ~t.optimistic[b]
        BY <4>1, <3>1 DEF ValidatedChains
      <4> QED
        BY <4>1, <4>2, <3>2
    <3> QED
      BY <1>2, <2>2, <3>3, <3>4, <3>5 DEF Upwards
  <2> QED
    BY <1>2, <2>1, <2>2 DEF ValidatedChains
<1> QED
  BY <1>1, <1>3, <1>4, <1>5

\* A fresh block lacks no payload: it is inserted under a live node.
LEMMA InsertMissing ==
    ASSUME NEW t \in Trees, Chains(t), NEW r \in Roots, Fresh(t, r), NEW gone, MissingRejected(t, gone),
           NEW slot \in Slots, NEW parent \in PayloadNodes, RootOf(parent) \in t.empty,
           IsFull(parent) => RootOf(parent) \in t.full,
           NEW u \in Trees, IsInsertion(t, u, r, slot, parent)
    PROVE  MissingRejected(u, gone)
<1> DEFINE p == RootOf(parent)
<1> SUFFICES ASSUME NEW x \in u.empty, NEW y \in u.empty \ u.full, Full(y) \in u.path[x]
             PROVE  y \in gone
  BY DEF MissingRejected
<1>1. /\ u.empty = t.empty \cup {r} /\ t.full \subseteq u.full
      /\ y \in Roots /\ RootOf(Full(y)) = y /\ IsFull(Full(y))
  BY TreeFields, NodeFacts DEF IsInsertion
<1>2. ASSUME NEW z \in t.empty, Full(y) \in t.path[z]
      PROVE  y \in gone
  <2>1. y \in RootsOn(t, z)
    BY <1>1, <1>2 DEF RootsOn
  <2> QED
    BY <1>1, <1>2, <2>1 DEF Fresh, MissingRejected
<1>3. CASE x \in t.empty
  BY SMTT(30), <1>2, <1>3, InsertFrame
<1>4. CASE x = r
  <2>1. Full(y) \in {parent} \cup t.path[p]
    BY SMTT(30), <1>4, InsertedOn
  <2>2. Full(y) # parent
    BY <1>1
  <2> QED
    BY <1>2, <2>1, <2>2
<1> QED
  BY <1>1, <1>3, <1>4

\* The store knows the block that is inserted.
LEMMA InsertKnown ==
    ASSUME NEW t \in Trees, Chains(t), NEW r \in Roots, Fresh(t, r), NEW known, AllKnown(t, known),
           NEW slot \in Slots, NEW parent \in PayloadNodes, RootOf(parent) \in t.empty,
           NEW u \in Trees, IsInsertion(t, u, r, slot, parent)
    PROVE  AllKnown(u, known \cup {r})
<1>1. u.empty = t.empty \cup {r}
  BY DEF IsInsertion
<1>2. \A x \in t.empty : RootsOn(u, x) = RootsOn(t, x)
  BY SMTT(30), InsertFrame
<1>3. RootsOn(u, r) = {RootOf(parent)} \cup RootsOn(t, RootOf(parent))
  BY SMTT(30), InsertedOn
<1> QED
  BY <1>1, <1>2, <1>3 DEF AllKnown

\* A full node on which no block of the store builds keeps the invariant.
LEMMA NewFullTree ==
    ASSUME NEW t \in Trees, TreeInv(t), NEW r \in t.empty, r \notin t.full,
           \A x \in t.empty : Full(r) \notin t.path[x],
           NEW u \in Trees, IsNewFull(t, u, r)
    PROVE  TreeInv(u)
<1> USE DEF TreeInv
<1>1. /\ r \in Roots /\ RootOf(Full(r)) = r /\ Full(r) \in PayloadNodes
      /\ u.empty = t.empty /\ u.full = t.full \cup {r} /\ u.root = t.root
      /\ u.parent = t.parent /\ u.path = t.path
  BY TreeFields, NodeFacts DEF IsNewFull
<1>2. /\ \A a \in PayloadNodes : a # Full(r) => u.optimistic[a] = t.optimistic[a]
      /\ u.optimistic[Full(r)] = TRUE
      /\ \A a \in PayloadNodes : u.children[a] \subseteq t.children[a]
  BY SMTT(30), <1>1, TreeFields DEF IsNewFull
<1>3. (\A x : RootsOn(u, x) = RootsOn(t, x)) /\ (\A a : Above(u, a) = Above(t, a))
  BY <1>1 DEF RootsOn, Above
<1>4. Rooted(u)
  BY <1>1, <1>2 DEF Rooted
<1>5. Chains(u)
  BY <1>1, <1>3 DEF Chains, Transitive, Total, ParentNearest
<1>6. ValidatedFull(u)
  BY SMTT(30), <1>1, <1>2, NodeFacts, TreeFields DEF ValidatedFull
<1>7. ASSUME NEW x \in u.empty, NEW a \in Upwards(u, x), ~u.optimistic[a], NEW b \in Above(u, a)
      PROVE  ~u.optimistic[b]
  <2>1. x \in Roots /\ a # Full(r)
    BY <1>1, <1>2, <1>7, TreeFields
  <2>2. a \in Upwards(t, x)
    BY <1>1, <1>3, <1>7, <2>1 DEF Upwards
  <2>3. a \in PayloadNodes /\ (RootOf(a) = x \/ a \in t.path[x])
    BY SMTT(30), <2>1, <2>2, NodeFacts, TreeFields DEF Upwards, Above
  <2>4. t.path[RootOf(a)] \subseteq t.path[x]
    BY <1>1, <2>3 DEF Chains, Transitive
  <2>5. b \in t.path[x] /\ b \in Above(t, a)
    BY <1>3, <1>7, <2>4 DEF Above
  <2>6. b \in PayloadNodes /\ b # Full(r)
    BY SMTT(30), <1>1, <2>1, <2>5, TreeFields
  <2>7. ~t.optimistic[a]
    BY <1>2, <1>7, <2>1, <2>3
  <2>8. ~t.optimistic[b]
    BY <1>1, <2>2, <2>5, <2>7 DEF ValidatedChains
  <2> QED
    BY <1>2, <2>6, <2>8
<1> QED
  BY <1>4, <1>5, <1>6, <1>7 DEF ValidatedChains

-----------------------------------------------------------------------------
(* Removal and pruning: the store shrinks, and parent pointers are cut.    *)

IsShrinking(t, u) ==
    /\ u.empty \subseteq t.empty /\ u.full \subseteq t.full
    /\ u.root \in u.empty /\ u.parent[u.root] = NoNode
    /\ u.slot = t.slot /\ u.path = t.path /\ u.optimistic = t.optimistic
    /\ \A x \in Roots : u.parent[x] \in {t.parent[x], NoNode}
    /\ \A pn \in PayloadNodes : u.children[pn] \subseteq t.children[pn]

\* A store that shrinks keeps the invariant of the tree.
LEMMA ShrinkTree ==
    ASSUME NEW t \in Trees, TreeInv(t), NEW u \in Trees, IsShrinking(t, u)
    PROVE  TreeInv(u)
<1> USE DEF TreeInv
<1>1. Rooted(u)
  BY DEF Rooted, IsShrinking
<1>2. \A x : RootsOn(u, x) = RootsOn(t, x)
  BY DEF RootsOn, IsShrinking
<1>3. ASSUME NEW x \in u.empty
      PROVE  x \in t.empty /\ x \in Roots /\ \A y \in {x} \cup RootsOn(t, x) : y \in Roots
  BY SMTT(30), TreeFields, NodeFacts DEF RootsOn, IsShrinking
<1>4. Chains(u)
  <2> SUFFICES ASSUME NEW x \in u.empty
               PROVE  x \notin RootsOn(u, x) /\ Transitive(u, x) /\ Total(u, x) /\ ParentNearest(u, x)
    BY DEF Chains
  <2>1. x \notin RootsOn(t, x) /\ Transitive(t, x) /\ Total(t, x) /\ ParentNearest(t, x)
    BY <1>3 DEF Chains
  <2>2. u.path = t.path /\ u.parent[x] \in {t.parent[x], NoNode}
    BY <1>3 DEF IsShrinking
  <2> QED
    BY <1>2, <2>1, <2>2 DEF Transitive, Total, ParentNearest
<1>5. ValidatedFull(u)
  BY DEF ValidatedFull, IsShrinking
<1>6. ASSUME NEW x \in u.empty, NEW y \in {x} \cup RootsOn(t, x), NEW a, RootOf(a) = y
      PROVE  Above(u, a) \subseteq Above(t, a)
  <2>1. RootsOn(t, y) \subseteq RootsOn(t, x)
    BY <1>3 DEF Chains, Transitive, RootsOn
  <2>2. \A g \in {y} \cup RootsOn(t, y) : t.parent[g] = NoNode => u.parent[g] = NoNode
    BY <1>3, <2>1 DEF IsShrinking
  <2>3. u.path = t.path
    BY DEF IsShrinking
  <2> QED
    BY <1>2, <1>6, <2>2, <2>3 DEF Above
<1>7. ASSUME NEW x \in u.empty, NEW a \in Upwards(u, x), ~u.optimistic[a], NEW b \in Above(u, a)
      PROVE  ~u.optimistic[b]
  <2>1. RootOf(Empty(x)) = x /\ RootOf(Full(x)) = x /\ u.full \subseteq t.full
    BY <1>3, NodeFacts DEF IsShrinking
  <2>2. Above(u, Empty(x)) \subseteq Above(t, Empty(x))
    BY <1>6, <2>1
  <2>3. a \in Upwards(t, x)
    BY <1>7, <2>1, <2>2 DEF Upwards
  <2>4. RootOf(a) \in {x} \cup RootsOn(t, x)
    BY <2>1, <2>3 DEF Upwards, Above, RootsOn
  <2>5. b \in Above(t, a)
    BY <1>6, <1>7, <2>4
  <2>6. u.optimistic = t.optimistic
    BY DEF IsShrinking
  <2> QED
    BY <1>3, <1>7, <2>3, <2>5, <2>6 DEF ValidatedChains
<1> QED
  BY <1>1, <1>4, <1>5, <1>7 DEF ValidatedChains

\* A store that shrinks knows its blocks.
LEMMA ShrinkKnown ==
    ASSUME NEW t, NEW u, IsShrinking(t, u), NEW known, AllKnown(t, known)
    PROVE  AllKnown(u, known)
  BY DEF AllKnown, IsShrinking, RootsOn

\* A payload that is missing after the store shrank was missing, or is in `extra'.
LEMMA ShrinkMissing ==
    ASSUME NEW t, NEW u, IsShrinking(t, u), NEW gone, NEW extra,
           MissingRejected(t, gone), t.full \cap u.empty \subseteq u.full \cup extra
    PROVE  MissingRejected(u, gone \cup extra)
  BY DEF MissingRejected, IsShrinking

\* The walks along the children come to linked blocks only.
LEMMA BelowLinked ==
    ASSUME NEW t, NEW pn, NEW x \in Below(t, pn)
    PROVE  t.parent[x] # NoNode
  BY DEF Below, Linked

\* A block below a payload node, met along the children, has it above.
LEMMA BelowAbove ==
    ASSUME NEW t \in Trees, NEW pn, NEW x \in Below(t, pn)
    PROVE  x \in Roots /\ pn \in Above(t, Empty(x))
<1>1. /\ x \in Roots /\ pn \in t.path[x]
      /\ \A g \in {x} \cup RootsOn(t, x) : pn \in t.path[g] => t.parent[g] # NoNode
  BY DEF Below, Linked
<1> QED
  BY <1>1, NodeFacts DEF Above

\* What removeNode does, and that it takes no validated block.
LEMMA RemoveFields ==
    ASSUME NEW t \in Trees, TreeInv(t), NEW pn \in PayloadNodes
    PROVE  /\ removeNode(t, pn).tree \in Trees
           /\ IsShrinking(t, removeNode(t, pn).tree)
           /\ removeNode(t, pn).tree.root = t.root
           /\ \A x \in t.empty \ removeNode(t, pn).tree.empty : t.optimistic[Empty(x)]
           /\ t.full \cap removeNode(t, pn).tree.empty \subseteq
                removeNode(t, pn).tree.full \cup
                (IF IsFull(pn) /\ ~removeNode(t, pn).err THEN {RootOf(pn)} ELSE {})
<1> USE DEF TreeInv
<1> DEFINE r == RootOf(pn)
           p == t.parent[r]
           c == [t.children EXCEPT ![p] = unlinked(@, r)]
           s == [t EXCEPT !.children = c]
           gone == removedWith(s, pn)
           goneFull == gone \cup (IF IsFull(pn) THEN {r} ELSE {})
           u == [s EXCEPT !.empty = @ \ gone, !.full = @ \ goneFull]
<1>1. CASE ~t.optimistic[pn] \/ p = NoNode
  <2>1. removeNode(t, pn) = Refused(t)
    BY <1>1 DEF removeNode
  <2>2. removeNode(t, pn).tree = t
    BY SMTT(30), <2>1 DEF Refused
  <2> QED
    BY <2>2 DEF IsShrinking, Rooted
<1>2. CASE t.optimistic[pn] /\ p # NoNode
  <2>1. removeNode(t, pn) = [tree |-> u, removed |-> gone, err |-> FALSE]
    <3>1. removeNode(t, pn) = removeNodeAndChildren(s, pn)
      BY <1>2 DEF removeNode
    <3> HIDE DEF s
    <3> QED
      BY <3>1 DEF removeNodeAndChildren
  <2>2. r \in Roots /\ p \in PayloadNodes
    BY SMTT(30), <1>2, NodeFacts, TreeFields
  <2>3. /\ c \in [PayloadNodes -> SUBSET Roots]
        /\ \A q \in PayloadNodes : c[q] \subseteq t.children[q]
    <3>1. unlinked(t.children[p], r) \subseteq t.children[p]
      BY DEF unlinked
    <3> QED
      BY SMTT(30), <2>2, <3>1, TreeFields
  <2> HIDE DEF c
  <2>4. /\ s \in Trees
        /\ s.empty = t.empty /\ s.full = t.full /\ s.root = t.root
        /\ s.slot = t.slot /\ s.parent = t.parent /\ s.path = t.path
        /\ s.optimistic = t.optimistic /\ s.children = c
    BY <2>3 DEF Trees
  <2> HIDE DEF s
  <2>5. /\ u \in Trees
        /\ u.empty = t.empty \ gone /\ u.full = t.full \ goneFull /\ u.root = t.root
        /\ u.slot = t.slot /\ u.parent = t.parent /\ u.path = t.path
        /\ u.optimistic = t.optimistic /\ u.children = c
    <3>1. s.empty \ gone \subseteq Roots /\ s.full \ goneFull \subseteq Roots
      BY <2>4, TreeFields
    <3> HIDE DEF gone, goneFull
    <3> QED
      BY <2>4, <3>1 DEF Trees
  <2> HIDE DEF u
  <2>6. ASSUME NEW x \in gone
        PROVE  \/ x = r /\ ~IsFull(pn)
               \/ x \in Below(s, pn)
               \/ ~IsFull(pn) /\ r \in t.full /\ x \in Below(s, Full(r))
    <3>1. CASE IsFull(pn)
      BY <3>1 DEF removedWith
    <3>2. CASE ~IsFull(pn)
      BY <3>2, <2>4, NodeFacts DEF removedWith, ConsensusBelow
    <3> QED
      BY <3>1, <3>2, NodeFacts
  <2> HIDE DEF gone
  <2>7. t.root \notin gone
    <3>1. t.parent[t.root] = NoNode /\ r # t.root
      BY <1>2 DEF Rooted
    <3> QED
      BY <2>4, <2>6, <3>1, BelowLinked
  <2>8. IsShrinking(t, u)
    BY <2>3, <2>5, <2>7 DEF IsShrinking, Rooted
  <2>9. ASSUME NEW x \in gone \cap t.empty
        PROVE  t.optimistic[Empty(x)]
    <3>1. \A q : Above(s, q) = Above(t, q)
      BY <2>4 DEF Above, RootsOn
    <3>2. ASSUME NEW q, x \in Below(s, q), t.optimistic[q]
          PROVE  t.optimistic[Empty(x)]
      <4>1. q \in Above(t, Empty(x))
        BY <2>4, <3>1, <3>2, BelowAbove
      <4> QED
        BY <3>2, <4>1 DEF ValidatedChains, Upwards
    <3>3. CASE x = r /\ ~IsFull(pn)
      BY <1>2, <3>3, NodeFacts
    <3>4. CASE x \in Below(s, pn)
      BY <1>2, <3>2, <3>4
    <3>5. CASE ~IsFull(pn) /\ r \in t.full /\ x \in Below(s, Full(r))
      BY <1>2, <3>2, <3>5, NodeFacts DEF ValidatedFull
    <3> QED
      BY <2>6, <3>3, <3>4, <3>5
  <2>10. t.full \cap u.empty \subseteq u.full \cup (IF IsFull(pn) THEN {r} ELSE {})
    BY <2>5
  <2> QED
    BY SMTT(30), <2>1, <2>5, <2>8, <2>9, <2>10
<1> QED
  BY <1>1, <1>2, TreeFields

\* prunedNodes deletes nodes and empties child lists.
LEMMA PrunedNodesFields ==
    ASSUME NEW t \in Trees, NEW gone
    PROVE  /\ prunedNodes(t, gone) \in Trees
           /\ prunedNodes(t, gone).empty = t.empty \ gone
           /\ prunedNodes(t, gone).full = t.full \ gone
           /\ prunedNodes(t, gone).root = t.root
           /\ prunedNodes(t, gone).slot = t.slot
           /\ prunedNodes(t, gone).parent = t.parent
           /\ prunedNodes(t, gone).path = t.path
           /\ prunedNodes(t, gone).target = t.target
           /\ prunedNodes(t, gone).optimistic = t.optimistic
           /\ \A pn \in PayloadNodes : prunedNodes(t, gone).children[pn] \subseteq t.children[pn]
<1> DEFINE c == [q \in PayloadNodes |->
                    IF RootOf(q) \in gone /\ (IsFull(q) => RootOf(q) \in t.full)
                    THEN {} ELSE t.children[q]]
           e == t.empty \ gone
           f == t.full \ gone
           u == [t EXCEPT !.empty = e, !.full = f, !.children = c]
<1>1. prunedNodes(t, gone) = u
  BY DEF prunedNodes
<1>2. /\ c \in [PayloadNodes -> SUBSET Roots] /\ e \subseteq Roots /\ f \subseteq Roots
      /\ \A pn \in PayloadNodes : c[pn] \subseteq t.children[pn]
  BY TreeFields
<1> HIDE DEF c
<1>3. /\ u \in Trees /\ u.empty = e /\ u.full = f /\ u.children = c
      /\ u.root = t.root /\ u.slot = t.slot /\ u.parent = t.parent /\ u.path = t.path
      /\ u.target = t.target /\ u.optimistic = t.optimistic
  <2> HIDE DEF e, f
  <2> QED
    BY <1>2 DEF Trees
<1> HIDE DEF u
<1> QED
  BY <1>1, <1>2, <1>3

\* A full node goes only with its empty node.
KeepsFull(t, u) == t.full \cap u.empty \subseteq u.full

\* prune either leaves the store alone or makes another block its root.
LEMMA PruneFields ==
    ASSUME NEW t \in Trees, TreeInv(t), NEW finalized
    PROVE  /\ prune(t, finalized).tree \in Trees
           /\ IsShrinking(t, prune(t, finalized).tree)
           /\ KeepsFull(t, prune(t, finalized).tree)
           /\ prune(t, finalized).tree = t
                \/ (~prune(t, finalized).err /\ prune(t, finalized).tree.root # t.root)
<1> USE DEF TreeInv
<1> DEFINE f == finalized.root
           u == prunedNodes(t, competing(t, f))
           trg == [x \in Roots |-> IF x = f /\ f \in Reachable(t) /\ u.target[x] # f
                                   THEN ZeroHash ELSE u.target[x]]
           par == [t.parent EXCEPT ![f] = NoNode]
           v == [u EXCEPT !.finalizedDependentRoot = RootOf(t.parent[f]),
                          !.target = trg, !.parent = par, !.root = f]
           max == EpochStart(finalized.epoch)
<1>1. CASE f \notin t.empty \/ t.parent[f] = NoNode
  <2>1. prune(t, finalized) = Refused(t) \/ prune(t, finalized) = Kept(t)
    BY <1>1 DEF prune
  <2>2. prune(t, finalized).tree = t
    BY SMTT(30), <2>1 DEF Refused, Kept
  <2> QED
    BY <2>2 DEF IsShrinking, Rooted, KeepsFull
<1>2. CASE f \in t.empty /\ t.parent[f] # NoNode
  <2>1. /\ f \in Roots /\ f # t.root /\ t.parent[f] \in PayloadNodes
        /\ RootOf(t.parent[f]) \in OptRoots
    BY SMTT(30), <1>2, NodeFacts, TreeFields DEF Rooted, OptRoots
  <2>2. prune(t, finalized) = Kept(IF t.slot[f] = max THEN v ELSE pruneChildren(v, f, max))
    BY <1>2 DEF prune
  <2>3. f \notin competing(t, f)
    BY DEF competing
  <2>4. /\ u \in Trees /\ u.empty = t.empty \ competing(t, f) /\ u.full = t.full \ competing(t, f)
        /\ u.slot = t.slot /\ u.path = t.path /\ u.target = t.target /\ u.optimistic = t.optimistic
        /\ \A pn \in PayloadNodes : u.children[pn] \subseteq t.children[pn]
    BY SMTT(30), PrunedNodesFields
  <2> HIDE DEF u
  <2>5. trg \in [Roots -> OptRoots] /\ par \in [Roots -> PayloadNodes \cup {NoNode}] /\ par[f] = NoNode
    BY SMTT(30), <2>1, <2>4, TreeFields DEF OptRoots
  <2>6. \A x \in Roots : par[x] \in {t.parent[x], NoNode}
    BY <2>1, TreeFields
  <2> HIDE DEF trg, par
  <2>7. /\ v \in Trees /\ v.empty = u.empty /\ v.full = u.full /\ v.root = f
        /\ v.slot = t.slot /\ v.path = t.path /\ v.optimistic = t.optimistic
        /\ v.parent = par /\ v.children = u.children
    BY <2>1, <2>4, <2>5 DEF Trees
  <2> HIDE DEF v
  <2>8. IsShrinking(t, v) /\ KeepsFull(t, v)
    BY <1>2, <2>3, <2>4, <2>5, <2>6, <2>7 DEF IsShrinking, KeepsFull
  <2> DEFINE w == pruneChildren(v, f, max)
             old == tooOld(v, f, max)
             gone == old \cup UNION {ConsensusBelow(v, c) : c \in old}
             s == prunedNodes(v, gone)
             chl == [pn \in PayloadNodes |->
                        IF pn = Empty(f) \/ (pn = Full(f) /\ f \in v.full)
                        THEN s.children[pn] \ old ELSE s.children[pn]]
  <2>9. w \in Trees /\ IsShrinking(t, w) /\ KeepsFull(t, w) /\ w.root = f
    <3>1. w = [s EXCEPT !.children = chl]
      BY DEF pruneChildren
    <3>2. f \notin gone
      <4>1. f \notin old
        <5>1. f \notin v.children[Empty(f)] /\ f \notin v.children[Full(f)]
          BY SMTT(30), <2>1, <2>4, <2>7, NodeFacts DEF Rooted
        <5> QED
          BY <5>1 DEF tooOld, allConsensusChildren
      <4>2. ASSUME NEW c \in old
            PROVE  f \notin ConsensusBelow(v, c)
        BY <2>5, <2>7, BelowLinked DEF ConsensusBelow
      <4> QED
        BY <4>1, <4>2
    <3> HIDE DEF gone
    <3>3. /\ s \in Trees /\ s.empty = v.empty \ gone /\ s.full = v.full \ gone /\ s.root = f
          /\ s.slot = v.slot /\ s.path = v.path /\ s.optimistic = v.optimistic /\ s.parent = v.parent
          /\ \A pn \in PayloadNodes : s.children[pn] \subseteq v.children[pn]
      BY SMTT(30), <2>7, PrunedNodesFields
    <3> HIDE DEF s, old
    <3>4. /\ chl \in [PayloadNodes -> SUBSET Roots]
          /\ \A pn \in PayloadNodes : chl[pn] \subseteq v.children[pn]
      BY SMTT(30), <3>3, TreeFields
    <3> HIDE DEF chl
    <3>5. /\ w \in Trees /\ w.empty = v.empty \ gone /\ w.full = v.full \ gone /\ w.root = f
          /\ w.slot = v.slot /\ w.path = v.path /\ w.optimistic = v.optimistic /\ w.parent = v.parent
          /\ w.children = chl
      BY <3>1, <3>3, <3>4 DEF Trees
    <3> HIDE DEF w
    <3> QED
      BY <2>7, <2>8, <3>2, <3>4, <3>5 DEF IsShrinking, KeepsFull
  <2> HIDE DEF w
  <2>10. prune(t, finalized).tree \in {v, w} /\ ~prune(t, finalized).err
    BY SMTT(30), <2>2 DEF Kept, w
  <2> QED
    BY <2>1, <2>7, <2>8, <2>9, <2>10
<1> QED
  BY <1>1, <1>2

-----------------------------------------------------------------------------
(* Execution status.                                                       *)

\* What setNodeAndParentValidated does to the fields that the invariant reads.
IsValidation(t, u, marked) ==
    /\ u.empty = t.empty /\ u.full = t.full /\ u.root = t.root
    /\ u.slot = t.slot /\ u.parent = t.parent /\ u.path = t.path /\ u.children = t.children
    /\ \A q \in PayloadNodes :
            u.optimistic[q] <=>
                t.optimistic[q] /\ q \notin marked /\ ~(~IsFull(q) /\ Full(RootOf(q)) \in marked)

\* setNodeAndParentValidated marks nodes and leaves the rest of the tree alone.
LEMMA ValidateFields ==
    ASSUME NEW t \in Trees, NEW pn
    PROVE  /\ setNodeAndParentValidated(t, pn) \in Trees
           /\ IsValidation(t, setNodeAndParentValidated(t, pn), validatedFrom(t, pn))
<1> DEFINE marked == validatedFrom(t, pn)
           o == [q \in PayloadNodes |->
                    t.optimistic[q] /\ q \notin marked /\ ~(~IsFull(q) /\ Full(RootOf(q)) \in marked)]
           u == [t EXCEPT !.optimistic = o]
<1>1. setNodeAndParentValidated(t, pn) = u
  BY DEF setNodeAndParentValidated
<1>2. o \in [PayloadNodes -> BOOLEAN]
  OBVIOUS
<1>3. \A q \in PayloadNodes :
        o[q] <=> t.optimistic[q] /\ q \notin marked /\ ~(~IsFull(q) /\ Full(RootOf(q)) \in marked)
  OBVIOUS
<1> HIDE DEF o, marked
<1>4. /\ u \in Trees /\ u.empty = t.empty /\ u.full = t.full /\ u.root = t.root
      /\ u.slot = t.slot /\ u.parent = t.parent /\ u.path = t.path /\ u.children = t.children
      /\ u.optimistic = o
  BY <1>2 DEF Trees
<1> HIDE DEF u
<1>5. IsValidation(t, u, marked)
  BY <1>3, <1>4 DEF IsValidation
<1> QED
  BY <1>1, <1>4, <1>5 DEF marked

\* What is above a node that is above pn is above pn.
LEMMA AboveTransitive ==
    ASSUME NEW t \in Trees, NEW pn \in PayloadNodes, RootOf(pn) \in t.empty, Chains(t),
           NEW m \in {pn} \cup Above(t, pn), NEW b \in Above(t, m)
    PROVE  b \in Above(t, pn)
<1> DEFINE r == RootOf(pn)
<1>1. CASE m = pn
  BY <1>1
<1>2. CASE m \in Above(t, pn)
  <2>1. /\ m \in t.path[r]
        /\ \A g \in {r} \cup RootsOn(t, r) : m \in t.path[g] => t.parent[g] # NoNode
    BY <1>2 DEF Above
  <2>2. /\ b \in t.path[RootOf(m)]
        /\ \A g \in {RootOf(m)} \cup RootsOn(t, RootOf(m)) : b \in t.path[g] => t.parent[g] # NoNode
    BY DEF Above
  <2>3. b \in t.path[r]
    BY <2>1, <2>2 DEF Chains, Transitive
  <2>4. ASSUME NEW g \in {r} \cup RootsOn(t, r), b \in t.path[g]
        PROVE  t.parent[g] # NoNode
    <3>1. CASE g = r
      BY <2>1, <3>1
    <3>2. CASE g \in RootsOn(t, r)
      <4>1. PICK q \in t.path[r] : g = RootOf(q)
        BY <3>2 DEF RootsOn
      <4>2. q = m \/ q \in t.path[RootOf(m)] \/ m \in t.path[g]
        BY <2>1, <4>1 DEF Chains, Total
      <4>3. CASE q = m
        BY <2>2, <2>4, <4>1, <4>3
      <4>4. CASE q \in t.path[RootOf(m)]
        BY <2>2, <2>4, <4>1, <4>4 DEF RootsOn
      <4>5. CASE m \in t.path[g]
        BY <2>1, <3>2, <4>5
      <4> QED
        BY <4>2, <4>3, <4>4, <4>5
    <3> QED
      BY <3>1, <3>2
  <2> QED
    BY <2>3, <2>4 DEF Above
<1> QED
  BY <1>1, <1>2

\* Of two nodes above pn the one under the other is under it along the parents.
LEMMA AboveBetween ==
    ASSUME NEW t \in Trees, NEW pn \in PayloadNodes, RootOf(pn) \in t.empty, Chains(t),
           NEW m \in {pn} \cup Above(t, pn), NEW g \in Above(t, pn), g \in t.path[RootOf(m)]
    PROVE  /\ g \in Above(t, m)
           /\ \A b \in Above(t, m) : b \in t.path[RootOf(g)] => b \in Above(t, g)
<1> DEFINE r == RootOf(pn)
           y == RootOf(m)
<1>1. y \in {r} \cup RootsOn(t, r)
  BY DEF Above, RootsOn
<1>2. t.path[y] \subseteq t.path[r] /\ RootsOn(t, y) \subseteq RootsOn(t, r)
  BY <1>1 DEF Chains, Transitive, RootsOn
<1>3. g \in Above(t, m)
  BY <1>1, <1>2 DEF Above
<1>4. t.path[RootOf(g)] \subseteq t.path[y] /\ {RootOf(g)} \cup RootsOn(t, RootOf(g)) \subseteq RootsOn(t, y)
  <2>1. t.path[RootOf(g)] \subseteq t.path[y]
    BY <1>1 DEF Chains, Transitive
  <2> QED
    BY <2>1 DEF RootsOn
<1>5. ASSUME NEW b \in Above(t, m), b \in t.path[RootOf(g)]
      PROVE  b \in Above(t, g)
  <2>1. \A h \in RootsOn(t, y) : b \in t.path[h] => t.parent[h] # NoNode
    BY DEF Above
  <2> QED
    BY <1>4, <1>5, <2>1 DEF Above
<1> QED
  BY <1>3, <1>5

\* The marking that stops at the first validated node keeps the invariant: above
\* a node it marks it leaves nothing optimistic.
LEMMA ValidateTree ==
    ASSUME NEW t \in Trees, TreeInv(t), NEW pn \in PayloadNodes, RootOf(pn) \in t.empty,
           IsFull(pn) => RootOf(pn) \in t.full,
           NEW u \in Trees, IsValidation(t, u, validatedFrom(t, pn))
    PROVE  TreeInv(u)
<1> USE DEF TreeInv
<1> DEFINE r == RootOf(pn)
           chain == {pn} \cup Above(t, pn)
           marked == validatedFrom(t, pn)
<1>1. /\ u.empty = t.empty /\ u.full = t.full /\ u.root = t.root
      /\ u.parent = t.parent /\ u.path = t.path /\ u.children = t.children
  BY DEF IsValidation
<1>2. (\A x : RootsOn(u, x) = RootsOn(t, x)) /\ (\A a : Above(u, a) = Above(t, a))
  BY <1>1 DEF RootsOn, Above
<1>3. \A q \in PayloadNodes :
        u.optimistic[q] <=>
            t.optimistic[q] /\ q \notin marked /\ ~(~IsFull(q) /\ Full(RootOf(q)) \in marked)
  BY DEF IsValidation
<1>4. /\ marked \subseteq chain
      /\ \A q \in chain : q \in marked <=>
            t.optimistic[q] /\ \A g \in chain : q \in t.path[RootOf(g)] => t.optimistic[g]
  BY DEF validatedFrom
<1>5. Rooted(u)
  BY <1>1 DEF Rooted
<1>6. Chains(u)
  BY <1>1, <1>2 DEF Chains, Transitive, Total, ParentNearest
<1>7. ValidatedFull(u)
  <2> SUFFICES ASSUME NEW x \in t.full, ~u.optimistic[Full(x)], u.optimistic[Empty(x)]
               PROVE  FALSE
    BY <1>1 DEF ValidatedFull
  <2>1. /\ Full(x) \in PayloadNodes /\ IsFull(Full(x))
        /\ Empty(x) \in PayloadNodes /\ ~IsFull(Empty(x)) /\ RootOf(Empty(x)) = x
    BY NodeFacts, TreeFields
  <2>2. t.optimistic[Empty(x)] /\ Full(x) \notin marked
    BY <1>3, <2>1
  <2>3. t.optimistic[Full(x)]
    BY <2>2 DEF ValidatedFull
  <2> QED
    BY <1>3, <2>1, <2>2, <2>3
<1> HIDE DEF marked
<1>8. ASSUME NEW m \in marked, NEW b \in Above(t, m), t.optimistic[b]
      PROVE  b \in marked
  <2>1. m \in chain /\ t.optimistic[m] /\ \A g \in chain : m \in t.path[RootOf(g)] => t.optimistic[g]
    BY <1>4
  <2>2. b \in chain
    BY <2>1, AboveTransitive
  <2>3. ASSUME NEW g \in chain, b \in t.path[RootOf(g)], ~t.optimistic[g]
        PROVE  FALSE
    <3>1. g # m /\ m \notin t.path[RootOf(g)]
      BY <2>1, <2>3
    <3>2. g \in t.path[RootOf(m)]
      <4>1. CASE g = pn
        BY <2>1, <3>1, <4>1 DEF Above
      <4>2. CASE m = pn /\ g \in Above(t, pn)
        BY <4>2 DEF Above
      <4>3. CASE m \in Above(t, pn) /\ g \in Above(t, pn)
        <5>1. m \in t.path[r] /\ g \in t.path[r]
          BY <4>3 DEF Above
        <5> QED
          BY <3>1, <5>1 DEF Chains, Total
      <4> QED
        BY <2>1, <4>1, <4>2, <4>3
    <3>3. g # pn
      <4>1. CASE g = pn
        <5>1. r \in RootsOn(t, RootOf(m))
          BY <3>2, <4>1 DEF RootsOn
        <5>2. RootsOn(t, RootOf(m)) \subseteq RootsOn(t, r)
          <6>1. RootOf(m) \in {r} \cup RootsOn(t, r)
            BY <2>1 DEF Above, RootsOn
          <6>2. t.path[RootOf(m)] \subseteq t.path[r]
            BY <6>1 DEF Chains, Transitive, RootsOn
          <6> QED
            BY <6>2 DEF RootsOn
        <5> QED
          BY <5>1, <5>2 DEF Chains
      <4> QED
        BY <4>1
    <3>4. g \in Above(t, pn)
      BY <3>3
    <3>5. b \in Above(t, g)
      BY <2>1, <2>3, <3>2, <3>4, AboveBetween
    <3>6. g \in Upwards(t, r)
      <4>1. RootOf(Empty(r)) = RootOf(pn)
        BY NodeFacts
      <4>2. Above(t, Empty(r)) = Above(t, pn)
        BY <4>1, AboveByRoot
      <4> QED
        BY <3>4, <4>2 DEF Upwards
    <3> QED
      BY <1>8, <2>3, <3>5, <3>6 DEF ValidatedChains
  <2> QED
    BY <1>4, <1>8, <2>2, <2>3
<1>9. ASSUME NEW x \in u.empty, NEW a \in Upwards(u, x), ~u.optimistic[a], NEW b \in Above(u, a)
      PROVE  ~u.optimistic[b]
  <2>1. /\ x \in t.empty /\ x \in Roots /\ a \in Upwards(t, x) /\ b \in Above(t, a)
    BY <1>1, <1>2, <1>9, TreeFields DEF Upwards
  <2>2. a \in PayloadNodes /\ RootOf(a) \in {x} \cup RootsOn(t, x)
    BY SMTT(30), <2>1, NodeFacts, TreeFields DEF Upwards, Above, RootsOn
  <2>3. RootOf(a) \in Roots /\ b \in PayloadNodes
    BY <2>1, <2>2, NodeFacts, TreeFields DEF Above
  <2>4. CASE ~t.optimistic[a]
    <3>1. ~t.optimistic[b]
      BY <2>1, <2>4 DEF ValidatedChains
    <3> QED
      BY <1>3, <2>3, <3>1
  <2>5. CASE t.optimistic[a]
    <3>1. PICK m \in marked : RootOf(m) = RootOf(a)
      BY <1>3, <1>9, <2>2, <2>3, <2>5, NodeFacts
    <3>2. b \in Above(t, m)
      BY <2>1, <3>1, AboveByRoot
    <3>3. t.optimistic[b] => b \in marked
      BY <1>8, <3>2
    <3> QED
      BY <1>3, <2>3, <3>3
  <2> QED
    BY <2>4, <2>5
<1> QED
  BY <1>5, <1>6, <1>7, <1>9 DEF ValidatedChains

-----------------------------------------------------------------------------
(* What the invariant says of single nodes.                                *)

\* The parent pointer of a block of the store leads to the first node above it.
LEMMA ParentAbove ==
    ASSUME NEW t \in Trees, TreeInv(t), NEW x \in t.empty, t.parent[x] # NoNode
    PROVE  t.parent[x] \in Above(t, Empty(x))
<1>1. x \in Roots /\ RootOf(Empty(x)) = x
  BY TreeFields, NodeFacts
<1>2. t.parent[x] \in t.path[x] /\ \A g \in RootsOn(t, x) : t.parent[x] \notin t.path[g]
  BY DEF TreeInv, Chains, ParentNearest
<1> QED
  BY <1>1, <1>2 DEF Above

\* A validated block of the store has a validated parent.
LEMMA ValidatedParent ==
    ASSUME NEW t \in Trees, TreeInv(t), NEW x \in t.empty, t.parent[x] # NoNode,
           ~t.optimistic[Empty(x)]
    PROVE  ~t.optimistic[t.parent[x]]
  BY ParentAbove DEF TreeInv, ValidatedChains, Upwards

-----------------------------------------------------------------------------
(* The tree while nothing is removed from it but by pruning: the child     *)
(* lists and the parent pointers agree, and the walk from the root meets   *)
(* every block.                                                            *)

Held(t, pn) == RootOf(pn) \in t.empty /\ (IsFull(pn) => RootOf(pn) \in t.full)

\* What is listed as a child is in the store, of a node that is, and points back.
Listed(t) ==
    \A pn \in PayloadNodes : \A c \in t.children[pn] :
        Held(t, pn) /\ c \in t.empty /\ t.parent[c] = pn

\* Every block but the root is listed by its parent.
Attached(t) ==
    \A x \in t.empty \ {t.root} : t.parent[x] # NoNode /\ x \in t.children[t.parent[x]]

\* A block is later than what it builds on.
Ascending(t) == \A x \in t.empty : \A g \in RootsOn(t, x) : t.slot[g] < t.slot[x]

Whole(t) == t.full \subseteq t.empty /\ Listed(t) /\ Attached(t) /\ Ascending(t)

\* A set of numbers has a least one: the induction over the slots of the blocks.
LEMMA LeastNat ==
    ASSUME NEW T, T \subseteq Nat, T # {}
    PROVE  \E x \in T : \A y \in T : x <= y
<1>1. PICK x \in T : \A y \in T : ~(<<y, x>> \in OpToRel(<, Nat))
  BY WFMin, NatLessThanWellFounded
<1>2. \A y \in T : ~(y < x)
  BY <1>1 DEF OpToRel
<1> QED
  BY SMTT(30), <1>2

\* Of the blocks of a set one has the lowest slot.
LEMMA EarliestBlock ==
    ASSUME NEW t \in Trees, NEW S, S \subseteq Roots, S # {}
    PROVE  \E x \in S : \A y \in S : ~(t.slot[y] < t.slot[x])
<1> DEFINE T == {t.slot[x] : x \in S}
<1>1. T \subseteq Nat /\ T # {}
  BY SMTT(30), TreeFields, TimeAssumption DEF Slots
<1>2. PICK n \in T : \A m \in T : n <= m
  <2> HIDE DEF T
  <2> QED
    BY <1>1, LeastNat
<1>3. PICK x \in S : n = t.slot[x]
  BY <1>2
<1>4. \A y \in S : t.slot[y] \in Nat /\ t.slot[x] \in Nat /\ t.slot[x] <= t.slot[y]
  BY <1>1, <1>2, <1>3
<1> QED
  BY SMTT(30), <1>4

\* A walk along the children goes from a listed child on.
LEMMA ChildBelow ==
    ASSUME NEW t \in Trees, Chains(t), Listed(t), NEW pn \in PayloadNodes, NEW c \in t.children[pn]
    PROVE  /\ c \in Below(t, pn)
           /\ \A q : RootOf(pn) \in Below(t, q) => c \in Below(t, q)
<1>1. /\ c \in Roots /\ c \in t.empty /\ t.parent[c] = pn /\ t.parent[c] # NoNode
      /\ RootOf(pn) \in Roots
  BY NodeFacts, TreeFields DEF Listed
<1>2. /\ pn \in t.path[c] /\ \A g \in RootsOn(t, c) : pn \notin t.path[g]
      /\ t.path[RootOf(pn)] \subseteq t.path[c] /\ Total(t, c)
  BY <1>1 DEF Chains, ParentNearest, Transitive
<1>3. Linked(t, c)
  BY <1>1 DEF Linked
<1>4. c \in Below(t, pn)
  BY <1>1, <1>2, <1>3 DEF Below
<1>5. ASSUME NEW q, RootOf(pn) \in Below(t, q)
      PROVE  c \in Below(t, q)
  <2>1. /\ q \in t.path[RootOf(pn)]
        /\ \A g \in {RootOf(pn)} \cup RootsOn(t, RootOf(pn)) : q \in t.path[g] => Linked(t, g)
    BY <1>5 DEF Below
  <2>2. ASSUME NEW g \in RootsOn(t, c), q \in t.path[g]
        PROVE  Linked(t, g)
    <3>1. PICK z \in t.path[c] : g = RootOf(z)
      BY <2>2 DEF RootsOn
    <3>2. z = pn \/ z \in t.path[RootOf(pn)]
      BY <1>2, <2>2, <3>1 DEF Total
    <3> QED
      BY <2>1, <2>2, <3>1, <3>2 DEF RootsOn
  <2> QED
    BY <1>1, <1>2, <1>3, <2>1, <2>2 DEF Below
<1> QED
  BY <1>4, <1>5

\* A walk along the children comes to a block from its parent.
LEMMA BelowParent ==
    ASSUME NEW t \in Trees, Chains(t), Listed(t), NEW q, NEW x \in Below(t, q)
    PROVE  /\ x \in t.empty /\ t.parent[x] \in PayloadNodes /\ x \in t.children[t.parent[x]]
           /\ q \in t.path[x]
           /\ t.parent[x] = q \/ RootOf(t.parent[x]) \in Below(t, q)
<1>1. /\ x \in Roots /\ q \in t.path[x] /\ t.parent[x] # NoNode /\ x \in t.children[t.parent[x]]
      /\ \A g \in RootsOn(t, x) : q \in t.path[g] => Linked(t, g)
  BY DEF Below, Linked
<1>2. t.parent[x] \in PayloadNodes /\ x \in t.empty
  BY SMTT(30), <1>1, TreeFields DEF Listed
<1> DEFINE p == t.parent[x]
<1>3. /\ p \in t.path[x] /\ \A g \in RootsOn(t, x) : p \notin t.path[g]
      /\ t.path[RootOf(p)] \subseteq t.path[x] /\ Total(t, x)
  BY <1>1, <1>2 DEF Chains, ParentNearest, Transitive
<1>4. p = q \/ q \in t.path[RootOf(p)]
  BY <1>1, <1>3 DEF Total, RootsOn
<1>5. {RootOf(p)} \cup RootsOn(t, RootOf(p)) \subseteq RootsOn(t, x)
  BY <1>3 DEF RootsOn
<1>6. ASSUME q \in t.path[RootOf(p)]
      PROVE  RootOf(p) \in Below(t, q)
  BY <1>1, <1>2, <1>5, <1>6, NodeFacts DEF Below
<1> QED
  BY <1>1, <1>2, <1>4, <1>6

\* In a whole tree the walk from the root meets what the maps hold.
LEMMA WholeReachable ==
    ASSUME NEW t \in Trees, TreeInv(t), Whole(t)
    PROVE  t.empty = Reachable(t)
<1> USE DEF TreeInv, Whole
<1>1. t.root \in t.empty /\ t.root \in Roots
  BY TreeFields DEF Rooted
<1>2. Reachable(t) \subseteq t.empty
  BY <1>1, BelowParent DEF Reachable, ConsensusBelow
<1>3. ASSUME NEW x \in t.empty \ Reachable(t),
             \A y \in t.empty \ Reachable(t) : ~(t.slot[y] < t.slot[x])
      PROVE  FALSE
  <2> DEFINE p == t.parent[x]
             g == RootOf(p)
  <2>1. x \in Roots /\ x # t.root /\ p # NoNode /\ x \in t.children[p] /\ p \in PayloadNodes
    BY SMTT(30), TreeFields DEF Attached, Reachable
  <2>2. Held(t, p)
    BY <2>1 DEF Listed
  <2>3. t.slot[g] < t.slot[x]
    BY <2>1 DEF Ascending, Chains, ParentNearest, RootsOn
  <2>4. g \in Reachable(t)
    BY <1>3, <2>2, <2>3 DEF Held
  <2>5. CASE g = t.root
    <3>1. p = Empty(t.root) \/ (p = Full(t.root) /\ t.root \in t.full)
      BY <2>1, <2>2, <2>5, NodeFacts DEF Held
    <3>2. x \in Below(t, p)
      BY <2>1, ChildBelow
    <3> QED
      BY <1>3, <3>1, <3>2 DEF Reachable, ConsensusBelow
  <2>6. CASE g # t.root
    <3>1. PICK q : /\ g \in Below(t, q)
                   /\ q = Empty(t.root) \/ (q = Full(t.root) /\ t.root \in t.full)
      BY <2>4, <2>6 DEF Reachable, ConsensusBelow
    <3>2. x \in Below(t, q)
      BY <2>1, <3>1, ChildBelow
    <3> QED
      BY <1>3, <3>1, <3>2 DEF Reachable, ConsensusBelow
  <2> QED
    BY <2>5, <2>6
<1>4. t.empty \ Reachable(t) = {}
  <2>1. t.empty \ Reachable(t) \subseteq Roots
    BY TreeFields
  <2> QED
    BY <1>3, <2>1, EarliestBlock
<1> QED
  BY <1>2, <1>4

\* A fresh block listed under a node of the store keeps the tree whole.
LEMMA InsertWhole ==
    ASSUME NEW t \in Trees, TreeInv(t), Whole(t), NEW r \in Roots, Fresh(t, r),
           NEW slot \in Slots, NEW parent \in PayloadNodes, Held(t, parent),
           t.slot[RootOf(parent)] < slot,
           NEW u \in Trees, IsInsertion(t, u, r, slot, parent)
    PROVE  Whole(u)
<1> DEFINE p == RootOf(parent)
<1> USE DEF TreeInv, Whole
<1>1. /\ u.empty = t.empty \cup {r} /\ u.root = t.root
      /\ t.full \subseteq u.full /\ u.full \subseteq t.full \cup {r}
      /\ r \notin t.empty /\ p \in t.empty /\ p # r
  BY DEF IsInsertion, Fresh, Held
<1>2. /\ \A x \in Roots : x # r => u.parent[x] = t.parent[x] /\ u.slot[x] = t.slot[x]
      /\ u.parent[r] = parent /\ u.slot[r] = slot
  BY SMTT(30), TreeFields DEF IsInsertion
<1>3. /\ \A pn \in PayloadNodes :
            u.children[pn] = IF pn = parent THEN t.children[pn] \cup {r}
                             ELSE IF RootOf(pn) = r THEN {} ELSE t.children[pn]
  <2>1. /\ t.children \in [PayloadNodes -> SUBSET Roots]
        /\ u.children = [t.children EXCEPT ![Empty(r)] = {}, ![Full(r)] = {},
                                           ![parent] = @ \cup {r}]
    BY TreeFields DEF IsInsertion
  <2>2. parent # Empty(r) /\ parent # Full(r)
    BY <1>1, NodeFacts
  <2>3. \A pn \in PayloadNodes : RootOf(pn) = r <=> pn = Empty(r) \/ pn = Full(r)
    BY NodeFacts
  <2> QED
    BY <2>1, <2>2, <2>3
<1>4. \A pn \in PayloadNodes : Held(t, pn) => Held(u, pn) /\ RootOf(pn) # r
  BY <1>1 DEF Held
<1>5. Listed(u)
  <2> SUFFICES ASSUME NEW pn \in PayloadNodes, NEW c \in u.children[pn]
               PROVE  Held(u, pn) /\ c \in u.empty /\ u.parent[c] = pn
    BY DEF Listed
  <2>1. CASE c \in t.children[pn]
    <3>1. Held(t, pn) /\ c \in t.empty /\ t.parent[c] = pn
      BY <2>1 DEF Listed
    <3> QED
      BY <1>1, <1>2, <1>4, <3>1, TreeFields
  <2>2. CASE c \notin t.children[pn]
    <3>1. pn = parent /\ c = r
      BY <1>3, <2>2
    <3> QED
      BY <1>1, <1>2, <1>4, <3>1
  <2> QED
    BY <2>1, <2>2
<1>6. Attached(u)
  <2> SUFFICES ASSUME NEW x \in u.empty \ {u.root}
               PROVE  u.parent[x] # NoNode /\ x \in u.children[u.parent[x]]
    BY DEF Attached
  <2>1. CASE x = r
    BY <1>2, <1>3, <2>1, NodeFacts
  <2>2. CASE x # r
    <3>1. /\ x \in Roots /\ t.parent[x] # NoNode /\ x \in t.children[t.parent[x]]
          /\ t.parent[x] \in PayloadNodes /\ u.parent[x] = t.parent[x]
      BY SMTT(30), <1>1, <1>2, <2>2, TreeFields DEF Attached
    <3>2. Held(t, t.parent[x])
      BY <3>1 DEF Listed
    <3> QED
      BY <1>3, <1>4, <3>1, <3>2
  <2> QED
    BY <2>1, <2>2
<1>7. Ascending(u)
  <2> SUFFICES ASSUME NEW x \in u.empty, NEW g \in RootsOn(u, x)
               PROVE  u.slot[g] < u.slot[x]
    BY DEF Ascending
  <2>1. CASE x = r
    <3>1. g = p \/ g \in RootsOn(t, p)
      BY SMTT(30), <2>1, <1>1, InsertedOn
    <3>2. g \in Roots /\ g # r
      BY SMTT(30), <1>1, <3>1, InsertFrame
    <3>3. t.slot[g] \in Nat /\ t.slot[p] \in Nat /\ slot \in Nat /\ (g = p \/ t.slot[g] < t.slot[p])
      BY SMTT(30), <1>1, <3>1, <3>2, TreeFields, TimeAssumption DEF Ascending, Slots
    <3> QED
      BY SMTT(30), <1>2, <2>1, <3>2, <3>3
  <2>2. CASE x # r
    <3>1. x \in t.empty /\ x \in Roots
      BY <1>1, <2>2, TreeFields
    <3>2. g \in RootsOn(t, x) /\ g \in Roots /\ g # r
      BY SMTT(30), <3>1, InsertFrame
    <3> QED
      BY <1>2, <2>2, <3>1, <3>2 DEF Ascending
  <2> QED
    BY <2>1, <2>2
<1> QED
  BY <1>1, <1>5, <1>6, <1>7

\* A new full node keeps the tree whole.
LEMMA NewFullWhole ==
    ASSUME NEW t \in Trees, Whole(t), NEW r \in t.empty, r \notin t.full,
           NEW u \in Trees, IsNewFull(t, u, r)
    PROVE  Whole(u)
<1> USE DEF Whole
<1>1. /\ r \in Roots /\ Full(r) \in PayloadNodes /\ RootOf(Full(r)) = r /\ IsFull(Full(r))
      /\ u.empty = t.empty /\ u.full = t.full \cup {r} /\ u.root = t.root
      /\ u.slot = t.slot /\ u.parent = t.parent /\ u.path = t.path
  BY TreeFields, NodeFacts DEF IsNewFull
<1>2. t.children[Full(r)] = {}
  <2>1. ~Held(t, Full(r))
    BY <1>1 DEF Held
  <2> QED
    BY <1>1, <2>1 DEF Listed
<1>3. \A pn \in PayloadNodes : u.children[pn] = t.children[pn]
  BY <1>1, <1>2, TreeFields DEF IsNewFull
<1>4. \A pn : Held(t, pn) => Held(u, pn)
  BY <1>1 DEF Held
<1>5. Listed(u) /\ Ascending(u)
  BY SMTT(30), <1>1, <1>3, <1>4 DEF Listed, Ascending, RootsOn
<1>6. Attached(u)
  BY SMTT(30), <1>1, <1>3, TreeFields DEF Attached
<1> QED
  BY <1>1, <1>5, <1>6

\* A verdict that a payload is valid keeps the tree whole.
LEMMA ValidateWhole ==
    ASSUME NEW t, NEW u, NEW marked, IsValidation(t, u, marked), Whole(t)
    PROVE  Whole(u)
  BY SMTT(30) DEF IsValidation, Whole, Held, Listed, Attached, Ascending, RootsOn

\* What prune makes of the tree for a block f of the store, before and after it
\* looks at the children of f.
IsRerooted(t, v, f) ==
    /\ v.empty = t.empty \ competing(t, f) /\ v.full = t.full \ competing(t, f)
    /\ v.root = f /\ v.slot = t.slot /\ v.path = t.path
    /\ v.parent = [t.parent EXCEPT ![f] = NoNode]
    /\ v.children = [pn \in PayloadNodes |->
            IF RootOf(pn) \in competing(t, f) /\ (IsFull(pn) => RootOf(pn) \in t.full)
            THEN {} ELSE t.children[pn]]

TooOld(v, f, max) ==
    tooOld(v, f, max) \cup UNION {ConsensusBelow(v, c) : c \in tooOld(v, f, max)}

IsTrimmed(v, w, f, max) ==
    /\ w.empty = v.empty \ TooOld(v, f, max) /\ w.full = v.full \ TooOld(v, f, max)
    /\ w.root = v.root /\ w.slot = v.slot /\ w.path = v.path /\ w.parent = v.parent
    /\ \A pn \in PayloadNodes :
            w.children[pn] =
                (IF RootOf(pn) \in TooOld(v, f, max) /\ (IsFull(pn) => RootOf(pn) \in v.full)
                 THEN {} ELSE v.children[pn])
                \ (IF pn = Empty(f) \/ (pn = Full(f) /\ f \in v.full)
                   THEN tooOld(v, f, max) ELSE {})

\* prune in two parts: the competing branches, then the children that are too old.
LEMMA PruneParts ==
    ASSUME NEW t \in Trees, TreeInv(t), NEW finalized, finalized.root \in t.empty,
           t.parent[finalized.root] # NoNode
    PROVE  \E v \in Trees :
              /\ IsRerooted(t, v, finalized.root)
              /\ IsShrinking(t, v)
              /\ ~prune(t, finalized).err
              /\ \/ /\ t.slot[finalized.root] = EpochStart(finalized.epoch)
                    /\ prune(t, finalized).tree = v
                 \/ IsTrimmed(v, prune(t, finalized).tree, finalized.root,
                              EpochStart(finalized.epoch))
<1> DEFINE f == finalized.root
           u == prunedNodes(t, competing(t, f))
           trg == [x \in Roots |-> IF x = f /\ f \in Reachable(t) /\ u.target[x] # f
                                   THEN ZeroHash ELSE u.target[x]]
           par == [t.parent EXCEPT ![f] = NoNode]
           chl == [pn \in PayloadNodes |->
                    IF RootOf(pn) \in competing(t, f) /\ (IsFull(pn) => RootOf(pn) \in t.full)
                    THEN {} ELSE t.children[pn]]
           v == [u EXCEPT !.finalizedDependentRoot = RootOf(t.parent[f]),
                          !.target = trg, !.parent = par, !.root = f]
           max == EpochStart(finalized.epoch)
<1>1. f \in Roots /\ RootOf(t.parent[f]) \in OptRoots
  BY SMTT(30), NodeFacts, TreeFields DEF OptRoots
<1>2. prune(t, finalized) = Kept(IF t.slot[f] = max THEN v ELSE pruneChildren(v, f, max))
  BY DEF prune
<1>3. /\ u \in Trees /\ u.empty = t.empty \ competing(t, f) /\ u.full = t.full \ competing(t, f)
      /\ u.slot = t.slot /\ u.path = t.path /\ u.target = t.target /\ u.optimistic = t.optimistic
      /\ \A pn \in PayloadNodes : u.children[pn] \subseteq t.children[pn]
  BY SMTT(30), PrunedNodesFields
<1>4. u.children = chl
  BY DEF prunedNodes, Trees
<1> HIDE DEF u
<1>5. trg \in [Roots -> OptRoots] /\ par \in [Roots -> PayloadNodes \cup {NoNode}]
      /\ par[f] = NoNode /\ \A x \in Roots : par[x] \in {t.parent[x], NoNode}
  BY SMTT(30), <1>1, <1>3, TreeFields DEF OptRoots
<1> HIDE DEF trg, par, chl
<1>6. /\ v \in Trees /\ v.empty = u.empty /\ v.full = u.full /\ v.root = f
      /\ v.slot = t.slot /\ v.path = t.path /\ v.optimistic = t.optimistic
      /\ v.parent = par /\ v.children = chl
  BY <1>1, <1>3, <1>4, <1>5 DEF Trees
<1> HIDE DEF v
<1>7. IsRerooted(t, v, f)
  BY <1>3, <1>6 DEF IsRerooted, par, chl
<1>8. IsShrinking(t, v)
  <2>1. f \notin competing(t, f)
    BY DEF competing
  <2> QED
    BY <1>3, <1>4, <1>5, <1>6, <2>1 DEF IsShrinking
<1>9. IsTrimmed(v, pruneChildren(v, f, max), f, max)
  <2> DEFINE gone == TooOld(v, f, max)
             old == tooOld(v, f, max)
             s == prunedNodes(v, gone)
             c == [pn \in PayloadNodes |->
                    IF pn = Empty(f) \/ (pn = Full(f) /\ f \in v.full)
                    THEN s.children[pn] \ old ELSE s.children[pn]]
             w == pruneChildren(v, f, max)
  <2>1. w = [s EXCEPT !.children = c]
    BY DEF pruneChildren, TooOld
  <2>2. /\ s \in Trees /\ s.empty = v.empty \ gone /\ s.full = v.full \ gone /\ s.root = v.root
        /\ s.slot = v.slot /\ s.path = v.path /\ s.parent = v.parent
    BY SMTT(30), <1>6, PrunedNodesFields
  <2>3. s.children = [pn \in PayloadNodes |->
                        IF RootOf(pn) \in gone /\ (IsFull(pn) => RootOf(pn) \in v.full)
                        THEN {} ELSE v.children[pn]]
    <3> HIDE DEF gone
    <3> QED
      BY <1>6 DEF prunedNodes, Trees
  <2>4. \A pn \in PayloadNodes :
            c[pn] = (IF RootOf(pn) \in gone /\ (IsFull(pn) => RootOf(pn) \in v.full)
                     THEN {} ELSE v.children[pn])
                    \ (IF pn = Empty(f) \/ (pn = Full(f) /\ f \in v.full) THEN old ELSE {})
    <3> HIDE DEF gone, old, s
    <3> QED
      BY <2>3
  <2> HIDE DEF s, c, gone, old
  <2>5. /\ w.empty = v.empty \ gone /\ w.full = v.full \ gone /\ w.root = v.root
        /\ w.slot = v.slot /\ w.path = v.path /\ w.parent = v.parent /\ w.children = c
    BY <2>1, <2>2 DEF Trees
  <2> HIDE DEF w
  <2> QED
    BY <2>4, <2>5 DEF IsTrimmed, w, gone, old
<1>10. /\ ~prune(t, finalized).err
       /\ prune(t, finalized).tree = IF t.slot[f] = max THEN v ELSE pruneChildren(v, f, max)
  BY SMTT(30), <1>2 DEF Kept
<1> QED
  BY <1>6, <1>7, <1>8, <1>9, <1>10

\* What is below a block of a whole tree builds on it, and is later.
LEMMA BelowLater ==
    ASSUME NEW t \in Trees, TreeInv(t), Whole(t), NEW f \in t.empty, NEW x \in ConsensusBelow(t, f)
    PROVE  x \in t.empty /\ f \in RootsOn(t, x) /\ t.slot[f] < t.slot[x]
<1> USE DEF TreeInv, Whole
<1>1. PICK q : x \in Below(t, q) /\ (q = Empty(f) \/ q = Full(f))
  BY DEF ConsensusBelow
<1>2. x \in t.empty /\ q \in t.path[x]
  BY <1>1, BelowParent
<1>3. RootOf(q) = f
  BY <1>1, NodeFacts, TreeFields
<1>4. f \in RootsOn(t, x)
  BY <1>2, <1>3 DEF RootsOn
<1> QED
  BY <1>2, <1>4 DEF Ascending

\* A block is below f when its parent is f or below it, and only then.
LEMMA BelowByParent ==
    ASSUME NEW t \in Trees, TreeInv(t), Whole(t), NEW f \in t.empty, NEW pn \in PayloadNodes,
           NEW c \in t.children[pn]
    PROVE  c \in ConsensusBelow(t, f) <=> RootOf(pn) = f \/ RootOf(pn) \in ConsensusBelow(t, f)
<1> USE DEF TreeInv, Whole
<1>1. Held(t, pn) /\ c \in t.empty /\ t.parent[c] = pn
  BY DEF Listed
<1>2. f \in Roots /\ RootOf(Empty(f)) = f /\ RootOf(Full(f)) = f
  BY TreeFields, NodeFacts
<1>3. ASSUME c \in ConsensusBelow(t, f)
      PROVE  RootOf(pn) = f \/ RootOf(pn) \in ConsensusBelow(t, f)
  <2>1. PICK q : /\ c \in Below(t, q)
                 /\ q = Empty(f) \/ (q = Full(f) /\ f \in t.full)
    BY <1>3 DEF ConsensusBelow
  <2>2. pn = q \/ RootOf(pn) \in Below(t, q)
    BY <1>1, <2>1, BelowParent
  <2> QED
    BY <1>2, <2>1, <2>2 DEF ConsensusBelow
<1>4. ASSUME RootOf(pn) = f
      PROVE  c \in ConsensusBelow(t, f)
  <2>1. pn = Empty(f) \/ (pn = Full(f) /\ f \in t.full)
    BY <1>1, <1>4, NodeFacts DEF Held
  <2>2. c \in Below(t, pn)
    BY ChildBelow
  <2> QED
    BY <2>1, <2>2 DEF ConsensusBelow
<1>5. ASSUME RootOf(pn) \in ConsensusBelow(t, f)
      PROVE  c \in ConsensusBelow(t, f)
  <2>1. PICK q : /\ RootOf(pn) \in Below(t, q)
                 /\ q = Empty(f) \/ (q = Full(f) /\ f \in t.full)
    BY <1>5 DEF ConsensusBelow
  <2>2. c \in Below(t, q)
    BY <2>1, ChildBelow
  <2> QED
    BY <2>1, <2>2 DEF ConsensusBelow
<1> QED
  BY <1>3, <1>4, <1>5

\* Without the branches that compete with f the tree is whole again.
LEMMA RerootedWhole ==
    ASSUME NEW t \in Trees, TreeInv(t), Whole(t), NEW f \in t.empty, t.parent[f] # NoNode,
           NEW v \in Trees, IsRerooted(t, v, f)
    PROVE  Whole(v) /\ v.empty = {f} \cup ConsensusBelow(t, f)
<1> USE DEF TreeInv, Whole
<1> DEFINE kept == {f} \cup ConsensusBelow(t, f)
           gone == competing(t, f)
<1>1. kept \subseteq t.empty /\ gone = t.empty \ kept /\ f \in Roots
  <2>1. kept \subseteq t.empty
    BY BelowLater
  <2>2. t.empty = Reachable(t)
    BY WholeReachable
  <2> QED
    BY <2>1, <2>2, TreeFields DEF competing
<1>2. /\ v.empty = t.empty \ gone /\ v.full = t.full \ gone
      /\ v.root = f /\ v.slot = t.slot /\ v.path = t.path
      /\ v.parent = [t.parent EXCEPT ![f] = NoNode]
      /\ v.children = [pn \in PayloadNodes |->
            IF RootOf(pn) \in gone /\ (IsFull(pn) => RootOf(pn) \in t.full)
            THEN {} ELSE t.children[pn]]
  BY DEF IsRerooted
<1> HIDE DEF gone, kept
<1>3. v.empty = kept
  BY <1>1, <1>2
<1>4. \A x \in Roots : x # f => v.parent[x] = t.parent[x]
  BY SMTT(30), <1>2, TreeFields
<1>5. Listed(v)
  <2> SUFFICES ASSUME NEW pn \in PayloadNodes, NEW c \in v.children[pn]
               PROVE  Held(v, pn) /\ c \in v.empty /\ v.parent[c] = pn
    BY DEF Listed
  <2>1. c \in t.children[pn] /\ ~(RootOf(pn) \in gone /\ (IsFull(pn) => RootOf(pn) \in t.full))
    BY <1>2
  <2>2. Held(t, pn) /\ c \in t.empty /\ t.parent[c] = pn /\ c \in Roots
    BY <2>1, TreeFields DEF Listed
  <2>3. Held(v, pn) /\ RootOf(pn) \in kept
    BY <1>1, <1>2, <1>3, <2>1, <2>2 DEF Held
  <2>4. c \in ConsensusBelow(t, f)
    BY <2>1, <2>3, BelowByParent DEF kept
  <2>5. c # f
    <3>1. t.slot[f] < t.slot[c] /\ t.slot[f] \in Nat
      BY SMTT(30), <1>1, <2>4, BelowLater, TreeFields, TimeAssumption DEF Slots
    <3> QED
      BY SMTT(30), <3>1
  <2> QED
    BY <1>3, <1>4, <2>2, <2>3, <2>4, <2>5 DEF kept
<1>6. Attached(v)
  <2> SUFFICES ASSUME NEW x \in v.empty \ {v.root}
               PROVE  v.parent[x] # NoNode /\ x \in v.children[v.parent[x]]
    BY DEF Attached
  <2>1. x \in ConsensusBelow(t, f) /\ x # f
    BY <1>2, <1>3 DEF kept
  <2>2. x \in Roots /\ t.parent[x] \in PayloadNodes /\ x \in t.children[t.parent[x]]
    <3>1. PICK q : x \in Below(t, q)
      BY <2>1 DEF ConsensusBelow
    <3> QED
      BY <3>1, BelowParent DEF Below
  <2>3. RootOf(t.parent[x]) \in kept
    BY <2>1, <2>2, BelowByParent DEF kept
  <2>4. RootOf(t.parent[x]) \notin gone
    BY <1>1, <2>3
  <2> QED
    BY SMTT(30), <1>2, <1>4, <2>1, <2>2, <2>4, NodeFacts
<1>7. Ascending(v)
  BY <1>1, <1>2, <1>3 DEF Ascending, RootsOn
<1> QED
  BY <1>1, <1>2, <1>3, <1>5, <1>6, <1>7 DEF kept

\* Without the children of the root that are too old, and what is below them,
\* the tree is whole, and every block but the root is later than the checkpoint.
LEMMA TrimmedWhole ==
    ASSUME NEW v \in Trees, TreeInv(v), Whole(v), NEW f \in v.empty, v.root = f, NEW max \in Nat,
           NEW w \in Trees, IsTrimmed(v, w, f, max)
    PROVE  /\ Whole(w)
           /\ \A x \in w.empty \ {f} : w.slot[x] > max
<1> USE DEF TreeInv, Whole
<1> DEFINE old == tooOld(v, f, max)
           gone == TooOld(v, f, max)
<1>1. /\ w.empty = v.empty \ gone /\ w.full = v.full \ gone
      /\ w.root = v.root /\ w.slot = v.slot /\ w.path = v.path /\ w.parent = v.parent
      /\ \A pn \in PayloadNodes :
            w.children[pn] =
                (IF RootOf(pn) \in gone /\ (IsFull(pn) => RootOf(pn) \in v.full)
                 THEN {} ELSE v.children[pn])
                \ (IF pn = Empty(f) \/ (pn = Full(f) /\ f \in v.full) THEN old ELSE {})
  BY DEF IsTrimmed
<1>2. f \in Roots /\ Empty(f) \in PayloadNodes /\ Full(f) \in PayloadNodes
  BY TreeFields, NodeFacts
<1>3. \A c \in old : \E pn \in PayloadNodes :
            /\ pn = Empty(f) \/ (pn = Full(f) /\ f \in v.full)
            /\ c \in v.children[pn]
  BY <1>2 DEF tooOld, allConsensusChildren
<1>4. old \subseteq v.empty
  BY <1>3 DEF Listed
<1>5. ASSUME NEW pn \in PayloadNodes, NEW c \in v.children[pn]
      PROVE  c \in gone <=> c \in old \/ RootOf(pn) \in gone
  <2>1. \A o \in old : c \in ConsensusBelow(v, o) <=> RootOf(pn) = o \/ RootOf(pn) \in ConsensusBelow(v, o)
    BY <1>4, <1>5, BelowByParent
  <2> QED
    BY <2>1 DEF TooOld
<1>6. old \subseteq gone
  BY DEF TooOld
<1> HIDE DEF gone, old
<1>7. Listed(w)
  <2> SUFFICES ASSUME NEW pn \in PayloadNodes, NEW c \in w.children[pn]
               PROVE  Held(w, pn) /\ c \in w.empty /\ w.parent[c] = pn
    BY DEF Listed
  <2>1. /\ c \in v.children[pn] /\ ~(RootOf(pn) \in gone /\ (IsFull(pn) => RootOf(pn) \in v.full))
        /\ pn = Empty(f) \/ (pn = Full(f) /\ f \in v.full) => c \notin old
    BY <1>1
  <2>2. Held(v, pn) /\ c \in v.empty /\ v.parent[c] = pn
    BY <2>1 DEF Listed
  <2>3. RootOf(pn) \notin gone
    BY <2>1, <2>2 DEF Held
  <2>4. c \notin old
    <3>1. ASSUME c \in old PROVE FALSE
      <4>1. PICK q \in PayloadNodes : /\ q = Empty(f) \/ (q = Full(f) /\ f \in v.full)
                                      /\ c \in v.children[q]
        BY <1>3, <3>1
      <4>2. v.parent[c] = q
        BY <4>1 DEF Listed
      <4> QED
        BY <2>1, <2>2, <3>1, <4>1, <4>2
    <3> QED
      BY <3>1
  <2>5. c \notin gone
    BY <1>5, <2>1, <2>3, <2>4
  <2> QED
    BY <1>1, <2>2, <2>3, <2>5 DEF Held
<1>8. Attached(w)
  <2> SUFFICES ASSUME NEW x \in w.empty \ {w.root}
               PROVE  w.parent[x] # NoNode /\ x \in w.children[w.parent[x]]
    BY DEF Attached
  <2>1. x \in v.empty /\ x # v.root /\ x \notin gone /\ x \in Roots
    BY <1>1, TreeFields
  <2>2. v.parent[x] # NoNode /\ x \in v.children[v.parent[x]] /\ v.parent[x] \in PayloadNodes
    BY SMTT(30), <2>1, TreeFields DEF Attached
  <2>3. RootOf(v.parent[x]) \notin gone /\ x \notin old
    BY <1>5, <1>6, <2>1, <2>2
  <2> QED
    BY <1>1, <2>2, <2>3
<1>9. Ascending(w)
  BY <1>1 DEF Ascending, RootsOn
<1>10. ASSUME NEW x \in {y \in w.empty \ {f} : ~(w.slot[y] > max)},
              \A y \in {y \in w.empty \ {f} : ~(w.slot[y] > max)} : ~(w.slot[y] < w.slot[x])
       PROVE  FALSE
  <2> DEFINE p == w.parent[x]
  <2>1. x \in Roots /\ p # NoNode /\ x \in w.children[p] /\ p \in PayloadNodes
    BY SMTT(30), <1>1, <1>8, TreeFields DEF Attached
  <2>2. Held(w, p) /\ x \in w.empty
    BY <1>7, <2>1 DEF Listed
  <2>3. x \in v.children[p] /\ x \notin old /\ x \in v.empty
    BY SMTT(30), <1>1, <1>6, <2>1, <2>2
  <2>4. CASE RootOf(p) = f
    <3>1. p = Empty(f) \/ (p = Full(f) /\ f \in v.full)
      BY SMTT(30), <1>1, <2>1, <2>2, <2>4, NodeFacts DEF Held
    <3>2. ~(v.slot[x] <= max)
      BY <2>3, <3>1 DEF old, tooOld, allConsensusChildren
    <3>3. v.slot[x] \in Nat
      BY SMTT(30), <2>1, TreeFields, TimeAssumption DEF Slots
    <3> QED
      BY SMTT(30), <1>1, <3>2, <3>3
  <2>5. CASE RootOf(p) # f
    <3>1. RootOf(p) \in RootsOn(v, x)
      <4>1. v.parent[x] \in v.path[x]
        BY <1>1, <2>1, <2>3 DEF Chains, ParentNearest
      <4> QED
        BY <1>1, <4>1 DEF RootsOn
    <3>2. v.slot[RootOf(p)] < v.slot[x]
      BY <2>3, <3>1 DEF Ascending
    <3>3. v.slot[RootOf(p)] \in Nat /\ v.slot[x] \in Nat
      BY SMTT(30), <2>1, NodeFacts, TreeFields, TimeAssumption DEF Slots
    <3>4. RootOf(p) \in w.empty \ {f} /\ ~(w.slot[RootOf(p)] > max)
      BY SMTT(30), <1>1, <2>2, <2>5, <3>2, <3>3 DEF Held
    <3> QED
      BY <1>1, <1>10, <3>2, <3>4
  <2> QED
    BY <2>4, <2>5
<1>11. \A x \in w.empty \ {f} : w.slot[x] > max
  <2> DEFINE bad == {y \in w.empty \ {f} : ~(w.slot[y] > max)}
  <2>1. bad \subseteq Roots
    BY TreeFields
  <2>2. bad = {}
    <3> HIDE DEF bad
    <3>1. bad # {} => \E x \in bad : \A y \in bad : ~(w.slot[y] < w.slot[x])
      BY <2>1, EarliestBlock
    <3> QED
      BY <1>10, <3>1 DEF bad
  <2> QED
    BY <2>2
<1> QED
  BY <1>1, <1>7, <1>8, <1>9, <1>11

\* prune keeps the tree whole.  When it succeeds its root is the finalized block,
\* and when the root changes every other block is later than the checkpoint.
LEMMA PruneWhole ==
    ASSUME NEW t \in Trees, TreeInv(t), Whole(t), NEW finalized, EpochStart(finalized.epoch) \in Nat,
           NEW u, u = prune(t, finalized).tree
    PROVE  /\ Whole(u)
           /\ finalized.root \in t.empty => u.root = finalized.root /\ ~prune(t, finalized).err
           /\ finalized.root \notin t.empty => u = t /\ prune(t, finalized).err
           /\ u.root # t.root =>
                \A x \in u.empty \ {u.root} : u.slot[x] > EpochStart(finalized.epoch)
<1> USE DEF TreeInv
<1> DEFINE f == finalized.root
           max == EpochStart(finalized.epoch)
<1>1. CASE f \notin t.empty
  <2>1. prune(t, finalized) = Refused(t)
    BY <1>1 DEF prune
  <2> QED
    BY SMTT(30), <1>1, <2>1 DEF Refused
<1>2. CASE f \in t.empty /\ t.parent[f] = NoNode
  <2>1. prune(t, finalized) = Kept(t)
    BY <1>2 DEF prune
  <2>2. f = t.root
    BY <1>2 DEF Whole, Attached
  <2> QED
    BY SMTT(30), <1>2, <2>1, <2>2 DEF Kept
<1>3. CASE f \in t.empty /\ t.parent[f] # NoNode
  <2>1. PICK v \in Trees :
              /\ IsRerooted(t, v, f)
              /\ IsShrinking(t, v)
              /\ ~prune(t, finalized).err
              /\ (t.slot[f] = max /\ u = v) \/ IsTrimmed(v, u, f, max)
    BY <1>3, PruneParts
  <2>2. Whole(v) /\ v.empty = {f} \cup ConsensusBelow(t, f) /\ v.root = f /\ v.slot = t.slot
    <3>1. Whole(v) /\ v.empty = {f} \cup ConsensusBelow(t, f)
      BY <1>3, <2>1, RerootedWhole
    <3> QED
      BY <2>1, <3>1 DEF IsRerooted
  <2>3. TreeInv(v)
    BY <2>1, ShrinkTree
  <2>4. CASE t.slot[f] = max /\ u = v
    <3>1. ASSUME NEW x \in u.empty \ {f}
          PROVE  u.slot[x] > max
      <4>1. t.slot[f] < t.slot[x] /\ x \in Roots /\ f \in Roots
        BY <1>3, <2>2, <2>4, BelowLater, TreeFields
      <4>2. t.slot[f] \in Nat /\ t.slot[x] \in Nat
        BY SMTT(30), <4>1, TreeFields, TimeAssumption DEF Slots
      <4> QED
        BY <2>2, <2>4, <4>1, <4>2
    <3> QED
      BY <1>3, <2>1, <2>2, <2>4, <3>1
  <2>5. CASE IsTrimmed(v, u, f, max)
    <3>1. u \in Trees
      BY PruneFields
    <3>2. Whole(u) /\ \A x \in u.empty \ {f} : u.slot[x] > max
      BY <2>2, <2>3, <2>5, <3>1, TrimmedWhole
    <3> QED
      BY <1>3, <2>1, <2>2, <2>5, <3>2 DEF IsTrimmed
  <2> QED
    BY <2>1, <2>4, <2>5
<1> QED
  BY <1>1, <1>2, <1>3

=============================================================================
