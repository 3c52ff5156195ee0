--------------------------- MODULE CowTreeProofs ---------------------------
(***************************************************************************)
(* Proofs about the memiavl tree: setRecursive and removeRecursive are     *)
(* correct on every heap and for every tree, and the specification CowTree *)
(* keeps its properties.                                                   *)
(***************************************************************************)
EXTENDS CowTree, SetLemmas

-----------------------------------------------------------------------------
(***************************************************************************)
(* Trees in a heap.  While an operation runs, the heap holds nodes whose   *)
(* fields do not fit together, and Reach says nothing about those.  Under  *)
(* is the least set that holds n and the children of its members: what is  *)
(* shown of all such sets holds of Under, without an induction.            *)
(***************************************************************************)
HeapOK(h) == IsFiniteSet(DOMAIN h) /\ DOMAIN h \subseteq Nat \ {Nil}

Closed(h, S) == \A x \in S : Children(h, x) \subseteq S

Under(h, n) ==
    {x \in DOMAIN h : \A S \in SUBSET DOMAIN h : n \in S /\ Closed(h, S) => x \in S}

\* A finite set of integers has a greatest element.
LEMMA FiniteGreatest ==
    ASSUME NEW S \in SUBSET Int, IsFiniteSet(S), S # {}
    PROVE  \E m \in S : \A n \in S : n =< m
<1>. DEFINE Good == {s \in SUBSET S : s # {} => \E m \in s : \A n \in s : n =< m}
<1>1. ASSUME NEW s \in SUBSET S, \A u \in SUBSET s : u # s => u \in Good
      PROVE  s \in Good
  <2>. SUFFICES ASSUME s # {} PROVE \E m \in s : \A n \in s : n =< m
    OBVIOUS
  <2>1. PICK a \in s : TRUE
    OBVIOUS
  <2>2. s \ {a} \in Good
    BY <1>1, <2>1
  <2>3. CASE s \ {a} = {}
    BY <2>1, <2>3
  <2>4. CASE s \ {a} # {}
    <3>1. PICK m \in s \ {a} : \A n \in s \ {a} : n =< m
      BY <2>2, <2>4
    <3>2. CASE a =< m
      BY <3>1, <3>2
    <3>3. CASE m < a
      BY <3>1, <3>3
    <3>. QED  BY <3>2, <3>3
  <2>. QED  BY <2>3, <2>4
<1>2. \A s \in SUBSET S : s \in Good
  <2>. HIDE DEF Good
  <2>. QED  BY <1>1, SubsetInduction
<1>3. S \in Good
  BY <1>2
<1>. QED  BY <1>3

\* An allocated address is new.
LEMMA FreshIsNew ==
    ASSUME NEW h, HeapOK(h)
    PROVE  Fresh(h) \in Nat \ {Nil} /\ Fresh(h) \notin DOMAIN h
<1>. DEFINE S == DOMAIN h \cup {Nil}
<1>1. S \in SUBSET Int /\ IsFiniteSet(S) /\ S # {} /\ S \subseteq Nat
  BY FS_AddElement DEF HeapOK, Nil
<1>2. PICK m \in S : \A n \in S : n =< m
  <2>. HIDE DEF S
  <2>. QED  BY <1>1, FiniteGreatest
<1>3. Max(S) \in S /\ \A n \in S : Max(S) >= n
  BY <1>1, <1>2 DEF Max
<1>4. Fresh(h) = Max(S) + 1
  BY DEF Fresh
<1>. HIDE DEF S
<1>5. Max(S) + 1 \in Nat \ {0} /\ Max(S) + 1 \notin S
  <2>1. \A i \in Nat : ~(i >= i + 1) /\ i + 1 \in Nat \ {0}
    OBVIOUS
  <2>. QED  BY <1>1, <1>3, <2>1
<1>. QED  BY <1>4, <1>5 DEF S, Nil

LEMMA AllocFacts ==
    ASSUME NEW h, HeapOK(h), NEW node
    PROVE  /\ HeapOK(Alloc(h, node))
           /\ DOMAIN Alloc(h, node) = DOMAIN h \cup {Fresh(h)}
           /\ Alloc(h, node)[Fresh(h)] = node
           /\ \A x \in DOMAIN h : Alloc(h, node)[x] = h[x]
<1>1. Fresh(h) \in Nat \ {Nil} /\ Fresh(h) \notin DOMAIN h
  BY FreshIsNew
<1>2. IsFiniteSet(DOMAIN h \cup {Fresh(h)})
  BY FS_AddElement DEF HeapOK
<1>. QED  BY <1>1, <1>2 DEF Alloc, HeapOK

-----------------------------------------------------------------------------
\* Under is the least closed set.
LEMMA UnderRoot ==
    ASSUME NEW h, NEW n \in DOMAIN h
    PROVE  n \in Under(h, n) /\ Under(h, n) \subseteq DOMAIN h
  BY DEF Under

LEMMA UnderClosed ==
    ASSUME NEW h, NEW n, NEW x \in Under(h, n), NEW c \in Children(h, x)
    PROVE  c \in Under(h, n)
<1>1. c \in DOMAIN h
  BY DEF Children
<1>2. ASSUME NEW S \in SUBSET DOMAIN h, n \in S, Closed(h, S) PROVE c \in S
  BY <1>2 DEF Under, Closed
<1>. QED  BY <1>1, <1>2 DEF Under

LEMMA UnderLeast ==
    ASSUME NEW h, NEW n, NEW S \in SUBSET DOMAIN h, n \in S, Closed(h, S)
    PROVE  Under(h, n) \subseteq S
  BY DEF Under

LEMMA UnderUnder ==
    ASSUME NEW h, NEW n, NEW x \in Under(h, n)
    PROVE  Under(h, x) \subseteq Under(h, n)
<1>1. Under(h, n) \in SUBSET DOMAIN h
  BY DEF Under
<1>2. Closed(h, Under(h, n))
  BY UnderClosed DEF Closed
<1>. QED  BY <1>1, <1>2, UnderLeast

\* A node and the nodes under its children.
LEMMA UnderUnfold ==
    ASSUME NEW h, NEW n \in DOMAIN h
    PROVE  Under(h, n) = {n} \cup UNION {Under(h, c) : c \in Children(h, n)}
<1>. DEFINE S == {n} \cup UNION {Under(h, c) : c \in Children(h, n)}
<1>1. S \in SUBSET DOMAIN h
  BY DEF Under
<1>2. ASSUME NEW x \in S, NEW c \in Children(h, x) PROVE c \in S
  <2>1. CASE x = n
    <3>1. c \in DOMAIN h
      BY DEF Children
    <3>2. c \in Under(h, c)
      BY <3>1, UnderRoot
    <3>. QED  BY <2>1, <1>2, <3>2
  <2>2. CASE x # n
    <3>1. PICK d \in Children(h, n) : x \in Under(h, d)
      BY <2>2
    <3>2. c \in Under(h, d)
      BY <3>1, <1>2, UnderClosed
    <3>. QED  BY <3>1, <3>2
  <2>. QED  BY <2>1, <2>2
<1>3. Under(h, n) \subseteq S
  <2>1. Closed(h, S)
    BY <1>2 DEF Closed
  <2>. HIDE DEF S
  <2>2. n \in S
    BY DEF S
  <2>. QED  BY <1>1, <2>1, <2>2, UnderLeast
<1>4. S \subseteq Under(h, n)
  <2>1. n \in Under(h, n)
    BY UnderRoot
  <2>2. ASSUME NEW c \in Children(h, n) PROVE Under(h, c) \subseteq Under(h, n)
    BY <2>1, <2>2, UnderClosed, UnderUnder
  <2>. QED  BY <2>1, <2>2
<1>. QED  BY <1>3, <1>4

\* The nodes under n are the same in a heap that has the same nodes there.
LEMMA UnderFrame ==
    ASSUME NEW h, NEW g, HeapOK(h), HeapOK(g), NEW n \in DOMAIN h,
           \A x \in Under(h, n) : {h[x].left, h[x].right} \subseteq DOMAIN h \cup {Nil},
           \A x \in Under(h, n) : x \in DOMAIN g /\ g[x] = h[x]
    PROVE  Under(g, n) = Under(h, n)
<1>. DEFINE U == Under(h, n)
<1>1. n \in U /\ U \subseteq DOMAIN h /\ U \subseteq DOMAIN g
  BY UnderRoot
<1>2. ASSUME NEW x \in U PROVE Children(g, x) = Children(h, x)
  <2>1. Nil \notin DOMAIN h /\ Nil \notin DOMAIN g
    BY DEF HeapOK
  <2>2. Children(h, x) \subseteq U
    BY UnderClosed
  <2>. QED  BY <1>1, <2>1, <2>2 DEF Children
<1>3. Under(g, n) \subseteq U
  <2>1. Closed(g, U)
    BY <1>2, UnderClosed DEF Closed
  <2>. HIDE DEF U
  <2>. QED  BY <1>1, <2>1, UnderLeast
<1>4. U \subseteq Under(g, n)
  <2>1. Under(g, n) \in SUBSET DOMAIN h /\ n \in Under(g, n)
    BY <1>1, <1>3, UnderRoot
  <2>2. Closed(h, Under(g, n))
    BY <1>2, <1>3, UnderClosed DEF Closed
  <2>. QED  BY <2>1, <2>2, UnderLeast
<1>. QED  BY <1>3, <1>4

-----------------------------------------------------------------------------
(***************************************************************************)
(* Well-formed trees.                                                      *)
(***************************************************************************)
Fields == {"disk", "height", "size", "version", "key", "value", "left", "right", "hash"}

LeavesUnder(h, n) == {m \in Under(h, n) : IsLeaf(h, m)}

Ent(h, n) == {<<h[m].key, h[m].value>> : m \in LeavesUnder(h, n)}

Keys(h, n) == {h[m].key : m \in LeavesUnder(h, n)}

Disjoint(h, l, r) == Under(h, l) \cap Under(h, r) = {}

\* A branch with this key may be put above the trees at l and r.
Sorted(h, l, r, key) ==
    /\ \A i \in Keys(h, l) : i < key
    /\ \A i \in Keys(h, r) : key =< i
    /\ key \in Keys(h, r)

TallerOf(h, l, r) == IF h[l].height > h[r].height THEN h[l].height ELSE h[r].height

\* Height and size of a node are those of its children.
Measured(h, x) ==
    /\ h[x].height = TallerOf(h, h[x].left, h[x].right) + 1
    /\ h[x].size = h[h[x].left].size + h[h[x].right].size

NodeType(h, x) ==
    /\ DOMAIN h[x] = Fields
    /\ h[x].disk \in BOOLEAN /\ h[x].height \in Nat /\ h[x].size \in Nat
    /\ h[x].version \in Nat /\ h[x].key \in Key

LeafOK(h, x) ==
    h[x].size = 1 /\ h[x].left = Nil /\ h[x].right = Nil /\ h[x].value \in Value

BranchOK(h, x) ==
    /\ h[x].left \in DOMAIN h /\ h[x].right \in DOMAIN h
    /\ h[x].value = NoValue
    /\ Disjoint(h, h[x].left, h[x].right)
    /\ Sorted(h, h[x].left, h[x].right, h[x].key)
    /\ Measured(h, x)
    /\ calcBalance(h, x) \in -1 .. 1
    /\ h[x].disk => h[h[x].left].disk /\ h[h[x].right].disk

\* The hash of a node, if it has one, is fresh.
FreshAt(h, x) ==
    h[x].hash # NoHash =>
        /\ h[x].hash = HashNode(h, x)
        /\ \A c \in Children(h, x) : h[c].hash # NoHash

NodeOK(h, x) ==
    /\ NodeType(h, x)
    /\ h[x].height = 0 => LeafOK(h, x)
    /\ h[x].height # 0 => BranchOK(h, x)
    /\ FreshAt(h, x)

WF(h, n) == n \in DOMAIN h /\ \A x \in Under(h, n) : NodeOK(h, x)

\* The facts about keys that the order of keys is used for.
LEMMA KeysAreNumbers == Key \subseteq Nat
  BY TreeAssumption

LEMMA WFPointers ==
    ASSUME NEW h, HeapOK(h), NEW n, WF(h, n), NEW x \in Under(h, n)
    PROVE  {h[x].left, h[x].right} \subseteq DOMAIN h \cup {Nil}
  BY DEF WF, NodeOK, LeafOK, BranchOK, NodeType

LEMMA WFUnder ==
    ASSUME NEW h, NEW n, WF(h, n), NEW x \in Under(h, n)
    PROVE  WF(h, x)
<1>1. x \in DOMAIN h
  BY DEF Under
<1>. QED  BY <1>1, UnderUnder DEF WF

\* A node is as well-formed as the nodes under it.
LEMMA NodeFrame ==
    ASSUME NEW h, NEW g, HeapOK(h), HeapOK(g), NEW n, WF(h, n),
           \A x \in Under(h, n) : x \in DOMAIN g /\ g[x] = h[x]
    PROVE  /\ WF(g, n) /\ Under(g, n) = Under(h, n)
           /\ Ent(g, n) = Ent(h, n) /\ Keys(g, n) = Keys(h, n)
<1>1. ASSUME NEW x \in Under(h, n)
      PROVE  /\ Under(g, x) = Under(h, x)
             /\ LeavesUnder(g, x) = LeavesUnder(h, x)
             /\ Ent(g, x) = Ent(h, x) /\ Keys(g, x) = Keys(h, x)
  <2>1. Under(h, x) \subseteq Under(h, n) /\ x \in DOMAIN h
    BY UnderUnder DEF Under
  <2>2. Under(g, x) = Under(h, x)
    BY <2>1, WFPointers, UnderFrame
  <2>3. LeavesUnder(g, x) = LeavesUnder(h, x)
    BY <2>1, <2>2 DEF LeavesUnder, IsLeaf
  <2>4. \A m \in LeavesUnder(h, x) : g[m] = h[m]
    BY <2>1 DEF LeavesUnder
  <2>. QED  BY <2>2, <2>3, <2>4 DEF Ent, Keys
<1>2. n \in Under(h, n) /\ n \in DOMAIN g
  BY UnderRoot DEF WF
<1>3. ASSUME NEW x \in Under(h, n) PROVE NodeOK(g, x)
  <2>1. NodeOK(h, x) /\ g[x] = h[x] /\ x \in DOMAIN h /\ x \in DOMAIN g
    BY DEF WF, Under
  <2>2. Nil \notin DOMAIN h /\ Nil \notin DOMAIN g
    BY DEF HeapOK
  <2>3. CASE h[x].height = 0
    <3>1. Children(g, x) = {} /\ LeafOK(g, x)
      BY <2>1, <2>2, <2>3 DEF NodeOK, LeafOK, Children
    <3>2. FreshAt(g, x)
      BY <2>1, <2>3, <3>1 DEF FreshAt, NodeOK, HashNode, IsLeaf
    <3>. QED  BY <2>1, <2>3, <3>1, <3>2 DEF NodeOK, NodeType
  <2>4. CASE h[x].height # 0
    <3>. DEFINE l == h[x].left
                r == h[x].right
    <3>1. BranchOK(h, x) /\ Children(h, x) = {l, r}
      BY <2>1, <2>4 DEF NodeOK, BranchOK, Children
    <3>2. l \in Under(h, n) /\ r \in Under(h, n)
      BY <3>1, UnderClosed
    <3>3. /\ g[l] = h[l] /\ g[r] = h[r] /\ l \in DOMAIN g /\ r \in DOMAIN g
          /\ Under(g, l) = Under(h, l) /\ Under(g, r) = Under(h, r)
          /\ Keys(g, l) = Keys(h, l) /\ Keys(g, r) = Keys(h, r)
      BY <1>1, <3>2
    <3>4. g[x].left = l /\ g[x].right = r
      BY <2>1
    <3>5. Children(g, x) = {l, r}
      BY <3>3, <3>4 DEF Children
    <3>6. BranchOK(g, x)
      <4>1. Disjoint(g, l, r) /\ Sorted(g, l, r, g[x].key)
        BY <2>1, <3>1, <3>3 DEF BranchOK, Disjoint, Sorted
      <4>2. Measured(g, x) /\ calcBalance(g, x) = calcBalance(h, x)
        BY <2>1, <3>1, <3>3, <3>4 DEF BranchOK, Measured, TallerOf, calcBalance
      <4>. QED  BY <2>1, <3>1, <3>3, <3>4, <4>1, <4>2 DEF BranchOK
    <3>7. FreshAt(g, x)
      BY <2>1, <2>4, <3>1, <3>3, <3>4, <3>5 DEF FreshAt, NodeOK, HashNode, IsLeaf
    <3>. QED  BY <2>1, <2>4, <3>6, <3>7 DEF NodeOK, NodeType
  <2>. QED  BY <2>3, <2>4
<1>. QED  BY <1>1, <1>2, <1>3 DEF WF

\* The height of a tree bounds the heights in it.
LEMMA HeightBound ==
    ASSUME NEW h, HeapOK(h), NEW n, WF(h, n), NEW x \in Under(h, n)
    PROVE  h[x].height =< h[n].height
<1>. DEFINE S == {y \in Under(h, n) : h[y].height =< h[n].height}
<1>1. S \in SUBSET DOMAIN h /\ n \in S
  <2>1. n \in Under(h, n) /\ Under(h, n) \subseteq DOMAIN h /\ h[n].height \in Nat
    BY UnderRoot DEF WF, NodeOK, NodeType
  <2>. QED  BY <2>1
<1>2. ASSUME NEW y \in S, NEW c \in Children(h, y) PROVE c \in S
  <2>1. c \in Under(h, n)
    BY UnderClosed
  <2>2. NodeOK(h, y) /\ NodeOK(h, c) /\ c \in DOMAIN h /\ NodeOK(h, n)
    BY <2>1, <1>1 DEF WF, Under
  <2>3. h[y].height # 0
    BY <2>2 DEF NodeOK, LeafOK, Children, HeapOK
  <2>4. BranchOK(h, y) /\ c \in {h[y].left, h[y].right}
    BY <2>2, <2>3 DEF NodeOK, Children
  <2>5. NodeOK(h, h[y].left) /\ NodeOK(h, h[y].right)
    <3>1. h[y].left \in Children(h, y) /\ h[y].right \in Children(h, y)
      BY <2>4 DEF BranchOK, Children
    <3>. QED  BY <3>1, UnderClosed DEF WF
  <2>6. h[c].height =< h[y].height
    <3>1. h[h[y].left].height \in Nat /\ h[h[y].right].height \in Nat
      BY <2>5 DEF NodeOK, NodeType
    <3>2. h[y].height = TallerOf(h, h[y].left, h[y].right) + 1
      BY <2>4 DEF BranchOK, Measured
    <3>3. c = h[y].left \/ c = h[y].right
      BY <2>4
    <3>. QED  BY <3>1, <3>2, <3>3 DEF TallerOf
  <2>7. h[c].height =< h[n].height
    BY <2>6, <2>2 DEF NodeOK, NodeType
  <2>. QED  BY <2>1, <2>7
<1>3. Closed(h, S)
  BY <1>2 DEF Closed
<1>4. Under(h, n) \subseteq S
  <2>. HIDE DEF S
  <2>. QED  BY <1>1, <1>3, UnderLeast
<1>. QED  BY <1>4

\* What is known of the parts of a well-formed tree that is not a leaf.
LEMMA WFBranch ==
    ASSUME NEW h, HeapOK(h), NEW n, WF(h, n), h[n].height # 0,
           NEW l, NEW r, l = h[n].left, r = h[n].right
    PROVE  /\ WF(h, l) /\ WF(h, r) /\ BranchOK(h, n) /\ NodeType(h, n)
           /\ NodeType(h, l) /\ NodeType(h, r)
           /\ Under(h, n) = {n} \cup Under(h, l) \cup Under(h, r)
           /\ n \notin Under(h, l) /\ n \notin Under(h, r)
           /\ l \in Under(h, l) /\ r \in Under(h, r)
           /\ l \in DOMAIN h /\ r \in DOMAIN h /\ l # r /\ n # l /\ n # r
           /\ Ent(h, n) = Ent(h, l) \cup Ent(h, r)
           /\ Keys(h, n) = Keys(h, l) \cup Keys(h, r)
<1>1. n \in Under(h, n) /\ n \in DOMAIN h /\ NodeOK(h, n)
  BY UnderRoot DEF WF
<1>2. BranchOK(h, n) /\ NodeType(h, n) /\ Children(h, n) = {l, r}
  BY <1>1 DEF NodeOK, BranchOK, Children
<1>3. l \in Under(h, n) /\ r \in Under(h, n) /\ l \in DOMAIN h /\ r \in DOMAIN h
  BY <1>1, <1>2, UnderClosed DEF BranchOK
<1>4. WF(h, l) /\ WF(h, r)
  BY <1>3, WFUnder
<1>5. l \in Under(h, l) /\ r \in Under(h, r)
  BY <1>3, UnderRoot
<1>6. NodeType(h, l) /\ NodeType(h, r)
  BY <1>3 DEF WF, NodeOK
<1>7. Under(h, n) = {n} \cup Under(h, l) \cup Under(h, r)
  BY <1>1, <1>2, UnderUnfold
<1>8. h[l].height < h[n].height /\ h[r].height < h[n].height
  BY <1>2, <1>6 DEF BranchOK, Measured, TallerOf, NodeType
<1>9. n \notin Under(h, l) /\ n \notin Under(h, r)
  <2>1. \A x \in Under(h, l) : h[x].height =< h[l].height
    BY <1>4, HeightBound
  <2>2. \A x \in Under(h, r) : h[x].height =< h[r].height
    BY <1>4, HeightBound
  <2>. QED  BY <1>2, <1>6, <1>8, <2>1, <2>2 DEF NodeType
<1>10. LeavesUnder(h, n) = LeavesUnder(h, l) \cup LeavesUnder(h, r)
  BY <1>7 DEF LeavesUnder, IsLeaf
<1>11. l # r
  BY <1>2, <1>5 DEF BranchOK, Disjoint
<1>. QED  BY <1>2, <1>3, <1>4, <1>5, <1>6, <1>7, <1>9, <1>10, <1>11 DEF Ent, Keys

\* A new or mutated branch of the block that is being written.
BranchAt(g, x, l, r, key, ver) ==
    /\ x \in DOMAIN g /\ DOMAIN g[x] = Fields
    /\ g[x].left = l /\ g[x].right = r /\ g[x].key = key
    /\ g[x].value = NoValue /\ g[x].version = ver
    /\ g[x].disk = FALSE /\ g[x].hash = NoHash
    /\ Measured(g, x)

\* Two well-formed trees under such a branch are a well-formed tree.
LEMMA Join ==
    ASSUME NEW g, HeapOK(g), NEW x, NEW l, NEW r, NEW key \in Key, NEW ver \in Nat,
           WF(g, l), WF(g, r), BranchAt(g, x, l, r, key, ver),
           Disjoint(g, l, r), x \notin Under(g, l), x \notin Under(g, r),
           Sorted(g, l, r, key), calcBalance(g, x) \in -1 .. 1
    PROVE  /\ WF(g, x) /\ g[x].height = TallerOf(g, l, r) + 1
           /\ Under(g, x) = {x} \cup Under(g, l) \cup Under(g, r)
           /\ Ent(g, x) = Ent(g, l) \cup Ent(g, r)
           /\ Keys(g, x) = Keys(g, l) \cup Keys(g, r)
<1>1. /\ l \in DOMAIN g /\ r \in DOMAIN g
      /\ l \in Under(g, l) /\ r \in Under(g, r)
      /\ NodeType(g, l) /\ NodeType(g, r)
  BY UnderRoot DEF WF, NodeOK
<1>2. g[x].height \in Nat /\ g[x].height # 0 /\ g[x].size \in Nat
      /\ g[x].height = TallerOf(g, l, r) + 1
  BY <1>1 DEF BranchAt, Measured, TallerOf, NodeType
<1>3. Children(g, x) = {l, r}
  BY <1>1 DEF BranchAt, Children
<1>4. Under(g, x) = {x} \cup Under(g, l) \cup Under(g, r)
  BY <1>3, UnderUnfold DEF BranchAt
<1>5. NodeOK(g, x)
  <2>1. NodeType(g, x)
    BY <1>2 DEF NodeType, BranchAt
  <2>2. BranchOK(g, x)
    BY <1>1 DEF BranchAt, BranchOK
  <2>. QED  BY <1>2, <2>1, <2>2 DEF NodeOK, FreshAt, BranchAt
<1>6. LeavesUnder(g, x) = LeavesUnder(g, l) \cup LeavesUnder(g, r)
  BY <1>2, <1>4 DEF LeavesUnder, IsLeaf
<1>7. WF(g, x)
  BY <1>4, <1>5 DEF WF, BranchAt
<1>. QED  BY <1>2, <1>4, <1>6, <1>7 DEF Ent, Keys

-----------------------------------------------------------------------------
(***************************************************************************)
(* What the operations that write a node leave in the heap.                *)
(***************************************************************************)
\* A node that is not written in place.
Prot(h, x, cow) == h[x].disk \/ h[x].version =< cow

\* The two nodes agree in the fields that the search and the shape depend on.
SameNode(a, b) ==
    /\ a.height = b.height /\ a.size = b.size /\ a.key = b.key
    /\ a.value = b.value /\ a.left = b.left /\ a.right = b.right

\* A node of the block that is being written, without a hash.
Mutated(h, x, ver) ==
    /\ x \in DOMAIN h /\ DOMAIN h[x] = Fields
    /\ h[x].version = ver /\ h[x].disk = FALSE /\ h[x].hash = NoHash

\* Heap g is h after node n has been mutated; p is the mutated node.
Mutates(h, n, ver, cow, g, p) ==
    /\ HeapOK(g) /\ DOMAIN g = DOMAIN h \cup {p}
    /\ \A x \in DOMAIN h : x # p => g[x] = h[x]
    /\ Prot(h, n, cow) => p \notin DOMAIN h
    /\ ~Prot(h, n, cow) => p = n
    /\ Mutated(g, p, ver) /\ SameNode(g[p], h[n])

LEMMA MutateFacts ==
    ASSUME NEW h, HeapOK(h), NEW n \in DOMAIN h, DOMAIN h[n] = Fields, NEW ver, NEW cow
    PROVE  Mutates(h, n, ver, cow, Mutate(h, n, ver, cow).heap, Mutate(h, n, ver, cow).node)
<1>. DEFINE node == [h[n] EXCEPT !.version = ver, !.hash = NoHash, !.disk = FALSE]
            g == Mutate(h, n, ver, cow).heap
            p == Mutate(h, n, ver, cow).node
<1>. SUFFICES Mutates(h, n, ver, cow, g, p)
  OBVIOUS
<1>1. /\ DOMAIN node = Fields /\ node.version = ver /\ node.disk = FALSE
      /\ node.hash = NoHash /\ SameNode(node, h[n])
  BY DEF Fields, SameNode
<1>2. CASE Prot(h, n, cow)
  <2>1. g = Alloc(h, node) /\ p = Fresh(h)
    BY <1>2 DEF Mutate, Prot
  <2>. HIDE DEF node, g, p
  <2>2. p \notin DOMAIN h /\ HeapOK(g) /\ DOMAIN g = DOMAIN h \cup {p} /\ g[p] = node
        /\ \A x \in DOMAIN h : g[x] = h[x]
    BY <2>1, FreshIsNew, AllocFacts
  <2>. QED  BY <1>1, <1>2, <2>2 DEF Mutated, Mutates
<1>3. CASE ~Prot(h, n, cow)
  <2>1. g = [h EXCEPT ![n] = node] /\ p = n
    BY <1>3 DEF Mutate, Prot
  <2>. HIDE DEF node, g, p
  <2>2. DOMAIN g = DOMAIN h /\ g[n] = node /\ \A x \in DOMAIN h : x # n => g[x] = h[x]
    BY <2>1
  <2>3. HeapOK(g)
    BY <2>2 DEF HeapOK
  <2>. QED  BY <1>1, <1>3, <2>1, <2>2, <2>3 DEF Mutated, Mutates
<1>. QED  BY <1>2, <1>3

\* The part of a node that updateHeightSize leaves.
SameBranch(a, b) ==
    /\ DOMAIN a = DOMAIN b /\ a.key = b.key /\ a.value = b.value /\ a.left = b.left
    /\ a.right = b.right /\ a.version = b.version /\ a.disk = b.disk /\ a.hash = b.hash

LEMMA UpdateFacts ==
    ASSUME NEW h, NEW n \in DOMAIN h, DOMAIN h[n] = Fields,
           h[n].left # n, h[n].right # n,
           h[n].left \in DOMAIN h, h[n].right \in DOMAIN h,
           NEW g, g = updateHeightSize(h, n)
    PROVE  /\ DOMAIN g = DOMAIN h /\ \A x \in DOMAIN h : x # n => g[x] = h[x]
           /\ SameBranch(g[n], h[n]) /\ Measured(g, n)
<1>. DEFINE height == TallerOf(h, h[n].left, h[n].right) + 1
            size   == h[h[n].left].size + h[h[n].right].size
<1>1. g = [[h EXCEPT ![n].height = height] EXCEPT ![n].size = size]
  BY DEF updateHeightSize, TallerOf
<1>. HIDE DEF height, size
<1>2. /\ DOMAIN g = DOMAIN h /\ \A x \in DOMAIN h : x # n => g[x] = h[x]
      /\ g[n] = [[h[n] EXCEPT !.height = height] EXCEPT !.size = size]
  BY <1>1
<1>3. SameBranch(g[n], h[n]) /\ g[n].height = height /\ g[n].size = size
  BY <1>2 DEF SameBranch, Fields
<1>4. Measured(g, n)
  BY <1>2, <1>3 DEF Measured, SameBranch, height, size, TallerOf
<1>. QED  BY <1>2, <1>3, <1>4

\* Heap g is h after a rotation at n; p is the child c of n, mutated.
Rotates(h, n, c, cow, g, p) ==
    /\ HeapOK(g) /\ DOMAIN g = DOMAIN h \cup {p}
    /\ \A x \in DOMAIN h : x # n /\ x # p => g[x] = h[x]
    /\ Prot(h, c, cow) => p \notin DOMAIN h
    /\ ~Prot(h, c, cow) => p = c

\* rotateRight puts the left child L, mutated, above n.
LEMMA RotateRightFacts ==
    ASSUME NEW h, HeapOK(h), NEW n \in DOMAIN h, NEW ver, NEW cow,
           Mutated(h, n, ver), h[n].value = NoValue,
           NEW L \in DOMAIN h, L = h[n].left, DOMAIN h[L] = Fields, h[L].value = NoValue,
           NEW R \in DOMAIN h, R = h[n].right,
           NEW LL \in DOMAIN h, LL = h[L].left, NEW LR \in DOMAIN h, LR = h[L].right,
           n # L, R \notin {n, L}, LL \notin {n, L}, LR \notin {n, L}
    PROVE  LET g == rotateRight(h, n, ver, cow).heap
               p == rotateRight(h, n, ver, cow).node
           IN /\ Rotates(h, n, L, cow, g, p)
              /\ BranchAt(g, n, LR, R, h[n].key, ver)
              /\ BranchAt(g, p, LL, n, h[L].key, ver)
<1>. DEFINE g == rotateRight(h, n, ver, cow).heap
            p == rotateRight(h, n, ver, cow).node
<1>. SUFFICES /\ Rotates(h, n, L, cow, g, p)
              /\ BranchAt(g, n, LR, R, h[n].key, ver)
              /\ BranchAt(g, p, LL, n, h[L].key, ver)
  OBVIOUS
<1>. DEFINE m  == Mutate(h, L, ver, cow)
            q  == m.node
            h0 == m.heap
            h1 == [h0 EXCEPT ![n].left = LR]
            h2 == [h1 EXCEPT ![q].right = n]
            h3 == updateHeightSize(h2, n)
            h4 == updateHeightSize(h3, q)
<1>1. g = h4 /\ p = q
  BY DEF rotateRight
<1>. HIDE DEF g, p
<1>2. /\ HeapOK(h0) /\ DOMAIN h0 = DOMAIN h \cup {q}
      /\ \A x \in DOMAIN h : x # q => h0[x] = h[x]
      /\ Prot(h, L, cow) => q \notin DOMAIN h
      /\ ~Prot(h, L, cow) => q = L
      /\ Mutated(h0, q, ver) /\ SameNode(h0[q], h[L])
  <2>1. Mutates(h, L, ver, cow, h0, q)
    BY MutateFacts
  <2>. HIDE DEF m, q, h0
  <2>. QED  BY <2>1 DEF Mutates
<1>3. q # n /\ q \notin {R, LL, LR}
  BY <1>2
<1>. HIDE DEF m, q, h0
<1>4. /\ DOMAIN h1 = DOMAIN h0 /\ \A x \in DOMAIN h0 : x # n => h1[x] = h0[x]
      /\ h1[n] = [h[n] EXCEPT !.left = LR]
  BY <1>2, <1>3
<1>. HIDE DEF h1
<1>5. /\ DOMAIN h2 = DOMAIN h0 /\ \A x \in DOMAIN h0 : x # n /\ x # q => h2[x] = h0[x]
      /\ h2[n] = [h[n] EXCEPT !.left = LR]
      /\ h2[q] = [h0[q] EXCEPT !.right = n]
  BY <1>2, <1>3, <1>4
<1>. HIDE DEF h2
<1>6. /\ DOMAIN h2[n] = Fields /\ h2[n].left = LR /\ h2[n].right = R /\ h2[n].key = h[n].key
      /\ h2[n].value = NoValue /\ Mutated(h2, n, ver)
  BY <1>2, <1>5 DEF Mutated, Fields
<1>7. /\ DOMAIN h2[q] = Fields /\ h2[q].left = LL /\ h2[q].right = n /\ h2[q].key = h[L].key
      /\ h2[q].value = NoValue /\ Mutated(h2, q, ver)
  BY <1>2, <1>5 DEF Mutated, SameNode, Fields
<1>8. /\ DOMAIN h3 = DOMAIN h2 /\ \A x \in DOMAIN h2 : x # n => h3[x] = h2[x]
      /\ SameBranch(h3[n], h2[n]) /\ Measured(h3, n)
  <2>1. n \in DOMAIN h2 /\ LR \in DOMAIN h2 /\ R \in DOMAIN h2 /\ LR # n /\ R # n
    BY <1>2, <1>5
  <2>. QED  BY <1>6, <2>1, UpdateFacts
<1>. HIDE DEF h3
<1>9. /\ DOMAIN h4 = DOMAIN h2 /\ \A x \in DOMAIN h2 : x # q => h4[x] = h3[x]
      /\ SameBranch(h4[q], h2[q]) /\ Measured(h4, q)
  <2>1. q \in DOMAIN h3 /\ LL \in DOMAIN h3 /\ n \in DOMAIN h3 /\ LL # q /\ n # q
    BY <1>2, <1>3, <1>5, <1>8
  <2>2. h3[q] = h2[q]
    BY <1>2, <1>3, <1>5, <1>8
  <2>3. /\ DOMAIN h4 = DOMAIN h3 /\ \A x \in DOMAIN h3 : x # q => h4[x] = h3[x]
        /\ SameBranch(h4[q], h3[q]) /\ Measured(h4, q)
    BY <1>7, <2>1, <2>2, UpdateFacts
  <2>. QED  BY <1>8, <2>2, <2>3
<1>. HIDE DEF h4
<1>10. BranchAt(h4, n, LR, R, h[n].key, ver)
  <2>1. h4[n] = h3[n] /\ h4[LR] = h3[LR] /\ h4[R] = h3[R]
    BY <1>2, <1>3, <1>5, <1>9
  <2>2. Measured(h4, n)
    BY <1>6, <1>8, <2>1 DEF Measured, TallerOf, SameBranch
  <2>3. n \in DOMAIN h4
    BY <1>2, <1>5, <1>9
  <2>. QED  BY <1>6, <1>8, <2>1, <2>2, <2>3 DEF BranchAt, Mutated, SameBranch
<1>11. BranchAt(h4, q, LL, n, h[L].key, ver)
  BY <1>2, <1>5, <1>7, <1>9 DEF BranchAt, Mutated, SameBranch
<1>12. DOMAIN h4 = DOMAIN h \cup {q} /\ HeapOK(h4)
  BY <1>2, <1>5, <1>9 DEF HeapOK
<1>13. \A x \in DOMAIN h : x # n /\ x # q => h4[x] = h[x]
  BY <1>2, <1>5, <1>8, <1>9
<1>. QED  BY <1>1, <1>2, <1>10, <1>11, <1>12, <1>13 DEF Rotates

\* rotateLeft puts the right child R, mutated, above n.
LEMMA RotateLeftFacts ==
    ASSUME NEW h, HeapOK(h), NEW n \in DOMAIN h, NEW ver, NEW cow,
           Mutated(h, n, ver), h[n].value = NoValue,
           NEW R \in DOMAIN h, R = h[n].right, DOMAIN h[R] = Fields, h[R].value = NoValue,
           NEW L \in DOMAIN h, L = h[n].left,
           NEW RR \in DOMAIN h, RR = h[R].right, NEW RL \in DOMAIN h, RL = h[R].left,
           n # R, L \notin {n, R}, RR \notin {n, R}, RL \notin {n, R}
    PROVE  LET g == rotateLeft(h, n, ver, cow).heap
               p == rotateLeft(h, n, ver, cow).node
           IN /\ Rotates(h, n, R, cow, g, p)
              /\ BranchAt(g, n, L, RL, h[n].key, ver)
              /\ BranchAt(g, p, n, RR, h[R].key, ver)
<1>. DEFINE g == rotateLeft(h, n, ver, cow).heap
            p == rotateLeft(h, n, ver, cow).node
<1>. SUFFICES /\ Rotates(h, n, R, cow, g, p)
              /\ BranchAt(g, n, L, RL, h[n].key, ver)
              /\ BranchAt(g, p, n, RR, h[R].key, ver)
  OBVIOUS
<1>. DEFINE m  == Mutate(h, R, ver, cow)
            q  == m.node
            h0 == m.heap
            h1 == [h0 EXCEPT ![n].right = RL]
            h2 == [h1 EXCEPT ![q].left = n]
            h3 == updateHeightSize(h2, n)
            h4 == updateHeightSize(h3, q)
<1>1. g = h4 /\ p = q
  BY DEF rotateLeft
<1>. HIDE DEF g, p
<1>2. /\ HeapOK(h0) /\ DOMAIN h0 = DOMAIN h \cup {q}
      /\ \A x \in DOMAIN h : x # q => h0[x] = h[x]
      /\ Prot(h, R, cow) => q \notin DOMAIN h
      /\ ~Prot(h, R, cow) => q = R
      /\ Mutated(h0, q, ver) /\ SameNode(h0[q], h[R])
  <2>1. Mutates(h, R, ver, cow, h0, q)
    BY MutateFacts
  <2>. HIDE DEF m, q, h0
  <2>. QED  BY <2>1 DEF Mutates
<1>3. q # n /\ q \notin {L, RR, RL}
  BY <1>2
<1>. HIDE DEF m, q, h0
<1>4. /\ DOMAIN h1 = DOMAIN h0 /\ \A x \in DOMAIN h0 : x # n => h1[x] = h0[x]
      /\ h1[n] = [h[n] EXCEPT !.right = RL]
  BY <1>2, <1>3
<1>. HIDE DEF h1
<1>5. /\ DOMAIN h2 = DOMAIN h0 /\ \A x \in DOMAIN h0 : x # n /\ x # q => h2[x] = h0[x]
      /\ h2[n] = [h[n] EXCEPT !.right = RL]
      /\ h2[q] = [h0[q] EXCEPT !.left = n]
  BY <1>2, <1>3, <1>4
<1>. HIDE DEF h2
<1>6. /\ DOMAIN h2[n] = Fields /\ h2[n].right = RL /\ h2[n].left = L /\ h2[n].key = h[n].key
      /\ h2[n].value = NoValue /\ Mutated(h2, n, ver)
  BY <1>2, <1>5 DEF Mutated, Fields
<1>7. /\ DOMAIN h2[q] = Fields /\ h2[q].right = RR /\ h2[q].left = n /\ h2[q].key = h[R].key
      /\ h2[q].value = NoValue /\ Mutated(h2, q, ver)
  BY <1>2, <1>5 DEF Mutated, SameNode, Fields
<1>8. /\ DOMAIN h3 = DOMAIN h2 /\ \A x \in DOMAIN h2 : x # n => h3[x] = h2[x]
      /\ SameBranch(h3[n], h2[n]) /\ Measured(h3, n)
  <2>1. n \in DOMAIN h2 /\ RL \in DOMAIN h2 /\ L \in DOMAIN h2 /\ RL # n /\ L # n
    BY <1>2, <1>5
  <2>. QED  BY <1>6, <2>1, UpdateFacts
<1>. HIDE DEF h3
<1>9. /\ DOMAIN h4 = DOMAIN h2 /\ \A x \in DOMAIN h2 : x # q => h4[x] = h3[x]
      /\ SameBranch(h4[q], h2[q]) /\ Measured(h4, q)
  <2>1. q \in DOMAIN h3 /\ RR \in DOMAIN h3 /\ n \in DOMAIN h3 /\ RR # q /\ n # q
    BY <1>2, <1>3, <1>5, <1>8
  <2>2. h3[q] = h2[q]
    BY <1>2, <1>3, <1>5, <1>8
  <2>3. /\ DOMAIN h4 = DOMAIN h3 /\ \A x \in DOMAIN h3 : x # q => h4[x] = h3[x]
        /\ SameBranch(h4[q], h3[q]) /\ Measured(h4, q)
    BY <1>7, <2>1, <2>2, UpdateFacts
  <2>. QED  BY <1>8, <2>2, <2>3
<1>. HIDE DEF h4
<1>10. BranchAt(h4, n, L, RL, h[n].key, ver)
  <2>1. h4[n] = h3[n] /\ h4[RL] = h3[RL] /\ h4[L] = h3[L]
    BY <1>2, <1>3, <1>5, <1>9
  <2>2. Measured(h4, n)
    BY <1>6, <1>8, <2>1 DEF Measured, TallerOf, SameBranch
  <2>3. n \in DOMAIN h4
    BY <1>2, <1>5, <1>9
  <2>. QED  BY <1>6, <1>8, <2>1, <2>2, <2>3 DEF BranchAt, Mutated, SameBranch
<1>11. BranchAt(h4, q, n, RR, h[R].key, ver)
  BY <1>2, <1>5, <1>7, <1>9 DEF BranchAt, Mutated, SameBranch
<1>12. DOMAIN h4 = DOMAIN h \cup {q} /\ HeapOK(h4)
  BY <1>2, <1>5, <1>9 DEF HeapOK
<1>13. \A x \in DOMAIN h : x # n /\ x # q => h4[x] = h[x]
  BY <1>2, <1>5, <1>8, <1>9
<1>. QED  BY <1>1, <1>2, <1>10, <1>11, <1>12, <1>13 DEF Rotates

-----------------------------------------------------------------------------
(***************************************************************************)
(* Rebalancing.                                                            *)
(***************************************************************************)
\* Heap g is h after an operation of the block ver that writes in place only
\* nodes of S that are not protected.
Grows(h, g, S, ver, cow) ==
    /\ HeapOK(g) /\ DOMAIN h \subseteq DOMAIN g
    /\ \A x \in DOMAIN h : x \notin S \/ Prot(h, x, cow) => g[x] = h[x]
    /\ \A x \in DOMAIN g : g[x].version = ver \/ (x \in DOMAIN h /\ g[x] = h[x])

\* The operation leaves a well-formed tree at p with the entries E, which takes
\* from the old heap only nodes of S.
Built(h, g, p, S, E, ver, cow) ==
    /\ Grows(h, g, S, ver, cow)
    /\ WF(g, p) /\ Under(g, p) \cap DOMAIN h \subseteq S /\ Ent(g, p) = E

LEMMA GrowsTwice ==
    ASSUME NEW h, NEW g, NEW k, NEW S, NEW T, NEW ver, NEW cow,
           Grows(h, g, S, ver, cow), Grows(g, k, T, ver, cow), T \cap DOMAIN h \subseteq S
    PROVE  Grows(h, k, S, ver, cow)
  BY DEF Grows, Prot

LEMMA KeysOfEnt ==
    ASSUME NEW h, NEW n
    PROVE  Keys(h, n) = {e[1] : e \in Ent(h, n)}
<1>1. ASSUME NEW i \in Keys(h, n) PROVE \E e \in Ent(h, n) : i = e[1]
  <2>1. PICK m \in LeavesUnder(h, n) : i = h[m].key
    BY DEF Keys
  <2>2. <<h[m].key, h[m].value>> \in Ent(h, n)
    BY DEF Ent
  <2>. QED  BY <2>1, <2>2
<1>2. ASSUME NEW e \in Ent(h, n) PROVE e[1] \in Keys(h, n)
  BY DEF Keys, Ent
<1>. QED  BY <1>1, <1>2

\* The tree at a is the same in both heaps.
Kept(h, g, a) ==
    /\ WF(g, a) /\ Under(g, a) = Under(h, a)
    /\ Ent(g, a) = Ent(h, a) /\ Keys(g, a) = Keys(h, a)
    /\ g[a] = h[a] /\ NodeType(g, a)

LEMMA KeptOutside ==
    ASSUME NEW h, NEW g, HeapOK(h), HeapOK(g), NEW n, WF(h, n),
           \A x \in Under(h, n) : x \in DOMAIN g /\ g[x] = h[x]
    PROVE  Kept(h, g, n)
<1>1. n \in Under(h, n)
  BY UnderRoot DEF WF
<1>2. NodeType(h, n)
  BY <1>1 DEF WF, NodeOK
<1>. QED  BY <1>1, <1>2, NodeFrame DEF Kept, NodeType

\* The trees at a and b under the branch n, which may be out of balance.
Pair(h, n, a, b, key, ver) ==
    /\ WF(h, a) /\ WF(h, b) /\ BranchAt(h, n, a, b, key, ver)
    /\ Disjoint(h, a, b) /\ n \notin Under(h, a) /\ n \notin Under(h, b)
    /\ Sorted(h, a, b, key)

PairNodes(h, n, a, b) == {n} \cup Under(h, a) \cup Under(h, b)

\* What reBalance promises of its result [heap, node].
Balanced(h, n, a, b, ver, cow, g, p) ==
    /\ Built(h, g, p, PairNodes(h, n, a, b), Ent(h, a) \cup Ent(h, b), ver, cow)
    /\ g[p].height \in {TallerOf(h, a, b), TallerOf(h, a, b) + 1}
    /\ calcBalance(h, n) \in -1 .. 1 => g[p].height = TallerOf(h, a, b) + 1

PairParts(h, n, a, b, key, ver) ==
    /\ n \in DOMAIN h /\ a \in DOMAIN h /\ b \in DOMAIN h
    /\ a \in Under(h, a) /\ b \in Under(h, b) /\ n # a /\ n # b /\ a # b
    /\ h[n].left = a /\ h[n].right = b /\ h[n].key = key
    /\ h[a].height \in Nat /\ h[b].height \in Nat /\ key \in Nat
    /\ NodeType(h, a) /\ NodeType(h, b)
    /\ Mutated(h, n, ver) /\ h[n].value = NoValue
    /\ calcBalance(h, n) = h[a].height - h[b].height

LEMMA PairFacts ==
    ASSUME NEW h, HeapOK(h), NEW n, NEW a, NEW b, NEW key \in Key, NEW ver,
           Pair(h, n, a, b, key, ver)
    PROVE  PairParts(h, n, a, b, key, ver)
<1>1. a \in DOMAIN h /\ b \in DOMAIN h
  BY DEF Pair, WF
<1>2. a \in Under(h, a) /\ b \in Under(h, b)
  BY <1>1, UnderRoot
<1>3. NodeType(h, a) /\ NodeType(h, b)
  BY <1>2 DEF Pair, WF, NodeOK
<1>. QED  BY <1>1, <1>2, <1>3, KeysAreNumbers
          DEF Pair, PairParts, Disjoint, BranchAt, Mutated, NodeType, calcBalance

LEMMA NotUnbalanced ==
    ASSUME NEW h, HeapOK(h), NEW n, NEW a, NEW b, NEW key \in Key,
           NEW ver \in Nat, NEW cow \in Nat,
           Pair(h, n, a, b, key, ver), calcBalance(h, n) \in -1 .. 1
    PROVE  Balanced(h, n, a, b, ver, cow, h, n)
<1>1. /\ WF(h, n) /\ h[n].height = TallerOf(h, a, b) + 1
      /\ Under(h, n) = PairNodes(h, n, a, b)
      /\ Ent(h, n) = Ent(h, a) \cup Ent(h, b)
  BY Join DEF Pair, PairNodes
<1>2. Grows(h, h, PairNodes(h, n, a, b), ver, cow)
  BY DEF Grows
<1>. QED  BY <1>1, <1>2 DEF Balanced, Built

\* A right rotation, when the left child of the left child is the tallest.
LEMMA SingleRight ==
    ASSUME NEW h, HeapOK(h), NEW n, NEW a, NEW b, NEW key \in Key,
           NEW ver \in Nat, NEW cow \in Nat, cow < ver, Pair(h, n, a, b, key, ver),
           h[a].height = h[b].height + 2, calcBalance(h, a) >= 0
    PROVE  Balanced(h, n, a, b, ver, cow, rotateRight(h, n, ver, cow).heap,
                    rotateRight(h, n, ver, cow).node)
<1>. DEFINE g  == rotateRight(h, n, ver, cow).heap
            p  == rotateRight(h, n, ver, cow).node
            aa == h[a].left
            ab == h[a].right
            kb == h[a].key
<1>0. SUFFICES Balanced(h, n, a, b, ver, cow, g, p)
  OBVIOUS
<1>1. /\ n \in DOMAIN h /\ a \in DOMAIN h /\ b \in DOMAIN h
      /\ a \in Under(h, a) /\ b \in Under(h, b) /\ n # a /\ n # b /\ a # b
      /\ h[n].left = a /\ h[n].right = b /\ h[n].key = key
      /\ h[a].height \in Nat /\ h[b].height \in Nat /\ key \in Nat
      /\ NodeType(h, a) /\ NodeType(h, b)
      /\ Mutated(h, n, ver) /\ h[n].value = NoValue
      /\ calcBalance(h, n) = h[a].height - h[b].height
  <2>1. PairParts(h, n, a, b, key, ver)
    BY PairFacts
  <2>. QED  BY <2>1 DEF PairParts
<1>2. /\ WF(h, aa) /\ WF(h, ab) /\ BranchOK(h, a)
      /\ NodeType(h, aa) /\ NodeType(h, ab)
      /\ Under(h, a) = {a} \cup Under(h, aa) \cup Under(h, ab)
      /\ a \notin Under(h, aa) /\ a \notin Under(h, ab)
      /\ aa \in Under(h, aa) /\ ab \in Under(h, ab)
      /\ aa \in DOMAIN h /\ ab \in DOMAIN h /\ a # aa /\ a # ab
      /\ Ent(h, a) = Ent(h, aa) \cup Ent(h, ab)
      /\ Keys(h, a) = Keys(h, aa) \cup Keys(h, ab)
  BY <1>1, WFBranch DEF Pair
<1>3. n # aa /\ n # ab /\ b # aa /\ b # ab /\ b # a
  BY <1>1, <1>2 DEF Pair, Disjoint
<1>4. DOMAIN h[a] = Fields /\ h[a].value = NoValue /\ kb \in Key /\ kb \in Nat
  BY <1>1, <1>2, KeysAreNumbers DEF NodeType, BranchOK
<1>5. /\ Rotates(h, n, a, cow, g, p)
      /\ BranchAt(g, n, ab, b, key, ver)
      /\ BranchAt(g, p, aa, n, kb, ver)
  <2>. HIDE DEF aa, ab, kb
  <2>1. aa = h[a].left /\ ab = h[a].right /\ kb = h[a].key
    BY DEF aa, ab, kb
  <2>. QED  BY <1>1, <1>2, <1>3, <1>4, <2>1, RotateRightFacts
<1>. HIDE DEF g, p
<1>6. /\ HeapOK(g) /\ DOMAIN g = DOMAIN h \cup {p}
      /\ \A x \in DOMAIN h : x # n /\ x # p => g[x] = h[x]
      /\ p = a \/ (p \notin DOMAIN h /\ Prot(h, a, cow))
      /\ p = a => ~Prot(h, a, cow)
  BY <1>1, <1>5 DEF Rotates
<1>7. Kept(h, g, aa) /\ Kept(h, g, ab) /\ Kept(h, g, b)
  <2>1. ASSUME NEW t \in {aa, ab, b}, NEW x \in Under(h, t)
        PROVE  x \in DOMAIN g /\ g[x] = h[x]
    <3>1. x \in DOMAIN h
      BY DEF Under
    <3>2. x # n /\ x # a
      BY <1>1, <1>2 DEF Pair, Disjoint
    <3>. QED  BY <1>6, <3>1, <3>2
  <2>. QED  BY <1>2, <1>6, <2>1, KeptOutside DEF Pair
<1>8. p # n /\ p \notin Under(h, aa) /\ p \notin Under(h, ab) /\ p \notin Under(h, b)
  <2>1. Under(h, aa) \subseteq DOMAIN h /\ Under(h, ab) \subseteq DOMAIN h
        /\ Under(h, b) \subseteq DOMAIN h
    BY DEF Under
  <2>. QED  BY <1>1, <1>2, <1>6, <2>1 DEF Pair, Disjoint
<1>. DEFINE hb == h[b].height
<1>9. /\ h[aa].height = hb + 1 /\ h[ab].height \in {hb, hb + 1} /\ hb \in Nat
      /\ h[aa].height \in Nat /\ h[ab].height \in Nat
  BY <1>1, <1>2 DEF BranchOK, Measured, TallerOf, calcBalance, NodeType
<1>10. /\ WF(g, n) /\ g[n].height = TallerOf(g, ab, b) + 1
       /\ Under(g, n) = {n} \cup Under(g, ab) \cup Under(g, b)
       /\ Ent(g, n) = Ent(g, ab) \cup Ent(g, b)
       /\ Keys(g, n) = Keys(g, ab) \cup Keys(g, b)
  <2>1. Disjoint(g, ab, b) /\ n \notin Under(g, ab) /\ n \notin Under(g, b)
    BY <1>2, <1>7 DEF Pair, Disjoint, Kept
  <2>2. Sorted(g, ab, b, key)
    BY <1>2, <1>7 DEF Pair, Sorted, Kept
  <2>3. calcBalance(g, n) \in -1 .. 1
    BY <1>5, <1>7, <1>9 DEF calcBalance, BranchAt, Kept
  <2>. QED  BY <1>5, <1>6, <1>7, <2>1, <2>2, <2>3, Join DEF Kept
<1>11. g[n].height \in {hb + 1, hb + 2}
  BY <1>7, <1>9, <1>10 DEF TallerOf, Kept
<1>12. /\ WF(g, p) /\ g[p].height = TallerOf(g, aa, n) + 1
       /\ Under(g, p) = {p} \cup Under(g, aa) \cup Under(g, n)
       /\ Ent(g, p) = Ent(g, aa) \cup Ent(g, n)
  <2>1. Disjoint(g, aa, n) /\ p \notin Under(g, aa) /\ p \notin Under(g, n)
    BY <1>1, <1>2, <1>7, <1>8, <1>10 DEF Pair, Disjoint, Kept, BranchOK
  <2>2. Sorted(g, aa, n, kb)
    <3>1. kb \in Keys(h, ab) /\ \A i \in Keys(h, aa) : i < kb
      BY <1>2 DEF BranchOK, Sorted
    <3>2. \A i \in Keys(h, ab) : kb =< i
      BY <1>2 DEF BranchOK, Sorted
    <3>3. ASSUME NEW i \in Keys(h, b) PROVE kb =< i
      <4>1. key =< i /\ kb < key
        BY <1>2, <3>1 DEF Pair, Sorted
      <4>2. i \in Key
        <5>1. PICK m \in Under(h, b) : i = h[m].key
          BY DEF Keys, LeavesUnder
        <5>. QED  BY <5>1 DEF Pair, WF, NodeOK, NodeType
      <4>. QED  BY <1>1, <1>4, <4>1, <4>2, KeysAreNumbers
    <3>. QED  BY <1>7, <1>10, <3>1, <3>2, <3>3 DEF Sorted, Kept
  <2>3. calcBalance(g, p) \in -1 .. 1
    <3>1. g[n].height = h[ab].height + 1
      BY <1>7, <1>9, <1>10 DEF TallerOf, Kept
    <3>2. calcBalance(g, p) = h[aa].height - g[n].height
      BY <1>5, <1>7 DEF calcBalance, BranchAt, Kept
    <3>. QED  BY <1>9, <3>1, <3>2
  <2>. QED  BY <1>4, <1>5, <1>6, <1>7, <1>10, <2>1, <2>2, <2>3, Join DEF Kept
<1>13. Grows(h, g, PairNodes(h, n, a, b), ver, cow)
  <2>1. ~Prot(h, n, cow)
    BY DEF Prot, Pair, BranchAt
  <2>2. n \in PairNodes(h, n, a, b) /\ a \in PairNodes(h, n, a, b)
    BY <1>1 DEF PairNodes
  <2>3. g[n].version = ver /\ g[p].version = ver
    BY <1>5 DEF BranchAt
  <2>. QED  BY <1>6, <2>1, <2>2, <2>3 DEF Grows
<1>14. Under(g, p) \cap DOMAIN h \subseteq PairNodes(h, n, a, b)
  BY <1>2, <1>6, <1>7, <1>10, <1>12 DEF PairNodes, Kept
<1>15. Ent(g, p) = Ent(h, a) \cup Ent(h, b)
  BY <1>2, <1>7, <1>10, <1>12 DEF Kept
<1>16. TallerOf(h, a, b) = hb + 2 /\ g[p].height \in {hb + 2, hb + 3}
  BY <1>1, <1>7, <1>9, <1>11, <1>12 DEF TallerOf, Kept
<1>17. calcBalance(h, n) = 2
  BY <1>1
<1>. QED  BY <1>9, <1>12, <1>13, <1>14, <1>15, <1>16, <1>17 DEF Balanced, Built

\* The keys of a tree.
LEMMA KeysTyped ==
    ASSUME NEW h, HeapOK(h), NEW n, WF(h, n)
    PROVE  Keys(h, n) \subseteq Key /\ Keys(h, n) \subseteq Nat /\ Keys(h, n) # {}
<1>1. Keys(h, n) \subseteq Key
  BY DEF Keys, LeavesUnder, WF, NodeOK, NodeType
<1>2. n \in Under(h, n) /\ NodeOK(h, n)
  BY UnderRoot DEF WF
<1>3. Keys(h, n) # {}
  <2>1. CASE h[n].height = 0
    BY <1>2, <2>1 DEF Keys, LeavesUnder, IsLeaf
  <2>2. CASE h[n].height # 0
    <3>1. BranchOK(h, n) /\ Keys(h, n) = Keys(h, h[n].left) \cup Keys(h, h[n].right)
      BY <2>2, WFBranch
    <3>. QED  BY <3>1 DEF BranchOK, Sorted
  <2>. QED  BY <2>1, <2>2
<1>. QED  BY <1>1, <1>3, KeysAreNumbers

\* The smallest key of a branch is in its left child.
LEMMA SmallestLeft ==
    ASSUME NEW h, HeapOK(h), NEW n, WF(h, n), h[n].height # 0,
           NEW key \in Keys(h, n), \A i \in Keys(h, n) : key =< i
    PROVE  key \in Keys(h, h[n].left) /\ key < h[n].key
<1>. DEFINE l == h[n].left
            r == h[n].right
<1>1. /\ WF(h, l) /\ WF(h, r) /\ BranchOK(h, n) /\ NodeType(h, n)
      /\ Keys(h, n) = Keys(h, l) \cup Keys(h, r)
  BY WFBranch
<1>2. /\ Keys(h, l) \subseteq Nat /\ Keys(h, l) # {} /\ Keys(h, r) \subseteq Nat
      /\ h[n].key \in Nat /\ key \in Nat
  BY <1>1, KeysTyped, KeysAreNumbers DEF NodeType
<1>3. /\ \A i \in Keys(h, l) : i < h[n].key
      /\ \A i \in Keys(h, r) : h[n].key =< i
  BY <1>1 DEF BranchOK, Sorted
<1>4. PICK i \in Keys(h, l) : i \in Nat /\ key =< i /\ i < h[n].key
  BY <1>1, <1>2, <1>3
<1>5. key < h[n].key
  BY <1>2, <1>4
<1>6. key \notin Keys(h, r)
  BY <1>2, <1>3, <1>5
<1>. QED  BY <1>1, <1>5, <1>6

\* A left rotation, when the right child of the right child is the tallest.
LEMMA SingleLeft ==
    ASSUME NEW h, HeapOK(h), NEW n, NEW a, NEW b, NEW key \in Key,
           NEW ver \in Nat, NEW cow \in Nat, cow < ver, Pair(h, n, a, b, key, ver),
           h[b].height = h[a].height + 2, calcBalance(h, b) =< 0
    PROVE  Balanced(h, n, a, b, ver, cow, rotateLeft(h, n, ver, cow).heap,
                    rotateLeft(h, n, ver, cow).node)
<1>. DEFINE g  == rotateLeft(h, n, ver, cow).heap
            p  == rotateLeft(h, n, ver, cow).node
            ba == h[b].left
            bb == h[b].right
            kb == h[b].key
<1>0. SUFFICES Balanced(h, n, a, b, ver, cow, g, p)
  OBVIOUS
<1>1. /\ n \in DOMAIN h /\ a \in DOMAIN h /\ b \in DOMAIN h
      /\ a \in Under(h, a) /\ b \in Under(h, b) /\ n # a /\ n # b /\ a # b
      /\ h[n].left = a /\ h[n].right = b /\ h[n].key = key
      /\ h[a].height \in Nat /\ h[b].height \in Nat /\ key \in Nat
      /\ NodeType(h, a) /\ NodeType(h, b)
      /\ Mutated(h, n, ver) /\ h[n].value = NoValue
      /\ calcBalance(h, n) = h[a].height - h[b].height
  <2>1. PairParts(h, n, a, b, key, ver)
    BY PairFacts
  <2>. QED  BY <2>1 DEF PairParts
<1>2. /\ WF(h, ba) /\ WF(h, bb) /\ BranchOK(h, b)
      /\ NodeType(h, ba) /\ NodeType(h, bb)
      /\ Under(h, b) = {b} \cup Under(h, ba) \cup Under(h, bb)
      /\ b \notin Under(h, ba) /\ b \notin Under(h, bb)
      /\ ba \in Under(h, ba) /\ bb \in Under(h, bb)
      /\ ba \in DOMAIN h /\ bb \in DOMAIN h /\ b # ba /\ b # bb
      /\ Ent(h, b) = Ent(h, ba) \cup Ent(h, bb)
      /\ Keys(h, b) = Keys(h, ba) \cup Keys(h, bb)
  BY <1>1, WFBranch DEF Pair
<1>3. n # ba /\ n # bb /\ a # ba /\ a # bb /\ b # a
  BY <1>1, <1>2 DEF Pair, Disjoint
<1>4. DOMAIN h[b] = Fields /\ h[b].value = NoValue /\ kb \in Key /\ kb \in Nat
  BY <1>1, <1>2, KeysAreNumbers DEF NodeType, BranchOK
<1>5. /\ Rotates(h, n, b, cow, g, p)
      /\ BranchAt(g, n, a, ba, key, ver)
      /\ BranchAt(g, p, n, bb, kb, ver)
  <2>. HIDE DEF ba, bb, kb
  <2>1. ba = h[b].left /\ bb = h[b].right /\ kb = h[b].key
    BY DEF ba, bb, kb
  <2>. QED  BY <1>1, <1>2, <1>3, <1>4, <2>1, RotateLeftFacts
<1>. HIDE DEF g, p
<1>6. /\ HeapOK(g) /\ DOMAIN g = DOMAIN h \cup {p}
      /\ \A x \in DOMAIN h : x # n /\ x # p => g[x] = h[x]
      /\ p = b \/ (p \notin DOMAIN h /\ Prot(h, b, cow))
      /\ p = b => ~Prot(h, b, cow)
  BY <1>1, <1>5 DEF Rotates
<1>7. Kept(h, g, ba) /\ Kept(h, g, bb) /\ Kept(h, g, a)
  <2>1. ASSUME NEW t \in {ba, bb, a}, NEW x \in Under(h, t)
        PROVE  x \in DOMAIN g /\ g[x] = h[x]
    <3>1. x \in DOMAIN h
      BY DEF Under
    <3>2. x # n /\ x # b
      BY <1>1, <1>2 DEF Pair, Disjoint
    <3>. QED  BY <1>6, <3>1, <3>2
  <2>. QED  BY <1>2, <1>6, <2>1, KeptOutside DEF Pair
<1>8. p # n /\ p \notin Under(h, ba) /\ p \notin Under(h, bb) /\ p \notin Under(h, a)
  <2>1. Under(h, ba) \subseteq DOMAIN h /\ Under(h, bb) \subseteq DOMAIN h
        /\ Under(h, a) \subseteq DOMAIN h
    BY DEF Under
  <2>. QED  BY <1>1, <1>2, <1>6, <2>1 DEF Pair, Disjoint
<1>. DEFINE ha == h[a].height
<1>9. /\ h[bb].height = ha + 1 /\ h[ba].height \in {ha, ha + 1} /\ ha \in Nat
      /\ h[bb].height \in Nat /\ h[ba].height \in Nat
  <2>1. h[bb].height \in Nat /\ h[ba].height \in Nat /\ ha \in Nat
    BY <1>1, <1>2 DEF NodeType
  <2>2. h[b].height = TallerOf(h, ba, bb) + 1 /\ h[ba].height - h[bb].height \in -1 .. 0
    BY <1>2, <2>1 DEF BranchOK, Measured, calcBalance
  <2>. QED  BY <2>1, <2>2 DEF TallerOf
<1>s. key \in Keys(h, ba) /\ key < kb
  <2>1. WF(h, b) /\ h[b].height # 0 /\ key \in Keys(h, b)
        /\ \A i \in Keys(h, b) : key =< i
    BY <1>1 DEF Pair, Sorted
  <2>. QED  BY <2>1, SmallestLeft
<1>10. /\ WF(g, n) /\ g[n].height = TallerOf(g, a, ba) + 1
       /\ Under(g, n) = {n} \cup Under(g, a) \cup Under(g, ba)
       /\ Ent(g, n) = Ent(g, a) \cup Ent(g, ba)
       /\ Keys(g, n) = Keys(g, a) \cup Keys(g, ba)
  <2>1. Disjoint(g, a, ba) /\ n \notin Under(g, ba) /\ n \notin Under(g, a)
    BY <1>2, <1>7 DEF Pair, Disjoint, Kept
  <2>2. Sorted(g, a, ba, key)
    BY <1>2, <1>s, <1>7 DEF Pair, Sorted, Kept
  <2>3. calcBalance(g, n) \in -1 .. 1
    BY <1>5, <1>7, <1>9 DEF calcBalance, BranchAt, Kept
  <2>. QED  BY <1>5, <1>6, <1>7, <2>1, <2>2, <2>3, Join DEF Kept
<1>11. g[n].height \in {ha + 1, ha + 2}
  BY <1>7, <1>9, <1>10 DEF TallerOf, Kept
<1>12. /\ WF(g, p) /\ g[p].height = TallerOf(g, n, bb) + 1
       /\ Under(g, p) = {p} \cup Under(g, n) \cup Under(g, bb)
       /\ Ent(g, p) = Ent(g, n) \cup Ent(g, bb)
  <2>1. Disjoint(g, n, bb) /\ p \notin Under(g, bb) /\ p \notin Under(g, n)
    BY <1>1, <1>2, <1>7, <1>8, <1>10 DEF Pair, Disjoint, Kept, BranchOK
  <2>2. Sorted(g, n, bb, kb)
    <3>1. /\ kb \in Keys(h, bb) /\ \A i \in Keys(h, bb) : kb =< i
          /\ \A i \in Keys(h, ba) : i < kb
      BY <1>2 DEF BranchOK, Sorted
    <3>2. ASSUME NEW i \in Keys(h, a) PROVE i < kb
      <4>1. i < key /\ i \in Nat
        BY KeysTyped DEF Pair, Sorted
      <4>. QED  BY <1>1, <1>4, <1>s, <4>1
    <3>. QED  BY <1>7, <1>10, <3>1, <3>2 DEF Sorted, Kept
  <2>3. calcBalance(g, p) \in -1 .. 1
    <3>1. g[n].height = h[ba].height + 1
      BY <1>7, <1>9, <1>10 DEF TallerOf, Kept
    <3>2. calcBalance(g, p) = g[n].height - h[bb].height
      BY <1>5, <1>7 DEF calcBalance, BranchAt, Kept
    <3>. QED  BY <1>9, <3>1, <3>2
  <2>. QED  BY <1>4, <1>5, <1>6, <1>7, <1>10, <2>1, <2>2, <2>3, Join DEF Kept
<1>13. Grows(h, g, PairNodes(h, n, a, b), ver, cow)
  <2>1. ~Prot(h, n, cow)
    BY DEF Prot, Pair, BranchAt
  <2>2. n \in PairNodes(h, n, a, b) /\ b \in PairNodes(h, n, a, b)
    BY <1>1 DEF PairNodes
  <2>3. g[n].version = ver /\ g[p].version = ver
    BY <1>5 DEF BranchAt
  <2>. QED  BY <1>6, <2>1, <2>2, <2>3 DEF Grows
<1>14. Under(g, p) \cap DOMAIN h \subseteq PairNodes(h, n, a, b)
  BY <1>2, <1>6, <1>7, <1>10, <1>12 DEF PairNodes, Kept
<1>15. Ent(g, p) = Ent(h, a) \cup Ent(h, b)
  BY <1>2, <1>7, <1>10, <1>12 DEF Kept
<1>16. TallerOf(h, a, b) = ha + 2 /\ g[p].height \in {ha + 2, ha + 3}
  BY <1>1, <1>7, <1>9, <1>11, <1>12 DEF TallerOf, Kept
<1>17. calcBalance(h, n) = -2
  BY <1>1
<1>. QED  BY <1>9, <1>12, <1>13, <1>14, <1>15, <1>16, <1>17 DEF Balanced, Built

\* Four trees under three branches, as both double rotations leave them.
Four(g, p, x, y, a, b, c, d, i, j, k, ver, top) ==
    /\ WF(g, a) /\ WF(g, b) /\ WF(g, c) /\ WF(g, d)
    /\ Disjoint(g, a, b) /\ Disjoint(g, a, c) /\ Disjoint(g, a, d)
    /\ Disjoint(g, b, c) /\ Disjoint(g, b, d) /\ Disjoint(g, c, d)
    /\ {p, x, y} \cap (Under(g, a) \cup Under(g, b) \cup Under(g, c) \cup Under(g, d)) = {}
    /\ p # x /\ p # y /\ x # y
    /\ BranchAt(g, x, a, b, i, ver) /\ BranchAt(g, y, c, d, k, ver) /\ BranchAt(g, p, x, y, j, ver)
    /\ Sorted(g, a, b, i) /\ Sorted(g, c, d, k)
    /\ \A e \in Keys(g, a) \cup Keys(g, b) : e < j
    /\ \A e \in Keys(g, c) \cup Keys(g, d) : j =< e
    /\ j \in Keys(g, c) \cup Keys(g, d)
    /\ calcBalance(g, x) \in -1 .. 1 /\ calcBalance(g, y) \in -1 .. 1
    /\ TallerOf(g, a, b) = top /\ TallerOf(g, c, d) = top

FourJoined(g, p, x, y, a, b, c, d, top) ==
    /\ WF(g, p) /\ g[p].height = top + 2
    /\ Under(g, p) = {p, x, y} \cup Under(g, a) \cup Under(g, b) \cup Under(g, c) \cup Under(g, d)
    /\ Ent(g, p) = Ent(g, a) \cup Ent(g, b) \cup Ent(g, c) \cup Ent(g, d)

LEMMA JoinFour ==
    ASSUME NEW g, HeapOK(g), NEW p, NEW x, NEW y, NEW a, NEW b, NEW c, NEW d,
           NEW i \in Key, NEW j \in Key, NEW k \in Key, NEW ver \in Nat, NEW top \in Nat,
           Four(g, p, x, y, a, b, c, d, i, j, k, ver, top)
    PROVE  FourJoined(g, p, x, y, a, b, c, d, top)
<1>1. /\ WF(g, x) /\ g[x].height = top + 1
      /\ Under(g, x) = {x} \cup Under(g, a) \cup Under(g, b)
      /\ Ent(g, x) = Ent(g, a) \cup Ent(g, b)
      /\ Keys(g, x) = Keys(g, a) \cup Keys(g, b)
  <2>1. x \notin Under(g, a) /\ x \notin Under(g, b)
    BY DEF Four
  <2>. QED  BY <2>1, Join DEF Four
<1>2. /\ WF(g, y) /\ g[y].height = top + 1
      /\ Under(g, y) = {y} \cup Under(g, c) \cup Under(g, d)
      /\ Ent(g, y) = Ent(g, c) \cup Ent(g, d)
      /\ Keys(g, y) = Keys(g, c) \cup Keys(g, d)
  <2>1. y \notin Under(g, c) /\ y \notin Under(g, d)
    BY DEF Four
  <2>. QED  BY <2>1, Join DEF Four
<1>3. Disjoint(g, x, y) /\ p \notin Under(g, x) /\ p \notin Under(g, y)
  BY <1>1, <1>2 DEF Disjoint, Four
<1>4. Sorted(g, x, y, j)
  BY <1>1, <1>2 DEF Sorted, Four
<1>5. calcBalance(g, p) \in -1 .. 1 /\ TallerOf(g, x, y) = top + 1
  BY <1>1, <1>2 DEF calcBalance, BranchAt, TallerOf, Four
<1>6. /\ WF(g, p) /\ g[p].height = top + 2
      /\ Under(g, p) = {p} \cup Under(g, x) \cup Under(g, y)
      /\ Ent(g, p) = Ent(g, x) \cup Ent(g, y)
  <2>1. /\ WF(g, p) /\ g[p].height = TallerOf(g, x, y) + 1
        /\ Under(g, p) = {p} \cup Under(g, x) \cup Under(g, y)
        /\ Ent(g, p) = Ent(g, x) \cup Ent(g, y)
    BY <1>1, <1>2, <1>3, <1>4, <1>5, Join DEF Four
  <2>. QED  BY <1>5, <2>1
<1>. QED  BY <1>1, <1>2, <1>6 DEF FourJoined

\* Heap g is h after a double rotation at n; x and p are the child c of n and
\* the child d of c, mutated.
Doubles(h, n, c, d, cow, g, x, p) ==
    /\ HeapOK(g) /\ DOMAIN g = DOMAIN h \cup {x, p}
    /\ \A y \in DOMAIN h : y \notin {n, x, p} => g[y] = h[y]
    /\ x \in DOMAIN h => x = c /\ ~Prot(h, c, cow)
    /\ p \in DOMAIN h => p = d /\ ~Prot(h, d, cow)
    /\ x # p /\ x # n /\ p # n

\* The left child a is mutated and rotated left, then n is rotated right.
LEMMA DoubleRightFacts ==
    ASSUME NEW h, HeapOK(h), NEW n \in DOMAIN h, NEW ver \in Nat, NEW cow \in Nat, cow < ver,
           Mutated(h, n, ver), h[n].value = NoValue,
           NEW a \in DOMAIN h, a = h[n].left, DOMAIN h[a] = Fields, h[a].value = NoValue,
           NEW b \in DOMAIN h, b = h[n].right,
           NEW aa \in DOMAIN h, aa = h[a].left,
           NEW ab \in DOMAIN h, ab = h[a].right, DOMAIN h[ab] = Fields, h[ab].value = NoValue,
           NEW aba \in DOMAIN h, aba = h[ab].left, NEW abb \in DOMAIN h, abb = h[ab].right,
           n \notin {a, b, aa, ab, aba, abb}, a \notin {b, aa, ab, aba, abb},
           ab \notin {b, aa, aba, abb},
           NEW m, m = Mutate(h, a, ver, cow),
           NEW r, r = rotateLeft(m.heap, m.node, ver, cow),
           NEW s, s = rotateRight([r.heap EXCEPT ![n].left = r.node], n, ver, cow)
    PROVE  /\ Doubles(h, n, a, ab, cow, s.heap, m.node, s.node)
           /\ BranchAt(s.heap, m.node, aa, aba, h[a].key, ver)
           /\ BranchAt(s.heap, n, abb, b, h[n].key, ver)
           /\ BranchAt(s.heap, s.node, m.node, n, h[ab].key, ver)
<1>. DEFINE h1 == m.heap
            x  == m.node
            h2 == r.heap
            q  == r.node
            h3 == [h2 EXCEPT ![n].left = q]
            g  == s.heap
            p  == s.node
<1>1. Mutates(h, a, ver, cow, h1, x)
  BY MutateFacts
<1>2. /\ HeapOK(h1) /\ DOMAIN h1 = DOMAIN h \cup {x}
      /\ \A y \in DOMAIN h : y # x => h1[y] = h[y]
      /\ x \in DOMAIN h => x = a /\ ~Prot(h, a, cow)
      /\ x \notin {n, b, aa, ab, aba, abb}
      /\ Mutated(h1, x, ver) /\ h1[x].left = aa /\ h1[x].right = ab
      /\ h1[x].key = h[a].key /\ h1[x].value = NoValue
  <2>. HIDE DEF h1, x
  <2>. QED  BY <1>1 DEF Mutates, SameNode
<1>. HIDE DEF h1, x
<1>3. h1[ab] = h[ab] /\ h1[n] = h[n] /\ {n, b, aa, ab, aba, abb, x} \subseteq DOMAIN h1
  BY <1>2
<1>4. /\ Rotates(h1, x, ab, cow, h2, q)
      /\ BranchAt(h2, x, aa, aba, h[a].key, ver)
      /\ BranchAt(h2, q, x, abb, h[ab].key, ver)
  <2>1. h2 = rotateLeft(h1, x, ver, cow).heap /\ q = rotateLeft(h1, x, ver, cow).node
    BY DEF h1, x
  <2>2. x \in DOMAIN h1 /\ aa \in DOMAIN h1 /\ ab \in DOMAIN h1 /\ aba \in DOMAIN h1
        /\ abb \in DOMAIN h1
    BY <1>3
  <2>3. x # ab /\ aa \notin {x, ab} /\ aba \notin {x, ab} /\ abb \notin {x, ab}
    BY <1>2
  <2>4. aba = h1[ab].left /\ abb = h1[ab].right /\ DOMAIN h1[ab] = Fields
        /\ h1[ab].value = NoValue /\ h1[ab].key = h[ab].key
        /\ aa = h1[x].left /\ ab = h1[x].right
    BY <1>2, <1>3
  <2>. HIDE DEF h2, q
  <2>5. LET gg == rotateLeft(h1, x, ver, cow).heap
            pp == rotateLeft(h1, x, ver, cow).node
        IN /\ Rotates(h1, x, ab, cow, gg, pp)
           /\ BranchAt(gg, x, aa, aba, h1[x].key, ver)
           /\ BranchAt(gg, pp, x, abb, h1[ab].key, ver)
    BY <1>2, <2>2, <2>3, <2>4, RotateLeftFacts
  <2>. QED  BY <1>2, <2>1, <2>4, <2>5
<1>. HIDE DEF h2, q
<1>5. /\ HeapOK(h2) /\ DOMAIN h2 = DOMAIN h1 \cup {q}
      /\ \A y \in DOMAIN h1 : y # x /\ y # q => h2[y] = h1[y]
      /\ q \in DOMAIN h1 => q = ab /\ ~Prot(h1, ab, cow)
      /\ q \notin {n, b, aa, aba, abb, x}
  BY <1>2, <1>3, <1>4 DEF Rotates
<1>6. q \in DOMAIN h => q = ab /\ ~Prot(h, ab, cow)
  BY <1>2, <1>3, <1>5 DEF Prot
<1>7. /\ HeapOK(h3) /\ DOMAIN h3 = DOMAIN h2
      /\ \A y \in DOMAIN h2 : y # n => h3[y] = h2[y]
      /\ h3[n] = [h[n] EXCEPT !.left = q]
  <2>1. h2[n] = h[n] /\ n \in DOMAIN h2
    BY <1>2, <1>3, <1>5
  <2>. QED  BY <1>5, <2>1 DEF HeapOK
<1>. HIDE DEF h3
<1>8. /\ n \in DOMAIN h3 /\ Mutated(h3, n, ver) /\ h3[n].value = NoValue
      /\ h3[n].left = q /\ h3[n].right = b /\ h3[n].key = h[n].key
  BY <1>3, <1>5, <1>7 DEF Mutated, Fields
<1>9. /\ q \in DOMAIN h3 /\ h3[q] = h2[q] /\ DOMAIN h3[q] = Fields /\ h3[q].value = NoValue
      /\ h3[q].left = x /\ h3[q].right = abb /\ h3[q].key = h[ab].key /\ ~Prot(h3, q, cow)
  <2>1. q \in DOMAIN h2 /\ q # n
    BY <1>5
  <2>2. q \in DOMAIN h3 /\ h3[q] = h2[q]
    BY <1>7, <2>1
  <2>3. /\ DOMAIN h2[q] = Fields /\ h2[q].value = NoValue
        /\ h2[q].left = x /\ h2[q].right = abb /\ h2[q].key = h[ab].key
    BY <1>4 DEF BranchAt
  <2>4. ~Prot(h2, q, cow)
    BY <1>4 DEF BranchAt, Prot
  <2>5. ~Prot(h3, q, cow)
    BY <2>2, <2>4 DEF Prot
  <2>. QED  BY <2>2, <2>3, <2>5
<1>10. /\ Rotates(h3, n, q, cow, g, p)
       /\ BranchAt(g, n, abb, b, h[n].key, ver)
       /\ BranchAt(g, p, x, n, h[ab].key, ver)
  <2>1. g = rotateRight(h3, n, ver, cow).heap /\ p = rotateRight(h3, n, ver, cow).node
    BY DEF h3, h2, q
  <2>2. b \in DOMAIN h3 /\ x \in DOMAIN h3 /\ abb \in DOMAIN h3
    BY <1>3, <1>5, <1>7
  <2>3. n # q /\ b \notin {n, q} /\ x \notin {n, q} /\ abb \notin {n, q}
    BY <1>2, <1>5
  <2>. HIDE DEF g, p
  <2>4. LET gg == rotateRight(h3, n, ver, cow).heap
            pp == rotateRight(h3, n, ver, cow).node
        IN /\ Rotates(h3, n, q, cow, gg, pp)
           /\ BranchAt(gg, n, abb, b, h3[n].key, ver)
           /\ BranchAt(gg, pp, x, n, h3[q].key, ver)
    BY <1>7, <1>8, <1>9, <2>2, <2>3, RotateRightFacts
  <2>. QED  BY <1>8, <1>9, <2>1, <2>4
<1>. HIDE DEF g, p
<1>11. /\ HeapOK(g) /\ DOMAIN g = DOMAIN h3 /\ p = q
       /\ \A y \in DOMAIN h3 : y # n /\ y # q => g[y] = h3[y]
  BY <1>9, <1>10 DEF Rotates
<1>12. Doubles(h, n, a, ab, cow, g, x, p)
  <2>1. DOMAIN g = DOMAIN h \cup {x, p}
    BY <1>2, <1>5, <1>7, <1>11
  <2>2. \A y \in DOMAIN h : y \notin {n, x, p} => g[y] = h[y]
    BY <1>2, <1>5, <1>7, <1>11
  <2>. QED  BY <1>2, <1>5, <1>6, <1>11, <2>1, <2>2 DEF Doubles
<1>13. BranchAt(g, x, aa, aba, h[a].key, ver)
  <2>1. x \in DOMAIN h2 /\ aa \in DOMAIN h2 /\ aba \in DOMAIN h2
    BY <1>3, <1>5
  <2>2. g[x] = h2[x] /\ g[aa] = h2[aa] /\ g[aba] = h2[aba] /\ x \in DOMAIN g
    BY <1>2, <1>5, <1>7, <1>11, <2>1
  <2>3. Measured(g, x)
    <3>1. h2[x].left = aa /\ h2[x].right = aba /\ Measured(h2, x)
      BY <1>4 DEF BranchAt
    <3>2. /\ h2[x].height = TallerOf(h2, aa, aba) + 1
          /\ h2[x].size = h2[aa].size + h2[aba].size
      BY <3>1 DEF Measured
    <3>3. TallerOf(g, aa, aba) = TallerOf(h2, aa, aba)
      BY <2>2 DEF TallerOf
    <3>. QED  BY <2>2, <3>1, <3>2, <3>3 DEF Measured
  <2>. QED  BY <1>4, <2>2, <2>3 DEF BranchAt
<1>. QED  BY <1>10, <1>12, <1>13 DEF g, p, x

\* The right child b is mutated and rotated right, then n is rotated left.
LEMMA DoubleLeftFacts ==
    ASSUME NEW h, HeapOK(h), NEW n \in DOMAIN h, NEW ver \in Nat, NEW cow \in Nat, cow < ver,
           Mutated(h, n, ver), h[n].value = NoValue,
           NEW b \in DOMAIN h, b = h[n].right, DOMAIN h[b] = Fields, h[b].value = NoValue,
           NEW a \in DOMAIN h, a = h[n].left,
           NEW bb \in DOMAIN h, bb = h[b].right,
           NEW ba \in DOMAIN h, ba = h[b].left, DOMAIN h[ba] = Fields, h[ba].value = NoValue,
           NEW bab \in DOMAIN h, bab = h[ba].right, NEW baa \in DOMAIN h, baa = h[ba].left,
           n \notin {b, a, bb, ba, bab, baa}, b \notin {a, bb, ba, bab, baa},
           ba \notin {a, bb, bab, baa},
           NEW m, m = Mutate(h, b, ver, cow),
           NEW r, r = rotateRight(m.heap, m.node, ver, cow),
           NEW s, s = rotateLeft([r.heap EXCEPT ![n].right = r.node], n, ver, cow)
    PROVE  /\ Doubles(h, n, b, ba, cow, s.heap, m.node, s.node)
           /\ BranchAt(s.heap, m.node, bab, bb, h[b].key, ver)
           /\ BranchAt(s.heap, n, a, baa, h[n].key, ver)
           /\ BranchAt(s.heap, s.node, n, m.node, h[ba].key, ver)
<1>. DEFINE h1 == m.heap
            x  == m.node
            h2 == r.heap
            q  == r.node
            h3 == [h2 EXCEPT ![n].right = q]
            g  == s.heap
            p  == s.node
<1>1. Mutates(h, b, ver, cow, h1, x)
  BY MutateFacts
<1>2. /\ HeapOK(h1) /\ DOMAIN h1 = DOMAIN h \cup {x}
      /\ \A y \in DOMAIN h : y # x => h1[y] = h[y]
      /\ x \in DOMAIN h => x = b /\ ~Prot(h, b, cow)
      /\ x \notin {n, a, bb, ba, bab, baa}
      /\ Mutated(h1, x, ver) /\ h1[x].right = bb /\ h1[x].left = ba
      /\ h1[x].key = h[b].key /\ h1[x].value = NoValue
  <2>. HIDE DEF h1, x
  <2>. QED  BY <1>1 DEF Mutates, SameNode
<1>. HIDE DEF h1, x
<1>3. h1[ba] = h[ba] /\ h1[n] = h[n] /\ {n, a, bb, ba, bab, baa, x} \subseteq DOMAIN h1
  BY <1>2
<1>4. /\ Rotates(h1, x, ba, cow, h2, q)
      /\ BranchAt(h2, x, bab, bb, h[b].key, ver)
      /\ BranchAt(h2, q, baa, x, h[ba].key, ver)
  <2>1. h2 = rotateRight(h1, x, ver, cow).heap /\ q = rotateRight(h1, x, ver, cow).node
    BY DEF h1, x
  <2>2. x \in DOMAIN h1 /\ bb \in DOMAIN h1 /\ ba \in DOMAIN h1 /\ bab \in DOMAIN h1
        /\ baa \in DOMAIN h1
    BY <1>3
  <2>3. x # ba /\ bb \notin {x, ba} /\ bab \notin {x, ba} /\ baa \notin {x, ba}
    BY <1>2
  <2>4. bab = h1[ba].right /\ baa = h1[ba].left /\ DOMAIN h1[ba] = Fields
        /\ h1[ba].value = NoValue /\ h1[ba].key = h[ba].key
        /\ bb = h1[x].right /\ ba = h1[x].left
    BY <1>2, <1>3
  <2>. HIDE DEF h2, q
  <2>5. LET gg == rotateRight(h1, x, ver, cow).heap
            pp == rotateRight(h1, x, ver, cow).node
        IN /\ Rotates(h1, x, ba, cow, gg, pp)
           /\ BranchAt(gg, x, bab, bb, h1[x].key, ver)
           /\ BranchAt(gg, pp, baa, x, h1[ba].key, ver)
    BY <1>2, <2>2, <2>3, <2>4, RotateRightFacts
  <2>. QED  BY <1>2, <2>1, <2>4, <2>5
<1>. HIDE DEF h2, q
<1>5. /\ HeapOK(h2) /\ DOMAIN h2 = DOMAIN h1 \cup {q}
      /\ \A y \in DOMAIN h1 : y # x /\ y # q => h2[y] = h1[y]
      /\ q \in DOMAIN h1 => q = ba /\ ~Prot(h1, ba, cow)
      /\ q \notin {n, a, bb, bab, baa, x}
  BY <1>2, <1>3, <1>4 DEF Rotates
<1>6. q \in DOMAIN h => q = ba /\ ~Prot(h, ba, cow)
  BY <1>2, <1>3, <1>5 DEF Prot
<1>7. /\ HeapOK(h3) /\ DOMAIN h3 = DOMAIN h2
      /\ \A y \in DOMAIN h2 : y # n => h3[y] = h2[y]
      /\ h3[n] = [h[n] EXCEPT !.right = q]
  <2>1. h2[n] = h[n] /\ n \in DOMAIN h2
    BY <1>2, <1>3, <1>5
  <2>. QED  BY <1>5, <2>1 DEF HeapOK
<1>. HIDE DEF h3
<1>8. /\ n \in DOMAIN h3 /\ Mutated(h3, n, ver) /\ h3[n].value = NoValue
      /\ h3[n].right = q /\ h3[n].left = a /\ h3[n].key = h[n].key
  BY <1>3, <1>5, <1>7 DEF Mutated, Fields
<1>9. /\ q \in DOMAIN h3 /\ h3[q] = h2[q] /\ DOMAIN h3[q] = Fields /\ h3[q].value = NoValue
      /\ h3[q].right = x /\ h3[q].left = baa /\ h3[q].key = h[ba].key /\ ~Prot(h3, q, cow)
  <2>1. q \in DOMAIN h2 /\ q # n
    BY <1>5
  <2>2. q \in DOMAIN h3 /\ h3[q] = h2[q]
    BY <1>7, <2>1
  <2>3. /\ DOMAIN h2[q] = Fields /\ h2[q].value = NoValue
        /\ h2[q].right = x /\ h2[q].left = baa /\ h2[q].key = h[ba].key
    BY <1>4 DEF BranchAt
  <2>4. ~Prot(h2, q, cow)
    BY <1>4 DEF BranchAt, Prot
  <2>5. ~Prot(h3, q, cow)
    BY <2>2, <2>4 DEF Prot
  <2>. QED  BY <2>2, <2>3, <2>5
<1>10. /\ Rotates(h3, n, q, cow, g, p)
       /\ BranchAt(g, n, a, baa, h[n].key, ver)
       /\ BranchAt(g, p, n, x, h[ba].key, ver)
  <2>1. g = rotateLeft(h3, n, ver, cow).heap /\ p = rotateLeft(h3, n, ver, cow).node
    BY DEF h3, h2, q
  <2>2. a \in DOMAIN h3 /\ x \in DOMAIN h3 /\ baa \in DOMAIN h3
    BY <1>3, <1>5, <1>7
  <2>3. n # q /\ a \notin {n, q} /\ x \notin {n, q} /\ baa \notin {n, q}
    BY <1>2, <1>5
  <2>. HIDE DEF g, p
  <2>4. LET gg == rotateLeft(h3, n, ver, cow).heap
            pp == rotateLeft(h3, n, ver, cow).node
        IN /\ Rotates(h3, n, q, cow, gg, pp)
           /\ BranchAt(gg, n, a, baa, h3[n].key, ver)
           /\ BranchAt(gg, pp, n, x, h3[q].key, ver)
    BY <1>7, <1>8, <1>9, <2>2, <2>3, RotateLeftFacts
  <2>. QED  BY <1>8, <1>9, <2>1, <2>4
<1>. HIDE DEF g, p
<1>11. /\ HeapOK(g) /\ DOMAIN g = DOMAIN h3 /\ p = q
       /\ \A y \in DOMAIN h3 : y # n /\ y # q => g[y] = h3[y]
  BY <1>9, <1>10 DEF Rotates
<1>12. Doubles(h, n, b, ba, cow, g, x, p)
  <2>1. DOMAIN g = DOMAIN h \cup {x, p}
    BY <1>2, <1>5, <1>7, <1>11
  <2>2. \A y \in DOMAIN h : y \notin {n, x, p} => g[y] = h[y]
    BY <1>2, <1>5, <1>7, <1>11
  <2>. QED  BY <1>2, <1>5, <1>6, <1>11, <2>1, <2>2 DEF Doubles
<1>13. BranchAt(g, x, bab, bb, h[b].key, ver)
  <2>1. x \in DOMAIN h2 /\ bb \in DOMAIN h2 /\ bab \in DOMAIN h2
    BY <1>3, <1>5
  <2>2. g[x] = h2[x] /\ g[bb] = h2[bb] /\ g[bab] = h2[bab] /\ x \in DOMAIN g
    BY <1>2, <1>5, <1>7, <1>11, <2>1
  <2>3. Measured(g, x)
    <3>1. h2[x].left = bab /\ h2[x].right = bb /\ Measured(h2, x)
      BY <1>4 DEF BranchAt
    <3>2. /\ h2[x].height = TallerOf(h2, bab, bb) + 1
          /\ h2[x].size = h2[bab].size + h2[bb].size
      BY <3>1 DEF Measured
    <3>3. TallerOf(g, bab, bb) = TallerOf(h2, bab, bb)
      BY <2>2 DEF TallerOf
    <3>. QED  BY <2>2, <3>1, <3>2, <3>3 DEF Measured
  <2>. QED  BY <1>4, <2>2, <2>3 DEF BranchAt
<1>. QED  BY <1>10, <1>12, <1>13 DEF g, p, x

LEMMA DoubleRight ==
    ASSUME NEW h, HeapOK(h), NEW n, NEW a, NEW b, NEW key \in Key,
           NEW ver \in Nat, NEW cow \in Nat, cow < ver, Pair(h, n, a, b, key, ver),
           h[a].height = h[b].height + 2, calcBalance(h, a) < 0,
           NEW m, m = Mutate(h, a, ver, cow),
           NEW r, r = rotateLeft(m.heap, m.node, ver, cow),
           NEW s, s = rotateRight([r.heap EXCEPT ![n].left = r.node], n, ver, cow)
    PROVE  Balanced(h, n, a, b, ver, cow, s.heap, s.node)
<1>. DEFINE aa  == h[a].left
            ab  == h[a].right
            aba == h[ab].left
            abb == h[ab].right
            g   == s.heap
            p   == s.node
            x   == m.node
            S   == PairNodes(h, n, a, b)
            hb  == h[b].height
<1>1. /\ n \in DOMAIN h /\ a \in DOMAIN h /\ b \in DOMAIN h
      /\ a \in Under(h, a) /\ b \in Under(h, b) /\ n # a /\ n # b /\ a # b
      /\ h[n].left = a /\ h[n].right = b /\ h[n].key = key
      /\ h[a].height \in Nat /\ h[b].height \in Nat /\ key \in Nat
      /\ NodeType(h, a) /\ NodeType(h, b)
      /\ Mutated(h, n, ver) /\ h[n].value = NoValue
      /\ calcBalance(h, n) = h[a].height - h[b].height
  <2>1. PairParts(h, n, a, b, key, ver)
    BY PairFacts
  <2>. QED  BY <2>1 DEF PairParts
<1>2. /\ WF(h, aa) /\ WF(h, ab) /\ BranchOK(h, a)
      /\ NodeType(h, aa) /\ NodeType(h, ab)
      /\ Under(h, a) = {a} \cup Under(h, aa) \cup Under(h, ab)
      /\ a \notin Under(h, aa) /\ a \notin Under(h, ab)
      /\ aa \in Under(h, aa) /\ ab \in Under(h, ab)
      /\ aa \in DOMAIN h /\ ab \in DOMAIN h /\ a # aa /\ a # ab
      /\ Ent(h, a) = Ent(h, aa) \cup Ent(h, ab)
      /\ Keys(h, a) = Keys(h, aa) \cup Keys(h, ab)
  BY <1>1, WFBranch DEF Pair
<1>3. h[aa].height = hb /\ h[ab].height = hb + 1 /\ hb \in Nat
  <2>1. h[aa].height \in Nat /\ h[ab].height \in Nat /\ hb \in Nat
    BY <1>1, <1>2 DEF NodeType
  <2>2. h[a].height = TallerOf(h, aa, ab) + 1 /\ h[aa].height - h[ab].height = -1
    BY <1>2, <2>1 DEF BranchOK, Measured, calcBalance
  <2>. QED  BY <2>1, <2>2 DEF TallerOf
<1>4. /\ WF(h, aba) /\ WF(h, abb) /\ BranchOK(h, ab)
      /\ NodeType(h, aba) /\ NodeType(h, abb)
      /\ Under(h, ab) = {ab} \cup Under(h, aba) \cup Under(h, abb)
      /\ ab \notin Under(h, aba) /\ ab \notin Under(h, abb)
      /\ aba \in Under(h, aba) /\ abb \in Under(h, abb)
      /\ aba \in DOMAIN h /\ abb \in DOMAIN h /\ ab # aba /\ ab # abb
      /\ Ent(h, ab) = Ent(h, aba) \cup Ent(h, abb)
      /\ Keys(h, ab) = Keys(h, aba) \cup Keys(h, abb)
  <2>. HIDE DEF ab
  <2>1. h[ab].height # 0
    BY <1>3
  <2>. QED  BY <1>2, <2>1, WFBranch
<1>5. /\ h[aba].height \in Nat /\ h[abb].height \in Nat
      /\ h[aba].height - h[abb].height \in -1 .. 1 /\ TallerOf(h, aba, abb) = hb
  <2>1. h[aba].height \in Nat /\ h[abb].height \in Nat
    BY <1>4 DEF NodeType
  <2>2. h[ab].height = TallerOf(h, aba, abb) + 1 /\ h[aba].height - h[abb].height \in -1 .. 1
    BY <1>4 DEF BranchOK, Measured, calcBalance
  <2>3. TallerOf(h, aba, abb) \in {h[aba].height, h[abb].height}
    BY DEF TallerOf
  <2>. HIDE DEF aba, abb, ab
  <2>. QED  BY <1>3, <2>1, <2>2, <2>3
<1>6. /\ Under(h, aa) \cap Under(h, ab) = {} /\ Under(h, aba) \cap Under(h, abb) = {}
      /\ Under(h, a) \cap Under(h, b) = {}
      /\ n \notin Under(h, a) /\ n \notin Under(h, b)
  BY <1>2, <1>4 DEF BranchOK, Pair, Disjoint
<1>7. n \notin {a, b, aa, ab, aba, abb} /\ a \notin {b, aa, ab, aba, abb}
      /\ ab \notin {b, aa, aba, abb}
  <2>. HIDE DEF aa, ab, aba, abb
  <2>. QED  BY <1>1, <1>2, <1>4, <1>6
<1>8. /\ Doubles(h, n, a, ab, cow, g, x, p)
      /\ BranchAt(g, x, aa, aba, h[a].key, ver)
      /\ BranchAt(g, n, abb, b, key, ver)
      /\ BranchAt(g, p, x, n, h[ab].key, ver)
  <2>. HIDE DEF aa, ab, aba, abb
  <2>1. aa = h[a].left /\ ab = h[a].right /\ aba = h[ab].left /\ abb = h[ab].right
    BY DEF aa, ab, aba, abb
  <2>2. DOMAIN h[a] = Fields /\ h[a].value = NoValue /\ DOMAIN h[ab] = Fields /\ h[ab].value = NoValue
    BY <1>1, <1>2, <1>4 DEF NodeType, BranchOK
  <2>3. /\ n \in DOMAIN h /\ h[n].left = a /\ h[n].right = b /\ h[n].key = key
        /\ a \in DOMAIN h /\ b \in DOMAIN h /\ aa \in DOMAIN h /\ ab \in DOMAIN h
        /\ aba \in DOMAIN h /\ abb \in DOMAIN h /\ Mutated(h, n, ver) /\ h[n].value = NoValue
    BY <1>1, <1>2, <1>4
  <2>. QED  BY <1>7, <2>1, <2>2, <2>3, DoubleRightFacts
<1>. HIDE DEF g, p, x, aa, ab, aba, abb
<1>9. /\ HeapOK(g) /\ DOMAIN g = DOMAIN h \cup {x, p}
      /\ \A y \in DOMAIN h : y \notin {n, x, p} => g[y] = h[y]
      /\ x \in DOMAIN h => x = a /\ ~Prot(h, a, cow)
      /\ p \in DOMAIN h => p = ab /\ ~Prot(h, ab, cow)
      /\ x # p /\ x # n /\ p # n
  BY <1>8 DEF Doubles
<1>10. ASSUME NEW t \in {aa, aba, abb, b}
       PROVE  Kept(h, g, t) /\ {p, x, n} \cap Under(h, t) = {}
  <2>1. Under(h, t) \subseteq DOMAIN h /\ a \notin Under(h, t) /\ ab \notin Under(h, t)
        /\ n \notin Under(h, t)
    BY <1>2, <1>4, <1>6 DEF Under
  <2>2. p \notin Under(h, t) /\ x \notin Under(h, t)
    BY <1>9, <2>1
  <2>3. WF(h, t)
    BY <1>2, <1>4 DEF Pair
  <2>4. \A y \in Under(h, t) : y \in DOMAIN g /\ g[y] = h[y]
    BY <1>9, <2>1, <2>2
  <2>. QED  BY <1>9, <2>1, <2>2, <2>3, <2>4, KeptOutside
<1>11. Kept(h, g, aa) /\ Kept(h, g, aba) /\ Kept(h, g, abb) /\ Kept(h, g, b)
  BY <1>10
<1>12. /\ Disjoint(g, aa, aba) /\ Disjoint(g, aa, abb) /\ Disjoint(g, aa, b)
       /\ Disjoint(g, aba, abb) /\ Disjoint(g, aba, b) /\ Disjoint(g, abb, b)
       /\ {p, x, n} \cap (Under(g, aa) \cup Under(g, aba) \cup Under(g, abb) \cup Under(g, b)) = {}
  <2>1. {p, x, n} \cap (Under(h, aa) \cup Under(h, aba) \cup Under(h, abb) \cup Under(h, b)) = {}
    BY <1>10
  <2>. QED  BY <1>2, <1>4, <1>6, <1>11, <2>1 DEF Disjoint, Kept
<1>13. /\ h[a].key \in Key /\ h[ab].key \in Key /\ h[a].key \in Nat /\ h[ab].key \in Nat
  BY <1>1, <1>2, KeysAreNumbers DEF NodeType
<1>14. /\ h[a].key \in Keys(h, aba) /\ h[a].key < h[ab].key
       /\ \A i \in Keys(h, aa) : i < h[a].key /\ i \in Nat
       /\ \A i \in Keys(h, aba) : h[a].key =< i /\ i < h[ab].key
       /\ \A i \in Keys(h, abb) : h[ab].key =< i /\ i < key
       /\ \A i \in Keys(h, b) : key =< i /\ i \in Nat
       /\ h[ab].key \in Keys(h, abb) /\ key \in Keys(h, b)
  <2>1. /\ \A i \in Keys(h, aa) : i < h[a].key
        /\ \A i \in Keys(h, ab) : h[a].key =< i
        /\ h[a].key \in Keys(h, ab)
    BY <1>2 DEF BranchOK, Sorted, aa, ab
  <2>2. /\ \A i \in Keys(h, aba) : i < h[ab].key
        /\ \A i \in Keys(h, abb) : h[ab].key =< i
        /\ h[ab].key \in Keys(h, abb)
    BY <1>4 DEF BranchOK, Sorted, aba, abb
  <2>3. /\ \A i \in Keys(h, a) : i < key
        /\ \A i \in Keys(h, b) : key =< i
        /\ key \in Keys(h, b)
    BY DEF Pair, Sorted
  <2>4. h[a].key \in Keys(h, aba) /\ h[a].key < h[ab].key
    <3>1. h[ab].height # 0
      BY <1>3
    <3>. QED  BY <1>2, <2>1, <3>1, SmallestLeft DEF aba
  <2>5. Keys(h, aa) \subseteq Nat /\ Keys(h, b) \subseteq Nat
    BY <1>2, KeysTyped DEF Pair
  <2>. QED  BY <1>2, <1>4, <2>1, <2>2, <2>3, <2>4, <2>5
<1>15. Sorted(g, aa, aba, h[a].key) /\ Sorted(g, abb, b, key)
  <2>1. Sorted(h, aa, aba, h[a].key) /\ Sorted(h, abb, b, key)
    BY <1>14 DEF Sorted
  <2>. QED  BY <1>11, <2>1 DEF Sorted, Kept
<1>16. /\ \A i \in Keys(g, aa) \cup Keys(g, aba) : i < h[ab].key
       /\ \A i \in Keys(g, abb) \cup Keys(g, b) : h[ab].key =< i
       /\ h[ab].key \in Keys(g, abb) \cup Keys(g, b)
  <2>1. /\ \A i \in Keys(h, aa) \cup Keys(h, aba) : i < h[ab].key
        /\ \A i \in Keys(h, abb) : h[ab].key =< i
        /\ h[ab].key \in Keys(h, abb)
    BY <1>13, <1>14
  <2>2. \A i \in Keys(h, b) : h[ab].key =< i
    BY <1>1, <1>13, <1>14
  <2>. QED  BY <1>11, <2>1, <2>2 DEF Kept
<1>17. /\ calcBalance(g, x) \in -1 .. 1 /\ calcBalance(g, n) \in -1 .. 1
       /\ TallerOf(g, aa, aba) = hb /\ TallerOf(g, abb, b) = hb
  <2>1. g[aa] = h[aa] /\ g[aba] = h[aba] /\ g[abb] = h[abb] /\ g[b] = h[b]
    BY <1>11 DEF Kept
  <2>2. calcBalance(g, x) = h[aa].height - h[aba].height
        /\ calcBalance(g, n) = h[abb].height - hb
    BY <1>8, <2>1 DEF calcBalance, BranchAt
  <2>3. h[aba].height \in {hb, hb - 1} /\ h[abb].height \in {hb, hb - 1}
    BY <1>3, <1>5 DEF TallerOf
  <2>. QED  BY <1>3, <1>5, <2>1, <2>2, <2>3 DEF TallerOf
<1>18. /\ WF(g, p) /\ g[p].height = hb + 2
       /\ Under(g, p) = {p, x, n} \cup Under(g, aa) \cup Under(g, aba) \cup Under(g, abb) \cup Under(g, b)
       /\ Ent(g, p) = Ent(g, aa) \cup Ent(g, aba) \cup Ent(g, abb) \cup Ent(g, b)
  <2>1. WF(g, aa) /\ WF(g, aba) /\ WF(g, abb) /\ WF(g, b)
    BY <1>11 DEF Kept
  <2>. HIDE DEF hb
  <2>2. Four(g, p, x, n, aa, aba, abb, b, h[a].key, h[ab].key, key, ver, hb)
    BY <1>8, <1>9, <1>12, <1>15, <1>16, <1>17, <2>1 DEF Four
  <2>3. FourJoined(g, p, x, n, aa, aba, abb, b, hb)
    BY <1>3, <1>9, <1>13, <2>2, JoinFour
  <2>. QED  BY <2>3 DEF FourJoined
<1>19. a \in S /\ ab \in S /\ n \in S /\ Under(h, aa) \subseteq S /\ Under(h, aba) \subseteq S
       /\ Under(h, abb) \subseteq S /\ Under(h, b) \subseteq S
  BY <1>2, <1>4 DEF PairNodes
<1>20. Grows(h, g, S, ver, cow)
  <2>. HIDE DEF S
  <2>1. ~Prot(h, n, cow)
    BY DEF Prot, Pair, BranchAt
  <2>2. g[n].version = ver /\ g[p].version = ver /\ g[x].version = ver
    BY <1>8 DEF BranchAt
  <2>3. \A y \in DOMAIN h : y \notin S \/ Prot(h, y, cow) => y \notin {n, x, p}
    BY <1>9, <1>19, <2>1
  <2>. QED  BY <1>9, <2>2, <2>3 DEF Grows
<1>21. Under(g, p) \cap DOMAIN h \subseteq S
  BY <1>9, <1>11, <1>18, <1>19 DEF Kept
<1>22. Ent(g, p) = Ent(h, a) \cup Ent(h, b)
  BY <1>2, <1>4, <1>11, <1>18 DEF Kept
<1>23. TallerOf(h, a, b) = hb + 2 /\ calcBalance(h, n) = 2
  BY <1>1, <1>3 DEF TallerOf
<1>24. Balanced(h, n, a, b, ver, cow, g, p)
  <2>1. Built(h, g, p, S, Ent(h, a) \cup Ent(h, b), ver, cow)
    BY <1>18, <1>20, <1>21, <1>22 DEF Built
  <2>. HIDE DEF hb
  <2>. QED  BY <1>3, <1>18, <1>23, <2>1 DEF Balanced
<1>. QED  BY <1>24 DEF g, p

LEMMA DoubleLeft ==
    ASSUME NEW h, HeapOK(h), NEW n, NEW a, NEW b, NEW key \in Key,
           NEW ver \in Nat, NEW cow \in Nat, cow < ver, Pair(h, n, a, b, key, ver),
           h[b].height = h[a].height + 2, calcBalance(h, b) > 0,
           NEW m, m = Mutate(h, b, ver, cow),
           NEW r, r = rotateRight(m.heap, m.node, ver, cow),
           NEW s, s = rotateLeft([r.heap EXCEPT ![n].right = r.node], n, ver, cow)
    PROVE  Balanced(h, n, a, b, ver, cow, s.heap, s.node)
<1>. DEFINE bb  == h[b].right
            ba  == h[b].left
            bab == h[ba].right
            baa == h[ba].left
            g   == s.heap
            p   == s.node
            x   == m.node
            S   == PairNodes(h, n, a, b)
            ha  == h[a].height
<1>1. /\ n \in DOMAIN h /\ b \in DOMAIN h /\ a \in DOMAIN h
      /\ b \in Under(h, b) /\ a \in Under(h, a) /\ n # b /\ n # a /\ b # a
      /\ h[n].right = b /\ h[n].left = a /\ h[n].key = key
      /\ h[b].height \in Nat /\ h[a].height \in Nat /\ key \in Nat
      /\ NodeType(h, b) /\ NodeType(h, a)
      /\ Mutated(h, n, ver) /\ h[n].value = NoValue
      /\ calcBalance(h, n) = h[a].height - h[b].height
  <2>1. PairParts(h, n, a, b, key, ver)
    BY PairFacts
  <2>. QED  BY <2>1 DEF PairParts
<1>2. /\ WF(h, bb) /\ WF(h, ba) /\ BranchOK(h, b)
      /\ NodeType(h, bb) /\ NodeType(h, ba)
      /\ Under(h, b) = {b} \cup Under(h, bb) \cup Under(h, ba)
      /\ b \notin Under(h, bb) /\ b \notin Under(h, ba)
      /\ bb \in Under(h, bb) /\ ba \in Under(h, ba)
      /\ bb \in DOMAIN h /\ ba \in DOMAIN h /\ b # bb /\ b # ba
      /\ Ent(h, b) = Ent(h, bb) \cup Ent(h, ba)
      /\ Keys(h, b) = Keys(h, bb) \cup Keys(h, ba)
  BY <1>1, WFBranch DEF Pair
<1>3. h[bb].height = ha /\ h[ba].height = ha + 1 /\ ha \in Nat
  <2>1. h[bb].height \in Nat /\ h[ba].height \in Nat /\ ha \in Nat
    BY <1>1, <1>2 DEF NodeType
  <2>2. h[b].height = TallerOf(h, ba, bb) + 1 /\ h[ba].height - h[bb].height = 1
    BY <1>2, <2>1 DEF BranchOK, Measured, calcBalance
  <2>. QED  BY <2>1, <2>2 DEF TallerOf
<1>4. /\ WF(h, bab) /\ WF(h, baa) /\ BranchOK(h, ba)
      /\ NodeType(h, bab) /\ NodeType(h, baa)
      /\ Under(h, ba) = {ba} \cup Under(h, bab) \cup Under(h, baa)
      /\ ba \notin Under(h, bab) /\ ba \notin Under(h, baa)
      /\ bab \in Under(h, bab) /\ baa \in Under(h, baa)
      /\ bab \in DOMAIN h /\ baa \in DOMAIN h /\ ba # bab /\ ba # baa
      /\ Ent(h, ba) = Ent(h, bab) \cup Ent(h, baa)
      /\ Keys(h, ba) = Keys(h, bab) \cup Keys(h, baa)
  <2>. HIDE DEF ba
  <2>1. h[ba].height # 0
    BY <1>3
  <2>. QED  BY <1>2, <2>1, WFBranch
<1>5. /\ h[bab].height \in Nat /\ h[baa].height \in Nat
      /\ h[baa].height - h[bab].height \in -1 .. 1 /\ TallerOf(h, baa, bab) = ha
  <2>1. h[bab].height \in Nat /\ h[baa].height \in Nat
    BY <1>4 DEF NodeType
  <2>2. h[ba].height = TallerOf(h, baa, bab) + 1 /\ h[baa].height - h[bab].height \in -1 .. 1
    BY <1>4 DEF BranchOK, Measured, calcBalance
  <2>3. TallerOf(h, baa, bab) \in {h[baa].height, h[bab].height}
    BY DEF TallerOf
  <2>. HIDE DEF baa, bab, ba
  <2>. QED  BY <1>3, <2>1, <2>2, <2>3
<1>6. /\ Under(h, bb) \cap Under(h, ba) = {} /\ Under(h, bab) \cap Under(h, baa) = {}
      /\ Under(h, b) \cap Under(h, a) = {}
      /\ n \notin Under(h, b) /\ n \notin Under(h, a)
  BY <1>2, <1>4 DEF BranchOK, Pair, Disjoint
<1>7. n \notin {a, b, bb, ba, bab, baa} /\ b \notin {a, bb, ba, bab, baa}
      /\ ba \notin {a, bb, bab, baa}
  <2>. HIDE DEF bb, ba, bab, baa
  <2>. QED  BY <1>1, <1>2, <1>4, <1>6
<1>8. /\ Doubles(h, n, b, ba, cow, g, x, p)
      /\ BranchAt(g, x, bab, bb, h[b].key, ver)
      /\ BranchAt(g, n, a, baa, key, ver)
      /\ BranchAt(g, p, n, x, h[ba].key, ver)
  <2>. HIDE DEF bb, ba, bab, baa
  <2>1. bb = h[b].right /\ ba = h[b].left /\ bab = h[ba].right /\ baa = h[ba].left
    BY DEF bb, ba, bab, baa
  <2>2. DOMAIN h[b] = Fields /\ h[b].value = NoValue /\ DOMAIN h[ba] = Fields /\ h[ba].value = NoValue
    BY <1>1, <1>2, <1>4 DEF NodeType, BranchOK
  <2>3. /\ n \in DOMAIN h /\ h[n].left = a /\ h[n].right = b /\ h[n].key = key
        /\ a \in DOMAIN h /\ b \in DOMAIN h /\ bb \in DOMAIN h /\ ba \in DOMAIN h
        /\ bab \in DOMAIN h /\ baa \in DOMAIN h /\ Mutated(h, n, ver) /\ h[n].value = NoValue
    BY <1>1, <1>2, <1>4
  <2>. QED  BY <1>7, <2>1, <2>2, <2>3, DoubleLeftFacts
<1>. HIDE DEF g, p, x, bb, ba, bab, baa
<1>9. /\ HeapOK(g) /\ DOMAIN g = DOMAIN h \cup {x, p}
      /\ \A y \in DOMAIN h : y \notin {n, x, p} => g[y] = h[y]
      /\ x \in DOMAIN h => x = b /\ ~Prot(h, b, cow)
      /\ p \in DOMAIN h => p = ba /\ ~Prot(h, ba, cow)
      /\ x # p /\ x # n /\ p # n
  BY <1>8 DEF Doubles
<1>10. ASSUME NEW t \in {bb, bab, baa, a}
       PROVE  Kept(h, g, t) /\ {p, x, n} \cap Under(h, t) = {}
  <2>1. Under(h, t) \subseteq DOMAIN h /\ b \notin Under(h, t) /\ ba \notin Under(h, t)
        /\ n \notin Under(h, t)
    BY <1>2, <1>4, <1>6 DEF Under
  <2>2. p \notin Under(h, t) /\ x \notin Under(h, t)
    BY <1>9, <2>1
  <2>3. WF(h, t)
    BY <1>2, <1>4 DEF Pair
  <2>4. \A y \in Under(h, t) : y \in DOMAIN g /\ g[y] = h[y]
    BY <1>9, <2>1, <2>2
  <2>. QED  BY <1>9, <2>1, <2>2, <2>3, <2>4, KeptOutside
<1>11. Kept(h, g, bb) /\ Kept(h, g, bab) /\ Kept(h, g, baa) /\ Kept(h, g, a)
  BY <1>10
<1>12. /\ Disjoint(g, a, baa) /\ Disjoint(g, a, bab) /\ Disjoint(g, a, bb)
       /\ Disjoint(g, baa, bab) /\ Disjoint(g, baa, bb) /\ Disjoint(g, bab, bb)
       /\ {p, n, x} \cap (Under(g, a) \cup Under(g, baa) \cup Under(g, bab) \cup Under(g, bb)) = {}
  <2>1. {p, n, x} \cap (Under(h, a) \cup Under(h, baa) \cup Under(h, bab) \cup Under(h, bb)) = {}
    BY <1>10
  <2>. QED  BY <1>2, <1>4, <1>6, <1>11, <2>1 DEF Disjoint, Kept
<1>13. /\ h[b].key \in Key /\ h[ba].key \in Key /\ h[b].key \in Nat /\ h[ba].key \in Nat
  BY <1>1, <1>2, KeysAreNumbers DEF NodeType
<1>14. /\ key \in Keys(h, baa) /\ key < h[ba].key /\ h[ba].key < h[b].key
       /\ \A i \in Keys(h, a) : i < key /\ i \in Nat
       /\ \A i \in Keys(h, baa) : key =< i /\ i < h[ba].key
       /\ \A i \in Keys(h, bab) : h[ba].key =< i /\ i < h[b].key
       /\ \A i \in Keys(h, bb) : h[b].key =< i /\ i \in Nat
       /\ h[ba].key \in Keys(h, bab) /\ h[b].key \in Keys(h, bb)
  <2>1. /\ \A i \in Keys(h, ba) : i < h[b].key
        /\ \A i \in Keys(h, bb) : h[b].key =< i
        /\ h[b].key \in Keys(h, bb)
    BY <1>2 DEF BranchOK, Sorted, ba, bb
  <2>2. /\ \A i \in Keys(h, baa) : i < h[ba].key
        /\ \A i \in Keys(h, bab) : h[ba].key =< i
        /\ h[ba].key \in Keys(h, bab)
    BY <1>4 DEF BranchOK, Sorted, baa, bab
  <2>3. /\ \A i \in Keys(h, a) : i < key
        /\ \A i \in Keys(h, b) : key =< i
        /\ key \in Keys(h, b)
    BY DEF Pair, Sorted
  <2>4. key \in Keys(h, ba)
    <3>1. h[b].height # 0 /\ WF(h, b)
      BY <1>1, <1>3 DEF Pair
    <3>. QED  BY <2>3, <3>1, SmallestLeft DEF ba
  <2>5. key \in Keys(h, baa) /\ key < h[ba].key
    <3>1. h[ba].height # 0 /\ \A i \in Keys(h, ba) : key =< i
      BY <1>2, <1>3, <2>3
    <3>. QED  BY <1>2, <2>4, <3>1, SmallestLeft DEF baa
  <2>6. Keys(h, a) \subseteq Nat /\ Keys(h, bb) \subseteq Nat
    BY <1>2, KeysTyped DEF Pair
  <2>. QED  BY <1>2, <1>4, <2>1, <2>2, <2>3, <2>5, <2>6
<1>15. Sorted(g, a, baa, key) /\ Sorted(g, bab, bb, h[b].key)
  <2>1. Sorted(h, a, baa, key) /\ Sorted(h, bab, bb, h[b].key)
    BY <1>14 DEF Sorted
  <2>. QED  BY <1>11, <2>1 DEF Sorted, Kept
<1>16. /\ \A i \in Keys(g, a) \cup Keys(g, baa) : i < h[ba].key
       /\ \A i \in Keys(g, bab) \cup Keys(g, bb) : h[ba].key =< i
       /\ h[ba].key \in Keys(g, bab) \cup Keys(g, bb)
  <2>1. /\ \A i \in Keys(h, baa) : i < h[ba].key
        /\ \A i \in Keys(h, bab) : h[ba].key =< i
        /\ h[ba].key \in Keys(h, bab)
    BY <1>14
  <2>2. \A i \in Keys(h, bb) : h[ba].key =< i
    BY <1>13, <1>14
  <2>3. \A i \in Keys(h, a) : i < h[ba].key
    BY <1>1, <1>13, <1>14
  <2>. QED  BY <1>11, <2>1, <2>2, <2>3 DEF Kept
<1>17. /\ calcBalance(g, x) \in -1 .. 1 /\ calcBalance(g, n) \in -1 .. 1
       /\ TallerOf(g, a, baa) = ha /\ TallerOf(g, bab, bb) = ha
  <2>1. g[bb] = h[bb] /\ g[bab] = h[bab] /\ g[baa] = h[baa] /\ g[a] = h[a]
    BY <1>11 DEF Kept
  <2>2. calcBalance(g, x) = h[bab].height - h[bb].height
        /\ calcBalance(g, n) = ha - h[baa].height
    BY <1>8, <2>1 DEF calcBalance, BranchAt
  <2>3. h[bab].height \in {ha, ha - 1} /\ h[baa].height \in {ha, ha - 1}
    BY <1>3, <1>5 DEF TallerOf
  <2>. QED  BY <1>3, <1>5, <2>1, <2>2, <2>3 DEF TallerOf
<1>18. /\ WF(g, p) /\ g[p].height = ha + 2
       /\ Under(g, p) = {p, n, x} \cup Under(g, a) \cup Under(g, baa) \cup Under(g, bab) \cup Under(g, bb)
       /\ Ent(g, p) = Ent(g, a) \cup Ent(g, baa) \cup Ent(g, bab) \cup Ent(g, bb)
  <2>1. WF(g, bb) /\ WF(g, bab) /\ WF(g, baa) /\ WF(g, a)
    BY <1>11 DEF Kept
  <2>. HIDE DEF ha
  <2>2. Four(g, p, n, x, a, baa, bab, bb, key, h[ba].key, h[b].key, ver, ha)
    BY <1>8, <1>9, <1>12, <1>15, <1>16, <1>17, <2>1 DEF Four
  <2>3. FourJoined(g, p, n, x, a, baa, bab, bb, ha)
    BY <1>3, <1>9, <1>13, <2>2, JoinFour
  <2>. QED  BY <2>3 DEF FourJoined
<1>19. b \in S /\ ba \in S /\ n \in S /\ Under(h, bb) \subseteq S /\ Under(h, bab) \subseteq S
       /\ Under(h, baa) \subseteq S /\ Under(h, a) \subseteq S
  BY <1>2, <1>4 DEF PairNodes
<1>20. Grows(h, g, S, ver, cow)
  <2>. HIDE DEF S
  <2>1. ~Prot(h, n, cow)
    BY DEF Prot, Pair, BranchAt
  <2>2. g[n].version = ver /\ g[p].version = ver /\ g[x].version = ver
    BY <1>8 DEF BranchAt
  <2>3. \A y \in DOMAIN h : y \notin S \/ Prot(h, y, cow) => y \notin {n, x, p}
    BY <1>9, <1>19, <2>1
  <2>. QED  BY <1>9, <2>2, <2>3 DEF Grows
<1>21. Under(g, p) \cap DOMAIN h \subseteq S
  BY <1>9, <1>11, <1>18, <1>19 DEF Kept
<1>22. Ent(g, p) = Ent(h, b) \cup Ent(h, a)
  BY <1>2, <1>4, <1>11, <1>18 DEF Kept
<1>23. TallerOf(h, a, b) = ha + 2 /\ calcBalance(h, n) = -2
  BY <1>1, <1>3 DEF TallerOf
<1>24. Balanced(h, n, a, b, ver, cow, g, p)
  <2>1. Built(h, g, p, S, Ent(h, b) \cup Ent(h, a), ver, cow)
    BY <1>18, <1>20, <1>21, <1>22 DEF Built
  <2>. HIDE DEF ha
  <2>2. calcBalance(h, n) \notin -1 .. 1
    BY <1>23
  <2>. QED  BY <1>3, <1>18, <1>23, <2>1, <2>2 DEF Balanced
<1>. QED  BY <1>24 DEF g, p

\* reBalance restores the balance, whatever the two subtrees are.
LEMMA ReBalanceOK ==
    ASSUME NEW h, HeapOK(h), NEW n, NEW a, NEW b, NEW key \in Key,
           NEW ver \in Nat, NEW cow \in Nat, cow < ver, Pair(h, n, a, b, key, ver),
           h[a].height - h[b].height \in -2 .. 2
    PROVE  Balanced(h, n, a, b, ver, cow, reBalance(h, n, ver, cow).heap,
                    reBalance(h, n, ver, cow).node)
<1>1. /\ h[n].left = a /\ h[n].right = b /\ h[a].height \in Nat /\ h[b].height \in Nat
      /\ calcBalance(h, n) = h[a].height - h[b].height
  <2>1. PairParts(h, n, a, b, key, ver)
    BY PairFacts
  <2>. QED  BY <2>1 DEF PairParts
<1>2. CASE calcBalance(h, n) \in -1 .. 1
  <2>0. ~(calcBalance(h, n) > 1) /\ ~(calcBalance(h, n) < -1)
    BY <1>1, <1>2
  <2>1. reBalance(h, n, ver, cow) = [heap |-> h, node |-> n]
    BY <2>0, Zenon DEF reBalance
  <2>. QED  BY <1>2, <2>1, NotUnbalanced
<1>3. CASE calcBalance(h, n) = 2
  <2>1. h[a].height = h[b].height + 2 /\ h[a].height # 0
    BY <1>1, <1>3
  <2>2. calcBalance(h, a) \in Int
    <3>1. BranchOK(h, a)
      BY <2>1, WFBranch DEF Pair
    <3>. QED  BY <3>1 DEF BranchOK
  <2>3. CASE calcBalance(h, a) >= 0
    <3>0. calcBalance(h, n) > 1 /\ ~(calcBalance(h, n) < -1) /\ ~(calcBalance(h, a) < 0)
      BY <1>3, <2>2, <2>3
    <3>1. reBalance(h, n, ver, cow) = rotateRight(h, n, ver, cow)
      BY <1>1, <2>3, <3>0, Zenon DEF reBalance
    <3>. QED  BY <2>1, <2>3, <3>1, SingleRight
  <2>4. CASE calcBalance(h, a) < 0
    <3>. DEFINE m == Mutate(h, a, ver, cow)
                r == rotateLeft(m.heap, m.node, ver, cow)
                s == rotateRight([r.heap EXCEPT ![n].left = r.node], n, ver, cow)
    <3>1. reBalance(h, n, ver, cow) = s
      BY <1>1, <1>3, <2>2, <2>4 DEF reBalance
    <3>2. Balanced(h, n, a, b, ver, cow, s.heap, s.node)
      <4>1. m = Mutate(h, a, ver, cow) /\ r = rotateLeft(m.heap, m.node, ver, cow)
            /\ s = rotateRight([r.heap EXCEPT ![n].left = r.node], n, ver, cow)
        OBVIOUS
      <4>. HIDE DEF m, r, s
      <4>. QED  BY <2>1, <2>4, <4>1, DoubleRight
    <3>. QED  BY <3>1, <3>2
  <2>. QED  BY <2>2, <2>3, <2>4
<1>4. CASE calcBalance(h, n) = -2
  <2>1. h[b].height = h[a].height + 2 /\ h[b].height # 0
    BY <1>1, <1>4
  <2>2. calcBalance(h, b) \in Int
    <3>1. BranchOK(h, b)
      BY <2>1, WFBranch DEF Pair
    <3>. QED  BY <3>1 DEF BranchOK
  <2>3. CASE calcBalance(h, b) =< 0
    <3>0. calcBalance(h, n) < -1 /\ ~(calcBalance(h, n) > 1) /\ ~(calcBalance(h, b) > 0)
      BY <1>4, <2>2, <2>3
    <3>1. reBalance(h, n, ver, cow) = rotateLeft(h, n, ver, cow)
      BY <1>1, <2>3, <3>0, Zenon DEF reBalance
    <3>. QED  BY <2>1, <2>3, <3>1, SingleLeft
  <2>4. CASE calcBalance(h, b) > 0
    <3>. DEFINE m == Mutate(h, b, ver, cow)
                r == rotateRight(m.heap, m.node, ver, cow)
                s == rotateLeft([r.heap EXCEPT ![n].right = r.node], n, ver, cow)
    <3>1. reBalance(h, n, ver, cow) = s
      BY <1>1, <1>4, <2>2, <2>4 DEF reBalance
    <3>2. Balanced(h, n, a, b, ver, cow, s.heap, s.node)
      <4>1. m = Mutate(h, b, ver, cow) /\ r = rotateRight(m.heap, m.node, ver, cow)
            /\ s = rotateLeft([r.heap EXCEPT ![n].right = r.node], n, ver, cow)
        OBVIOUS
      <4>. HIDE DEF m, r, s
      <4>. QED  BY <2>1, <2>4, <4>1, DoubleLeft
    <3>. QED  BY <3>1, <3>2
  <2>. QED  BY <2>2, <2>3, <2>4
<1>. QED  BY <1>1, <1>2, <1>3, <1>4

-----------------------------------------------------------------------------
(***************************************************************************)
(* setRecursive.                                                           *)
(***************************************************************************)
\* The entries of other keys.
Less(E, key) == {e \in E : e[1] # key}

Written(E, key, value) == Less(E, key) \cup {<<key, value>>}

LEMMA BuiltOn ==
    ASSUME NEW h, NEW k, NEW g, NEW p, NEW S, NEW T, NEW E, NEW ver, NEW cow,
           Grows(h, k, S, ver, cow), Built(k, g, p, T, E, ver, cow), T \cap DOMAIN h \subseteq S
    PROVE  Built(h, g, p, S, E, ver, cow)
<1>1. Grows(h, g, S, ver, cow)
  BY GrowsTwice DEF Built
<1>2. DOMAIN h \subseteq DOMAIN k
  BY DEF Grows
<1>. QED  BY <1>1, <1>2 DEF Built

\* A leaf is a tree.
LEMMA LeafTree ==
    ASSUME NEW h, HeapOK(h), NEW n, WF(h, n), h[n].height = 0
    PROVE  /\ Under(h, n) = {n} /\ NodeType(h, n) /\ LeafOK(h, n)
           /\ Ent(h, n) = {<<h[n].key, h[n].value>>} /\ Keys(h, n) = {h[n].key}
<1>1. n \in DOMAIN h /\ n \in Under(h, n)
  BY UnderRoot DEF WF
<1>2. NodeType(h, n) /\ LeafOK(h, n)
  BY <1>1 DEF WF, NodeOK
<1>3. Children(h, n) = {}
  BY <1>2 DEF LeafOK, Children, HeapOK
<1>4. Under(h, n) = {n}
  BY <1>1, <1>3, UnderUnfold
<1>5. LeavesUnder(h, n) = {n}
  BY <1>4 DEF LeavesUnder, IsLeaf
<1>. QED  BY <1>2, <1>4, <1>5 DEF Ent, Keys

LeafAt(g, x, key, value, ver) ==
    /\ x \in DOMAIN g /\ DOMAIN g[x] = Fields
    /\ g[x].left = Nil /\ g[x].right = Nil /\ g[x].key = key
    /\ g[x].value = value /\ g[x].version = ver
    /\ g[x].disk = FALSE /\ g[x].hash = NoHash
    /\ g[x].height = 0 /\ g[x].size = 1

LeafMade(g, x, key, value) ==
    WF(g, x) /\ Under(g, x) = {x} /\ Ent(g, x) = {<<key, value>>} /\ Keys(g, x) = {key}

LEMMA MakeLeaf ==
    ASSUME NEW g, HeapOK(g), NEW x, NEW key \in Key, NEW value \in Value, NEW ver \in Nat,
           LeafAt(g, x, key, value, ver)
    PROVE  LeafMade(g, x, key, value)
<1>1. Children(g, x) = {}
  BY DEF LeafAt, Children, HeapOK
<1>2. Under(g, x) = {x}
  BY <1>1, UnderUnfold DEF LeafAt
<1>3. NodeOK(g, x)
  <2>1. NodeType(g, x)
    <3>1. g[x].height \in Nat /\ g[x].size \in Nat /\ g[x].version \in Nat /\ g[x].key \in Key
      BY DEF LeafAt
    <3>. QED  BY <3>1 DEF LeafAt, NodeType
  <2>2. LeafOK(g, x) /\ FreshAt(g, x) /\ g[x].height = 0
    BY DEF LeafAt, LeafOK, FreshAt
  <2>. QED  BY <2>1, <2>2 DEF NodeOK
<1>4. WF(g, x)
  BY <1>2, <1>3 DEF WF, LeafAt
<1>. QED  BY <1>2, <1>4, LeafTree DEF LeafAt, LeafMade

\* What setRecursive promises of its result r = [heap, node, updated] for the
\* tree at m: a well-formed tree with the entry written, at most one higher,
\* and as high as before when no leaf was added.
SetDone(h, m, r, key, value, ver, cow) ==
    /\ Built(h, r.heap, r.node, Under(h, m), Written(Ent(h, m), key, value), ver, cow)
    /\ r.updated \in BOOLEAN
    /\ r.updated => r.heap[r.node].height = h[m].height /\ r.heap[r.node].size = h[m].size
    /\ r.heap[r.node].height \in {h[m].height, h[m].height + 1}

LEMMA UpdateLeafOK ==
    ASSUME NEW h, HeapOK(h), NEW n, WF(h, n), h[n].height = 0, NEW value \in Value,
           NEW ver \in Nat, NEW cow \in Nat, cow < ver
    PROVE  SetDone(h, n, updateLeaf(h, n, value, ver, cow), h[n].key, value, ver, cow)
<1>. DEFINE m == Mutate(h, n, ver, cow)
            h1 == m.heap
            p == m.node
            g == [h1 EXCEPT ![p].value = value]
            r == updateLeaf(h, n, value, ver, cow)
<1>1. r.heap = g /\ r.node = p /\ r.updated = TRUE
  BY DEF updateLeaf
<1>2. /\ Under(h, n) = {n} /\ NodeType(h, n) /\ LeafOK(h, n) /\ n \in DOMAIN h
      /\ Ent(h, n) = {<<h[n].key, h[n].value>>}
  BY LeafTree DEF WF
<1>3. Mutates(h, n, ver, cow, h1, p)
  BY <1>2, MutateFacts DEF NodeType
<1>. HIDE DEF h1, p, m
<1>4. /\ HeapOK(g) /\ DOMAIN g = DOMAIN h \cup {p}
      /\ \A x \in DOMAIN h : x # p => g[x] = h[x]
      /\ p \in DOMAIN h => p = n /\ ~Prot(h, n, cow)
      /\ g[p] = [h1[p] EXCEPT !.value = value]
  <2>1. p \in DOMAIN h1
    BY <1>3 DEF Mutates
  <2>. QED  BY <1>3, <2>1 DEF Mutates, HeapOK
<1>. HIDE DEF g, r
<1>5. LeafAt(g, p, h[n].key, value, ver)
  BY <1>2, <1>3, <1>4 DEF LeafAt, Mutates, Mutated, SameNode, LeafOK, Fields
<1>6. WF(g, p) /\ Under(g, p) = {p} /\ Ent(g, p) = {<<h[n].key, value>>}
  <2>1. h[n].key \in Key
    BY <1>2 DEF NodeType
  <2>2. LeafMade(g, p, h[n].key, value)
    BY <1>4, <1>5, <2>1, MakeLeaf
  <2>. QED  BY <2>2 DEF LeafMade
<1>7. Grows(h, g, {n}, ver, cow)
  BY <1>4, <1>5 DEF Grows, LeafAt
<1>8. Written(Ent(h, n), h[n].key, value) = {<<h[n].key, value>>}
  BY <1>2 DEF Written, Less
<1>9. Built(h, g, p, Under(h, n), Written(Ent(h, n), h[n].key, value), ver, cow)
  BY <1>2, <1>4, <1>6, <1>7, <1>8 DEF Built
<1>10. g[p].height = h[n].height /\ g[p].size = h[n].size
  BY <1>2, <1>5 DEF LeafAt, LeafOK
<1>11. SetDone(h, n, r, h[n].key, value, ver, cow)
  BY <1>1, <1>9, <1>10 DEF SetDone
<1>. QED  BY <1>11 DEF r

LEMMA SplitLeafOK ==
    ASSUME NEW h, HeapOK(h), NEW n, WF(h, n), h[n].height = 0, NEW key \in Key, key # h[n].key,
           NEW value \in Value, NEW ver \in Nat, NEW cow \in Nat, cow < ver
    PROVE  SetDone(h, n, splitLeaf(h, n, key, value, ver), key, value, ver, cow)
<1>. DEFINE q == Fresh(h)
            h1 == Alloc(h, newLeafNode(key, value, ver))
            p == Fresh(h1)
            k == h[n].key
            branch == IF key < k THEN newBranch(k, q, n, ver) ELSE newBranch(key, n, q, ver)
            g == Alloc(h1, branch)
            r == splitLeaf(h, n, key, value, ver)
<1>1. r.heap = g /\ r.node = p /\ r.updated = FALSE
  BY DEF splitLeaf
<1>2. /\ Under(h, n) = {n} /\ NodeType(h, n) /\ LeafOK(h, n) /\ n \in DOMAIN h
      /\ Ent(h, n) = {<<h[n].key, h[n].value>>} /\ Keys(h, n) = {k}
  BY LeafTree DEF WF
<1>. HIDE DEF r, k
<1>3. /\ HeapOK(h1) /\ DOMAIN h1 = DOMAIN h \cup {q} /\ q \notin DOMAIN h
      /\ h1[q] = newLeafNode(key, value, ver)
      /\ \A x \in DOMAIN h : h1[x] = h[x]
  BY FreshIsNew, AllocFacts
<1>. HIDE DEF h1, q
<1>4. /\ HeapOK(g) /\ DOMAIN g = DOMAIN h1 \cup {p} /\ p \notin DOMAIN h1 /\ g[p] = branch
      /\ \A x \in DOMAIN h1 : g[x] = h1[x]
  <2>. HIDE DEF branch
  <2>. QED  BY <1>3, FreshIsNew, AllocFacts
<1>. HIDE DEF g, p
<1>5. g[q] = newLeafNode(key, value, ver) /\ g[n] = h[n] /\ p # n /\ p # q /\ q # n
      /\ p \in DOMAIN g /\ q \in DOMAIN g /\ n \in DOMAIN g
  BY <1>2, <1>3, <1>4
<1>6. WF(g, q) /\ Under(g, q) = {q} /\ Ent(g, q) = {<<key, value>>} /\ Keys(g, q) = {key}
  <2>1. LeafAt(g, q, key, value, ver)
    BY <1>5 DEF LeafAt, newLeafNode, Fields
  <2>2. LeafMade(g, q, key, value)
    BY <1>4, <2>1, MakeLeaf
  <2>. QED  BY <2>2 DEF LeafMade
<1>7. Kept(h, g, n)
  <2>1. \A x \in Under(h, n) : x \in DOMAIN g /\ g[x] = h[x]
    BY <1>2, <1>5
  <2>. QED  BY <1>4, <2>1, KeptOutside
<1>8. Grows(h, g, {n}, ver, cow)
  <2>1. g[p].version = ver /\ g[q].version = ver
    BY <1>4, <1>5 DEF newLeafNode, newBranch
  <2>. QED  BY <1>3, <1>4, <2>1 DEF Grows
<1>9. k \in Key /\ k \in Nat /\ key \in Nat /\ g[n].height = 0 /\ g[n].size = 1
      /\ g[q].height = 0 /\ g[q].size = 1
  BY <1>2, <1>5, KeysAreNumbers DEF NodeType, LeafOK, newLeafNode, k
<1>10. WF(g, p) /\ Under(g, p) = {p, q, n} /\ g[p].height = 1
       /\ Ent(g, p) = Ent(g, q) \cup Ent(g, n)
  <2>1. Keys(g, n) = {k} /\ Under(g, n) = {n} /\ WF(g, n)
    BY <1>2, <1>7 DEF Kept
  <2>2. p \notin Under(g, q) /\ p \notin Under(g, n) /\ Disjoint(g, q, n) /\ Disjoint(g, n, q)
    BY <1>5, <1>6, <2>1 DEF Disjoint
  <2>3. CASE key < k
    <3>1. BranchAt(g, p, q, n, k, ver)
      BY <1>4, <1>5, <1>9, <2>3 DEF BranchAt, newBranch, Fields, Measured, TallerOf
    <3>2. Sorted(g, q, n, k)
      BY <1>6, <1>9, <2>1, <2>3 DEF Sorted
    <3>3. calcBalance(g, p) \in -1 .. 1 /\ TallerOf(g, q, n) = 0
      BY <1>9, <3>1 DEF calcBalance, BranchAt, TallerOf
    <3>4. /\ WF(g, p) /\ g[p].height = TallerOf(g, q, n) + 1
          /\ Under(g, p) = {p} \cup Under(g, q) \cup Under(g, n)
          /\ Ent(g, p) = Ent(g, q) \cup Ent(g, n)
      <4>1. HeapOK(g) /\ WF(g, q) /\ WF(g, n) /\ k \in Key
        BY <1>4, <1>6, <1>9, <2>1
      <4>. QED  BY <2>2, <3>1, <3>2, <3>3, <4>1, Join
    <3>. QED  BY <1>6, <2>1, <3>3, <3>4
  <2>4. CASE ~(key < k)
    <3>1. BranchAt(g, p, n, q, key, ver)
      BY <1>4, <1>5, <1>9, <2>4 DEF BranchAt, newBranch, Fields, Measured, TallerOf
    <3>2. Sorted(g, n, q, key)
      BY <1>6, <1>9, <2>1, <2>4 DEF Sorted, k
    <3>3. calcBalance(g, p) \in -1 .. 1 /\ TallerOf(g, n, q) = 0
      BY <1>9, <3>1 DEF calcBalance, BranchAt, TallerOf
    <3>4. /\ WF(g, p) /\ g[p].height = TallerOf(g, n, q) + 1
          /\ Under(g, p) = {p} \cup Under(g, n) \cup Under(g, q)
          /\ Ent(g, p) = Ent(g, n) \cup Ent(g, q)
      <4>1. HeapOK(g) /\ WF(g, q) /\ WF(g, n) /\ k \in Key
        BY <1>4, <1>6, <1>9, <2>1
      <4>. QED  BY <2>2, <3>1, <3>2, <3>3, <4>1, Join
    <3>. QED  BY <1>6, <2>1, <3>3, <3>4
  <2>. QED  BY <2>3, <2>4
<1>11. Ent(g, p) = Written(Ent(h, n), key, value)
  BY <1>2, <1>6, <1>7, <1>10 DEF Written, Less, Kept
<1>12. Built(h, g, p, Under(h, n), Written(Ent(h, n), key, value), ver, cow)
  BY <1>2, <1>3, <1>4, <1>8, <1>10, <1>11 DEF Built
<1>13. SetDone(h, n, r, key, value, ver, cow)
  <2>1. g[p].height \in {h[n].height, h[n].height + 1}
    BY <1>10
  <2>. QED  BY <1>1, <1>12, <2>1 DEF SetDone
<1>. QED  BY <1>13 DEF r

\* The child c of the branch n has become the tree at q of heap g, and n has
\* been mutated to p, whose fields may have changed since.
Grafts(h, n, c, o, g, q, E, g1, p, k, ver, cow) ==
    /\ {c, o} = {h[n].left, h[n].right}
    /\ Built(h, g, q, Under(h, c), E, ver, cow)
    /\ Mutates(g, n, ver, cow, g1, p)
    /\ DOMAIN k = DOMAIN g1 /\ \A x \in DOMAIN g1 : x # p => k[x] = g1[x]
    /\ k[p].version = ver

Grafted(h, n, o, g, q, E, p, k, ver, cow) ==
    /\ HeapOK(k) /\ Grows(h, k, Under(h, n), ver, cow)
    /\ Kept(h, k, o) /\ Kept(g, k, q) /\ Ent(k, q) = E
    /\ Disjoint(k, q, o) /\ Disjoint(k, o, q)
    /\ p \notin Under(k, q) /\ p \notin Under(k, o)
    /\ ({p} \cup Under(k, q) \cup Under(k, o)) \cap DOMAIN h \subseteq Under(h, n)
    /\ p # q /\ p # o /\ {p, q, o} \subseteq DOMAIN k

LEMMA GraftOK ==
    ASSUME NEW h, HeapOK(h), NEW n, WF(h, n), h[n].height # 0, NEW c, NEW o,
           NEW g, NEW q, NEW E, NEW g1, NEW p, NEW k, NEW ver \in Nat, NEW cow \in Nat, cow < ver,
           Grafts(h, n, c, o, g, q, E, g1, p, k, ver, cow)
    PROVE  Grafted(h, n, o, g, q, E, p, k, ver, cow)
<1>. DEFINE l == h[n].left
            r == h[n].right
<1>1. /\ WF(h, l) /\ WF(h, r) /\ BranchOK(h, n) /\ NodeType(h, n)
      /\ Under(h, n) = {n} \cup Under(h, l) \cup Under(h, r)
      /\ n \notin Under(h, l) /\ n \notin Under(h, r)
      /\ l # r /\ n # l /\ n # r
  BY WFBranch
<1>2. /\ WF(h, c) /\ WF(h, o)
      /\ Under(h, n) = {n} \cup Under(h, c) \cup Under(h, o)
      /\ n \notin Under(h, c) /\ n \notin Under(h, o) /\ Under(h, c) \cap Under(h, o) = {}
  <2>1. (c = l /\ o = r) \/ (c = r /\ o = l)
    BY <1>1 DEF Grafts
  <2>2. Under(h, l) \cap Under(h, r) = {}
    BY <1>1 DEF BranchOK, Disjoint
  <2>3. CASE c = l /\ o = r
    BY <1>1, <2>2, <2>3
  <2>4. CASE c = r /\ o = l
    BY <1>1, <2>2, <2>4
  <2>. QED  BY <2>1, <2>3, <2>4
<1>. HIDE DEF l, r
<1>3. /\ HeapOK(g) /\ DOMAIN h \subseteq DOMAIN g /\ WF(g, q) /\ Ent(g, q) = E
      /\ Under(g, q) \cap DOMAIN h \subseteq Under(h, c) /\ Grows(h, g, Under(h, c), ver, cow)
      /\ \A x \in DOMAIN h : x \notin Under(h, c) => g[x] = h[x]
      /\ Under(g, q) \subseteq DOMAIN g /\ Under(h, c) \subseteq DOMAIN h
      /\ Under(h, o) \subseteq DOMAIN h
  BY DEF Grafts, Built, Grows, Under
<1>4. n \in DOMAIN h /\ g[n] = h[n]
  BY <1>2, <1>3 DEF WF
<1>5. /\ HeapOK(k) /\ DOMAIN k = DOMAIN g \cup {p}
      /\ \A x \in DOMAIN g : x # p => k[x] = g[x]
      /\ p \in DOMAIN g => p = n /\ ~Prot(g, n, cow)
  BY DEF Grafts, Mutates, HeapOK
<1>6. p \notin Under(g, q) /\ p \notin Under(h, o) /\ p \notin Under(h, c)
  BY <1>2, <1>3, <1>4, <1>5
<1>7. Kept(g, k, q)
  <2>1. \A x \in Under(g, q) : x \in DOMAIN k /\ k[x] = g[x]
    BY <1>3, <1>5, <1>6
  <2>. QED  BY <1>3, <1>5, <2>1, KeptOutside
<1>8. Kept(h, k, o)
  <2>1. \A x \in Under(h, o) : x \in DOMAIN k /\ k[x] = h[x]
    BY <1>2, <1>3, <1>5, <1>6
  <2>. QED  BY <1>2, <1>5, <2>1, KeptOutside
<1>9. Grows(g, k, {n}, ver, cow)
  <2>1. k[p].version = ver
    BY DEF Grafts
  <2>. QED  BY <1>5, <2>1 DEF Grows
<1>10. Grows(h, k, Under(h, n), ver, cow)
  <2>1. Grows(h, g, Under(h, n), ver, cow)
    BY <1>2, <1>3 DEF Grows
  <2>2. {n} \cap DOMAIN h \subseteq Under(h, n)
    BY <1>2
  <2>. QED  BY <1>9, <2>1, <2>2, GrowsTwice
<1>11. Under(k, q) = Under(g, q) /\ Under(k, o) = Under(h, o) /\ Ent(k, q) = E
  BY <1>3, <1>7, <1>8 DEF Kept
<1>12. Under(k, q) \cap Under(k, o) = {}
  BY <1>2, <1>3, <1>11
<1>13. ({p} \cup Under(k, q) \cup Under(k, o)) \cap DOMAIN h \subseteq Under(h, n)
  BY <1>2, <1>3, <1>5, <1>11
<1>14. q \in Under(k, q) /\ o \in Under(k, o) /\ q \in DOMAIN k /\ o \in DOMAIN k
  BY <1>7, <1>8, UnderRoot DEF Kept, WF
<1>. QED  BY <1>5, <1>6, <1>7, <1>8, <1>10, <1>11, <1>12, <1>13, <1>14 DEF Grafted, Disjoint

LEMMA WrittenKeys ==
    ASSUME NEW h, NEW n, NEW g, NEW q, NEW key, NEW value,
           Ent(g, q) = Written(Ent(h, n), key, value)
    PROVE  Keys(g, q) = Keys(h, n) \cup {key}
<1>1. Keys(g, q) = {e[1] : e \in Ent(g, q)} /\ Keys(h, n) = {e[1] : e \in Ent(h, n)}
  BY KeysOfEnt
<1>2. ASSUME NEW i \in Keys(g, q) PROVE i \in Keys(h, n) \cup {key}
  <2>1. PICK e \in Ent(g, q) : i = e[1]
    BY <1>1
  <2>2. e \in Ent(h, n) \/ e = <<key, value>>
    BY DEF Written, Less
  <2>. QED  BY <1>1, <2>1, <2>2
<1>3. key \in Keys(g, q)
  <2>1. <<key, value>> \in Ent(g, q) /\ <<key, value>>[1] = key
    BY DEF Written
  <2>. HIDE DEF Written
  <2>. QED  BY <1>1, <2>1
<1>4. ASSUME NEW i \in Keys(h, n) PROVE i \in Keys(g, q)
  <2>1. PICK e \in Ent(h, n) : i = e[1]
    BY <1>1
  <2>2. CASE i = key
    BY <1>3, <2>2
  <2>3. CASE i # key
    <3>1. e \in Ent(g, q)
      BY <2>1, <2>3 DEF Written, Less
    <3>. QED  BY <1>1, <2>1, <3>1
  <2>. QED  BY <2>2, <2>3
<1>. QED  BY <1>2, <1>3, <1>4

\* The height after reBalance when one child, of height i before, has height j
\* and the other one height o.
Heights(i, j, o, old, t, new) ==
    /\ i \in Nat /\ j \in Nat /\ o \in Nat /\ old \in Nat /\ t \in Nat /\ new \in Nat
    /\ i - o \in -1 .. 1 /\ old = (IF i > o THEN i ELSE o) + 1
    /\ t = (IF j > o THEN j ELSE o)
    /\ new \in {t, t + 1} /\ (j - o \in -1 .. 1 => new = t + 1)

LEMMA HeightAfter ==
    ASSUME NEW i, NEW j, NEW o, NEW old, NEW t, NEW new, Heights(i, j, o, old, t, new)
    PROVE  /\ j \in {i, i + 1} => new \in {old, old + 1}
           /\ j \in {i, i - 1} => new = old \/ new + 1 = old
  BY DEF Heights

LEMMA SetBranchOK ==
    ASSUME NEW h, HeapOK(h), NEW n, WF(h, n), h[n].height # 0,
           NEW key \in Key, NEW value \in Value, NEW ver \in Nat, NEW cow \in Nat, cow < ver,
           NEW c, SetDone(h, Child(h, n, key), c, key, value, ver, cow)
    PROVE  SetDone(h, n, setBranch(h, n, key, c, ver, cow), key, value, ver, cow)
<1>. DEFINE l  == h[n].left
            r  == h[n].right
            d  == Child(h, n, key)
            o  == IF key < h[n].key THEN r ELSE l
            q  == c.node
            g  == c.heap
            E  == Written(Ent(h, d), key, value)
            m  == Mutate(g, n, ver, cow)
            g1 == m.heap
            p  == m.node
            lk == IF key < h[n].key THEN q ELSE l
            rk == IF key < h[n].key THEN r ELSE q
            h1 == IF key < h[n].key THEN [g1 EXCEPT ![p].left = q] ELSE [g1 EXCEPT ![p].right = q]
            k  == IF c.updated THEN h1 ELSE updateHeightSize(h1, p)
            R  == IF c.updated THEN [heap |-> h1, node |-> p] ELSE reBalance(k, p, ver, cow)
            res == setBranch(h, n, key, c, ver, cow)
<1>1. /\ WF(h, l) /\ WF(h, r) /\ BranchOK(h, n) /\ NodeType(h, n)
      /\ NodeType(h, l) /\ NodeType(h, r)
      /\ n \notin Under(h, l) /\ n \notin Under(h, r) /\ n \in DOMAIN h
      /\ l \in DOMAIN h /\ r \in DOMAIN h /\ l # r /\ n # l /\ n # r
      /\ Ent(h, n) = Ent(h, l) \cup Ent(h, r)
      /\ Keys(h, n) = Keys(h, l) \cup Keys(h, r)
  BY WFBranch DEF WF
<1>2. res.heap = R.heap /\ res.node = R.node /\ res.updated = c.updated
  BY DEF setBranch
<1>3. /\ Built(h, g, q, Under(h, d), E, ver, cow) /\ c.updated \in BOOLEAN
      /\ c.updated => g[q].height = h[d].height /\ g[q].size = h[d].size
      /\ g[q].height \in {h[d].height, h[d].height + 1}
  BY DEF SetDone
<1>4. (key < h[n].key /\ d = l /\ o = r /\ lk = q /\ rk = r)
      \/ (~(key < h[n].key) /\ d = r /\ o = l /\ lk = l /\ rk = q)
  BY DEF Child
<1>. HIDE DEF res, R, d, E
<1>5. Mutates(g, n, ver, cow, g1, p)
  <2>1. HeapOK(g) /\ n \in DOMAIN g /\ g[n] = h[n]
    BY <1>1, <1>3, <1>4 DEF Built, Grows
  <2>. QED  BY <1>1, <2>1, MutateFacts DEF NodeType
<1>6. g[n] = h[n]
  BY <1>1, <1>3, <1>4 DEF Built, Grows
<1>. HIDE DEF m, g1, p
<1>7. /\ DOMAIN h1 = DOMAIN g1 /\ \A x \in DOMAIN g1 : x # p => h1[x] = g1[x]
      /\ Mutated(h1, p, ver) /\ h1[p].left = lk /\ h1[p].right = rk
      /\ h1[p].key = h[n].key /\ h1[p].value = NoValue
      /\ h1[p].height = h[n].height /\ h1[p].size = h[n].size
  <2>1. /\ p \in DOMAIN g1 /\ Mutated(g1, p, ver) /\ SameNode(g1[p], h[n])
    BY <1>5, <1>6 DEF Mutates, Mutated
  <2>2. h[n].value = NoValue
    BY <1>1 DEF BranchOK
  <2>. HIDE DEF q
  <2>3. CASE key < h[n].key
    <3>1. h1 = [g1 EXCEPT ![p].left = q] /\ lk = q /\ rk = r
      BY <2>3
    <3>. HIDE DEF h1, lk, rk
    <3>2. DOMAIN h1 = DOMAIN g1 /\ (\A x \in DOMAIN g1 : x # p => h1[x] = g1[x])
          /\ h1[p] = [g1[p] EXCEPT !.left = q]
      BY <2>1, <3>1
    <3>. QED  BY <2>1, <2>2, <3>1, <3>2 DEF Mutated, SameNode, Fields
  <2>4. CASE ~(key < h[n].key)
    <3>1. h1 = [g1 EXCEPT ![p].right = q] /\ lk = l /\ rk = q
      BY <2>4
    <3>. HIDE DEF h1, lk, rk
    <3>2. DOMAIN h1 = DOMAIN g1 /\ (\A x \in DOMAIN g1 : x # p => h1[x] = g1[x])
          /\ h1[p] = [g1[p] EXCEPT !.right = q]
      BY <2>1, <3>1
    <3>. QED  BY <2>1, <2>2, <3>1, <3>2 DEF Mutated, SameNode, Fields
  <2>. QED  BY <2>3, <2>4
<1>8. (k = h1 /\ c.updated) \/ (k = updateHeightSize(h1, p) /\ ~c.updated)
  OBVIOUS
<1>. HIDE DEF h1, g, q, o, lk, rk, k
<1>9. {d, o} = {h[n].left, h[n].right} /\ {lk, rk} = {q, o}
  BY <1>4
<1>10. Grafted(h, n, o, g, q, E, p, h1, ver, cow)
  <2>1. Grafts(h, n, d, o, g, q, E, g1, p, h1, ver, cow)
    BY <1>3, <1>5, <1>7, <1>9 DEF Grafts, Mutated
  <2>. QED  BY <2>1, GraftOK
<1>11. /\ DOMAIN k = DOMAIN h1 /\ (\A x \in DOMAIN h1 : x # p => k[x] = h1[x])
       /\ SameBranch(k[p], h1[p]) /\ (~c.updated => Measured(k, p))
  <2>1. CASE c.updated
    BY <1>8, <2>1 DEF SameBranch
  <2>2. CASE ~c.updated
    <3>1. p \in DOMAIN h1 /\ DOMAIN h1[p] = Fields /\ lk # p /\ rk # p
          /\ lk \in DOMAIN h1 /\ rk \in DOMAIN h1
      BY <1>7, <1>9, <1>10 DEF Grafted, Mutated
    <3>2. k = updateHeightSize(h1, p)
      BY <1>8, <2>2
    <3>. QED  BY <1>7, <3>1, <3>2, UpdateFacts
  <2>. QED  BY <2>1, <2>2
<1>12. /\ HeapOK(k) /\ Grows(h, k, Under(h, n), ver, cow)
       /\ Kept(h, k, o) /\ Kept(g, k, q) /\ Ent(k, q) = E
       /\ Disjoint(k, q, o) /\ Disjoint(k, o, q)
       /\ p \notin Under(k, q) /\ p \notin Under(k, o)
       /\ ({p} \cup Under(k, q) \cup Under(k, o)) \cap DOMAIN h \subseteq Under(h, n)
  <2>1. Grafts(h, n, d, o, g, q, E, g1, p, k, ver, cow)
    BY <1>3, <1>5, <1>7, <1>9, <1>11 DEF Grafts, Mutated, SameBranch
  <2>2. Grafted(h, n, o, g, q, E, p, k, ver, cow)
    BY <2>1, GraftOK
  <2>. QED  BY <2>2 DEF Grafted
<1>13. /\ k[q] = g[q] /\ k[o] = h[o] /\ k[q].height \in Nat /\ h[o].height \in Nat
       /\ h[d].height \in Nat /\ h[n].height \in Nat
  BY <1>1, <1>4, <1>12 DEF Kept, NodeType
<1>14. /\ h[n].height = (IF h[d].height > h[o].height THEN h[d].height ELSE h[o].height) + 1
       /\ h[d].height - h[o].height \in -1 .. 1
       /\ h[n].size = h[l].size + h[r].size /\ h[l].size \in Nat /\ h[r].size \in Nat
  <2>1. h[n].height = TallerOf(h, l, r) + 1 /\ h[l].height - h[r].height \in -1 .. 1
        /\ h[n].size = h[l].size + h[r].size
        /\ h[l].height \in Nat /\ h[r].height \in Nat
        /\ h[l].size \in Nat /\ h[r].size \in Nat
    BY <1>1 DEF BranchOK, Measured, calcBalance, NodeType
  <2>2. (d = l /\ o = r) \/ (d = r /\ o = l)
    BY <1>4
  <2>. QED  BY <2>1, <2>2 DEF TallerOf
<1>15. TallerOf(k, lk, rk) = IF k[q].height > h[o].height THEN k[q].height ELSE h[o].height
  BY <1>4, <1>13 DEF TallerOf
<1>16. c.updated => Measured(k, p) /\ k[p].height = h[n].height /\ k[p].size = h[n].size
  <2>. SUFFICES ASSUME c.updated
                PROVE  Measured(k, p) /\ k[p].height = h[n].height /\ k[p].size = h[n].size
    OBVIOUS
  <2>1. k = h1 /\ k[q].height = h[d].height /\ k[q].size = h[d].size
    BY <1>3, <1>8, <1>13
  <2>2. k[p].height = h[n].height /\ k[p].size = h[n].size /\ k[p].left = lk /\ k[p].right = rk
    BY <1>7, <2>1
  <2>3. k[p].height = TallerOf(k, lk, rk) + 1
    BY <1>14, <1>15, <2>1, <2>2
  <2>4. k[p].size = k[lk].size + k[rk].size
    BY <1>4, <1>13, <1>14, <2>1, <2>2
  <2>. QED  BY <2>2, <2>3, <2>4 DEF Measured
<1>17. BranchAt(k, p, lk, rk, h[n].key, ver)
  <2>1. Measured(k, p) /\ p \in DOMAIN k
    BY <1>3, <1>7, <1>11, <1>16 DEF Mutated
  <2>. QED  BY <1>7, <1>11, <2>1 DEF BranchAt, Mutated, SameBranch
<1>18. h[n].key \in Key /\ h[n].key \in Nat /\ key \in Nat
  BY <1>1, KeysAreNumbers DEF NodeType
<1>19. Keys(k, q) = Keys(h, d) \cup {key} /\ Keys(k, o) = Keys(h, o)
  BY <1>12, WrittenKeys DEF E, Kept
<1>20. Sorted(h, l, r, h[n].key)
  BY <1>1 DEF BranchOK
<1>21. Sorted(k, lk, rk, h[n].key)
  <2>1. CASE key < h[n].key
    BY <1>4, <1>19, <1>20, <2>1 DEF Sorted
  <2>2. CASE ~(key < h[n].key)
    BY <1>4, <1>18, <1>19, <1>20, <2>2 DEF Sorted
  <2>. QED  BY <2>1, <2>2
<1>22. Pair(k, p, lk, rk, h[n].key, ver)
  <2>1. WF(k, q) /\ WF(k, o)
    BY <1>12 DEF Kept
  <2>. QED  BY <1>4, <1>12, <1>17, <1>21, <2>1 DEF Pair
<1>23. /\ k[lk].height - k[rk].height \in -2 .. 2
       /\ k[q].height - h[o].height \in -1 .. 1 => k[lk].height - k[rk].height \in -1 .. 1
       /\ calcBalance(k, p) = k[lk].height - k[rk].height
       /\ calcBalance(k, p) \in -1 .. 1 => k[q].height - h[o].height \in -1 .. 1
  <2>1. k[q].height \in {h[d].height, h[d].height + 1}
    BY <1>3, <1>13
  <2>2. calcBalance(k, p) = k[lk].height - k[rk].height
    BY <1>17 DEF calcBalance, BranchAt
  <2>3. (lk = q /\ rk = o) \/ (lk = o /\ rk = q)
    BY <1>4
  <2>. QED  BY <1>13, <1>14, <2>1, <2>2, <2>3
<1>24. Balanced(k, p, lk, rk, ver, cow, R.heap, R.node)
  <2>1. CASE c.updated
    <3>1. R.heap = k /\ R.node = p
      BY <1>8, <2>1 DEF R
    <3>2. calcBalance(k, p) \in -1 .. 1
      BY <1>3, <1>13, <1>14, <1>23, <2>1
    <3>. QED  BY <1>12, <1>18, <1>22, <3>1, <3>2, NotUnbalanced
  <2>2. CASE ~c.updated
    <3>1. R = reBalance(k, p, ver, cow)
      BY <2>2 DEF R
    <3>. QED  BY <1>12, <1>18, <1>22, <1>23, <3>1, ReBalanceOK
  <2>. QED  BY <2>1, <2>2
<1>25. Built(h, R.heap, R.node, Under(h, n), Ent(k, lk) \cup Ent(k, rk), ver, cow)
  <2>1. PairNodes(k, p, lk, rk) \cap DOMAIN h \subseteq Under(h, n)
    BY <1>4, <1>12 DEF PairNodes
  <2>. QED  BY <1>12, <1>24, <2>1, BuiltOn DEF Balanced
<1>26. Ent(k, lk) \cup Ent(k, rk) = Written(Ent(h, n), key, value)
  <2>1. Ent(k, lk) \cup Ent(k, rk) = Written(Ent(h, d), key, value) \cup Ent(h, o)
    BY <1>4, <1>12 DEF Kept, E
  <2>2. Ent(h, n) = Ent(h, d) \cup Ent(h, o)
    BY <1>1, <1>4
  <2>3. ASSUME NEW e \in Ent(h, o) PROVE e[1] # key
    <3>1. e[1] \in Keys(h, o)
      BY KeysOfEnt
    <3>. QED  BY <1>4, <1>18, <1>20, <3>1 DEF Sorted
  <2>. QED  BY <2>1, <2>2, <2>3 DEF Written, Less
<1>27. R.heap[R.node].height \in {h[n].height, h[n].height + 1}
  <2>. DEFINE new == R.heap[R.node].height
              t == TallerOf(k, lk, rk)
  <2>1. t \in Nat /\ t = IF k[q].height > h[o].height THEN k[q].height ELSE h[o].height
    BY <1>13, <1>15
  <2>2. new \in {t, t + 1} /\ (k[q].height - h[o].height \in -1 .. 1 => new = t + 1)
    BY <1>23, <1>24 DEF Balanced
  <2>3. new \in Nat /\ k[q].height \in {h[d].height, h[d].height + 1}
    BY <1>3, <1>13, <2>1, <2>2
  <2>. HIDE DEF new, t
  <2>4. new \in {h[n].height, h[n].height + 1}
    <3>1. Heights(h[d].height, k[q].height, h[o].height, h[n].height, t, new)
      BY <1>13, <1>14, <2>1, <2>2, <2>3 DEF Heights
    <3>. QED  BY <2>3, <3>1, HeightAfter
  <2>. QED  BY <2>4 DEF new
<1>28. c.updated => R.heap[R.node].height = h[n].height /\ R.heap[R.node].size = h[n].size
  BY <1>8, <1>16 DEF R
<1>29. SetDone(h, n, res, key, value, ver, cow)
  BY <1>2, <1>3, <1>25, <1>26, <1>27, <1>28 DEF SetDone
<1>. QED  BY <1>29 DEF res

-----------------------------------------------------------------------------
(***************************************************************************)
(* The recursive functions on the addresses of a heap exist when all its   *)
(* nodes are well-formed: a child is lower than its parent.                *)
(***************************************************************************)
AllOK(h) == HeapOK(h) /\ \A x \in DOMAIN h : NodeOK(h, x)

Low(h, d) == {n \in DOMAIN h : h[n].height < d}

LEMMA AllWF ==
    ASSUME NEW h, AllOK(h), NEW n \in DOMAIN h
    PROVE  WF(h, n)
  BY DEF AllOK, WF, Under

LEMMA ChildLower ==
    ASSUME NEW h, AllOK(h), NEW n \in DOMAIN h, h[n].height # 0, NEW c \in {h[n].left, h[n].right}
    PROVE  c \in DOMAIN h /\ h[c].height < h[n].height
<1>1. BranchOK(h, n) /\ NodeType(h, n) /\ c \in DOMAIN h
  BY DEF AllOK, NodeOK, BranchOK
<1>2. NodeType(h, h[n].left) /\ NodeType(h, h[n].right)
  BY <1>1 DEF AllOK, NodeOK, BranchOK
<1>. QED  BY <1>1, <1>2 DEF BranchOK, Measured, TallerOf, NodeType

LEMMA SetOfNaturals ==
    ASSUME NEW T, 0 \in T, \A n \in Nat : n \in T => n + 1 \in T
    PROVE  Nat \subseteq T
<1>. DEFINE Bad == Nat \ T
<1>1. CASE Bad # {}
  <2>1. PICK m \in Bad : \A n \in Bad : m =< n
    BY <1>1, LeastNatural
  <2>2. m # 0 /\ m \in Nat /\ m \notin T
    BY <2>1
  <2>3. m - 1 \in Nat /\ (m - 1) + 1 = m /\ ~(m =< m - 1)
    BY <2>2
  <2>4. m - 1 \in T
    BY <2>1, <2>3
  <2>. QED  BY <2>2, <2>3, <2>4
<1>. QED  BY <1>1

LEMMA HeightsBounded ==
    ASSUME NEW h, AllOK(h)
    PROVE  \E d \in Nat : Low(h, d) = DOMAIN h
<1>. DEFINE H == {h[n].height : n \in DOMAIN h}
<1>1. H \in SUBSET Int /\ H \subseteq Nat
  BY DEF AllOK, NodeOK, NodeType
<1>2. IsFiniteSet(H)
  <2>. DEFINE f == [n \in DOMAIN h |-> h[n].height]
  <2>1. f \in Surjection(DOMAIN h, H)
    BY DEF Surjection
  <2>2. IsFiniteSet(DOMAIN h)
    BY DEF AllOK, HeapOK
  <2>. HIDE DEF f, H
  <2>. QED  BY <2>1, <2>2, FS_Surjection
<1>3. CASE H = {}
  <2>1. DOMAIN h = {}
    BY <1>3
  <2>. QED  BY <2>1 DEF Low
<1>4. CASE H # {}
  <2>1. PICK m \in H : \A n \in H : n =< m
    <3>. HIDE DEF H
    <3>. QED  BY <1>1, <1>2, <1>4, FiniteGreatest
  <2>2. m + 1 \in Nat /\ \A n \in H : n < m + 1
    <3>. HIDE DEF H
    <3>. QED  BY <1>1, <2>1
  <2>3. Low(h, m + 1) = DOMAIN h
    BY <2>2 DEF Low
  <2>. QED  BY <2>2, <2>3
<1>. QED  BY <1>3, <1>4

SetBody(h, key, value, ver, cow, f, n) ==
    IF ~IsLeaf(h, n)
      THEN setBranch(h, n, key, f[Child(h, n, key)], ver, cow)
      ELSE IF key = h[n].key THEN updateLeaf(h, n, value, ver, cow)
           ELSE splitLeaf(h, n, key, value, ver)

LEMMA SetEquation ==
    ASSUME NEW h, AllOK(h), NEW key, NEW value, NEW ver, NEW cow, NEW n \in DOMAIN h
    PROVE  SetAt(h, key, value, ver, cow)[n]
               = SetBody(h, key, value, ver, cow, SetAt(h, key, value, ver, cow), n)
<1>. DEFINE Body(f, x) == SetBody(h, key, value, ver, cow, f, x)
            Is(f, S) == f = [x \in S |-> Body(f, x)]
            T == {d \in Nat : \E f : Is(f, Low(h, d))}
<1>1. 0 \in T
  <2>1. Low(h, 0) = {}
    BY DEF Low, AllOK, NodeOK, NodeType
  <2>2. Is([x \in {} |-> 0], {})
    OBVIOUS
  <2>. QED  BY <2>1, <2>2
<1>2. ASSUME NEW d \in Nat, d \in T PROVE d + 1 \in T
  <2>1. PICK f : Is(f, Low(h, d))
    BY <1>2
  <2>. DEFINE g == [x \in Low(h, d + 1) |-> Body(f, x)]
  <2>2. ASSUME NEW x \in Low(h, d + 1) PROVE Body(g, x) = Body(f, x)
    <3>1. CASE IsLeaf(h, x)
      BY <3>1 DEF SetBody
    <3>2. CASE ~IsLeaf(h, x)
      <4>. DEFINE c == Child(h, x, key)
      <4>1. x \in DOMAIN h /\ h[x].height < d + 1 /\ h[x].height # 0 /\ h[x].height \in Nat
        BY <3>2 DEF Low, IsLeaf, AllOK, NodeOK, NodeType
      <4>2. c \in DOMAIN h /\ h[c].height < h[x].height
        BY <4>1, ChildLower DEF Child
      <4>3. h[c].height \in Nat
        BY <4>2 DEF AllOK, NodeOK, NodeType
      <4>4. c \in Low(h, d) /\ c \in Low(h, d + 1)
        BY <4>1, <4>2, <4>3 DEF Low
      <4>5. g[c] = f[c]
        <5>. HIDE DEF Body, c
        <5>. QED  BY <2>1, <4>4
      <4>. QED  BY <3>2, <4>5 DEF SetBody
    <3>. QED  BY <3>1, <3>2
  <2>3. Is(g, Low(h, d + 1))
    <3>. HIDE DEF Body
    <3>. QED  BY <2>2
  <2>4. \E ff : Is(ff, Low(h, d + 1))
    <3>. HIDE DEF Is, g
    <3>. QED  BY <2>3
  <2>. QED  BY <2>4
<1>3. PICK d \in Nat : Low(h, d) = DOMAIN h
  BY HeightsBounded
<1>4. d \in T
  <2>. HIDE DEF T
  <2>. QED  BY <1>1, <1>2, SetOfNaturals
<1>5. \E f : Is(f, DOMAIN h)
  BY <1>3, <1>4
<1>6. SetAt(h, key, value, ver, cow) = CHOOSE f : Is(f, DOMAIN h)
  BY DEF SetAt, SetBody
<1>7. Is(SetAt(h, key, value, ver, cow), DOMAIN h)
  <2>. HIDE DEF Is
  <2>. QED  BY <1>5, <1>6
<1>. QED  BY <1>7

\* setRecursive is right for every tree of a heap of well-formed nodes.
LEMMA SetAtOK ==
    ASSUME NEW h, AllOK(h), NEW key \in Key, NEW value \in Value,
           NEW ver \in Nat, NEW cow \in Nat, cow < ver, NEW n \in DOMAIN h
    PROVE  SetDone(h, n, SetAt(h, key, value, ver, cow)[n], key, value, ver, cow)
<1>. DEFINE Done(x) == SetDone(h, x, SetAt(h, key, value, ver, cow)[x], key, value, ver, cow)
            T == {d \in Nat : \A x \in Low(h, d) : Done(x)}
<1>1. 0 \in T
  <2>1. Low(h, 0) = {}
    BY DEF Low, AllOK, NodeOK, NodeType
  <2>. QED  BY <2>1
<1>2. ASSUME NEW d \in Nat, d \in T PROVE d + 1 \in T
  <2>1. ASSUME NEW x \in Low(h, d + 1) PROVE Done(x)
    <3>. DEFINE f == SetAt(h, key, value, ver, cow)
    <3>1. x \in DOMAIN h /\ h[x].height < d + 1 /\ h[x].height \in Nat /\ WF(h, x) /\ HeapOK(h)
      BY AllWF DEF Low, AllOK, NodeOK, NodeType
    <3>2. f[x] = SetBody(h, key, value, ver, cow, f, x)
      BY <3>1, SetEquation
    <3>. HIDE DEF f
    <3>3. CASE h[x].height = 0 /\ key = h[x].key
      <4>1. f[x] = updateLeaf(h, x, value, ver, cow)
        BY <3>2, <3>3 DEF SetBody, IsLeaf
      <4>2. SetDone(h, x, f[x], h[x].key, value, ver, cow)
        BY <3>1, <3>3, <4>1, UpdateLeafOK
      <4>. QED  BY <3>3, <4>2 DEF f
    <3>4. CASE h[x].height = 0 /\ key # h[x].key
      <4>1. f[x] = splitLeaf(h, x, key, value, ver)
        BY <3>2, <3>4 DEF SetBody, IsLeaf
      <4>2. SetDone(h, x, f[x], key, value, ver, cow)
        BY <3>1, <3>4, <4>1, SplitLeafOK
      <4>. QED  BY <4>2 DEF f
    <3>5. CASE h[x].height # 0
      <4>. DEFINE c == Child(h, x, key)
      <4>1. f[x] = setBranch(h, x, key, f[c], ver, cow)
        BY <3>2, <3>5 DEF SetBody, IsLeaf
      <4>2. c \in DOMAIN h /\ h[c].height < h[x].height
        BY <3>1, <3>5, ChildLower DEF Child
      <4>3. h[c].height \in Nat
        BY <4>2 DEF AllOK, NodeOK, NodeType
      <4>4. c \in Low(h, d)
        BY <3>1, <4>2, <4>3 DEF Low
      <4>5. SetDone(h, c, f[c], key, value, ver, cow)
        BY <1>2, <4>4 DEF f
      <4>6. SetDone(h, x, f[x], key, value, ver, cow)
        BY <3>1, <3>5, <4>1, <4>5, SetBranchOK
      <4>. QED  BY <4>6 DEF f
    <3>. QED  BY <3>3, <3>4, <3>5
  <2>. QED  BY <2>1
<1>3. PICK d \in Nat : Low(h, d) = DOMAIN h
  BY HeightsBounded
<1>4. d \in T
  <2>. HIDE DEF T
  <2>. QED  BY <1>1, <1>2, SetOfNaturals
<1>. QED  BY <1>3, <1>4

-----------------------------------------------------------------------------
(***************************************************************************)
(* removeRecursive.                                                        *)
(***************************************************************************)
Smallest(K, key) == key \in K /\ \A i \in K : key =< i

\* What removeRecursive promises of its result r = [heap, node, value, newKey]
\* for the tree at m.
RemoveDone(h, m, r, key, ver, cow) ==
    /\ r.value = NoValue =>
          r.heap = h /\ r.node = m /\ r.newKey = NoKey /\ key \notin Keys(h, m)
    /\ r.value # NoValue /\ r.node = Nil =>
          r.heap = h /\ h[m].height = 0 /\ h[m].key = key
    /\ r.value # NoValue /\ r.node # Nil =>
          /\ Built(h, r.heap, r.node, Under(h, m), Less(Ent(h, m), key), ver, cow)
          /\ r.heap[r.node].height \in {h[m].height, h[m].height - 1}
          /\ r.newKey # NoKey => Smallest(Keys(r.heap, r.node), r.newKey)
          /\ r.newKey = NoKey => ~Smallest(Keys(h, m), key)

LEMMA LessKeys ==
    ASSUME NEW h, NEW n, NEW g, NEW q, NEW key, Ent(g, q) = Less(Ent(h, n), key)
    PROVE  Keys(g, q) = Keys(h, n) \ {key}
<1>1. Keys(g, q) = {e[1] : e \in Ent(g, q)} /\ Keys(h, n) = {e[1] : e \in Ent(h, n)}
  BY KeysOfEnt
<1>2. ASSUME NEW i \in Keys(g, q) PROVE i \in Keys(h, n) \ {key}
  BY <1>1 DEF Less
<1>3. ASSUME NEW i \in Keys(h, n), i # key PROVE i \in Keys(g, q)
  <2>1. PICK e \in Ent(h, n) : i = e[1]
    BY <1>1
  <2>2. e \in Ent(g, q)
    BY <1>3, <2>1 DEF Less
  <2>. QED  BY <1>1, <2>1, <2>2
<1>. QED  BY <1>2, <1>3

LEMMA RemoveLeafOK ==
    ASSUME NEW h, HeapOK(h), NEW n, WF(h, n), h[n].height = 0, NEW key \in Key, NEW ver, NEW cow
    PROVE  RemoveDone(h, n, removeLeaf(h, n, key), key, ver, cow)
<1>1. /\ LeafOK(h, n) /\ Keys(h, n) = {h[n].key} /\ n # Nil
  BY LeafTree DEF WF, HeapOK
<1>2. h[n].value # NoValue
  BY <1>1, TreeAssumption DEF LeafOK
<1>3. CASE h[n].key = key
  <2>1. removeLeaf(h, n, key) = [heap |-> h, node |-> Nil, value |-> h[n].value, newKey |-> NoKey]
    BY <1>3 DEF removeLeaf
  <2>. QED  BY <1>2, <1>3, <2>1 DEF RemoveDone
<1>4. CASE h[n].key # key
  <2>1. removeLeaf(h, n, key) = [heap |-> h, node |-> n, value |-> NoValue, newKey |-> NoKey]
    BY <1>4 DEF removeLeaf
  <2>. QED  BY <1>1, <1>4, <2>1 DEF RemoveDone
<1>. QED  BY <1>3, <1>4

\* Nothing was removed below, or the child was the leaf of the key.
LEMMA RemoveBranchShort ==
    ASSUME NEW h, HeapOK(h), NEW n, WF(h, n), h[n].height # 0,
           NEW key \in Key, NEW ver \in Nat, NEW cow \in Nat, cow < ver,
           NEW c, RemoveDone(h, Child(h, n, key), c, key, ver, cow),
           c.value = NoValue \/ c.node = Nil
    PROVE  RemoveDone(h, n, removeBranch(h, n, key, c, ver, cow), key, ver, cow)
<1>. DEFINE l  == h[n].left
            r  == h[n].right
            d  == Child(h, n, key)
            res == removeBranch(h, n, key, c, ver, cow)
<1>1. /\ WF(h, l) /\ WF(h, r) /\ BranchOK(h, n) /\ NodeType(h, n)
      /\ NodeType(h, l) /\ NodeType(h, r)
      /\ Under(h, n) = {n} \cup Under(h, l) \cup Under(h, r)
      /\ l \in DOMAIN h /\ r \in DOMAIN h /\ n \in DOMAIN h
      /\ Ent(h, n) = Ent(h, l) \cup Ent(h, r)
      /\ Keys(h, n) = Keys(h, l) \cup Keys(h, r)
  BY WFBranch DEF WF
<1>2. /\ \A i \in Keys(h, l) : i < h[n].key /\ i \in Nat
      /\ \A i \in Keys(h, r) : h[n].key =< i /\ i \in Nat
      /\ h[n].key \in Keys(h, r) /\ h[n].key \in Nat /\ key \in Nat /\ Keys(h, l) # {}
  BY <1>1, KeysTyped, KeysAreNumbers DEF BranchOK, Sorted, NodeType
<1>3. CASE c.value = NoValue
  <2>1. res = [heap |-> h, node |-> n, value |-> NoValue, newKey |-> NoKey]
    BY <1>3, Zenon DEF removeBranch
  <2>2. key \notin Keys(h, d)
    BY <1>3 DEF RemoveDone
  <2>3. key \notin Keys(h, n)
    BY <1>1, <1>2, <2>2 DEF Child
  <2>. QED  BY <2>1, <2>3 DEF RemoveDone
<1>4. CASE c.value # NoValue /\ c.node = Nil
  <2>. DEFINE o == IF key < h[n].key THEN r ELSE l
              new == IF key < h[n].key THEN h[n].key ELSE NoKey
  <2>1. c.heap = h /\ h[d].height = 0 /\ h[d].key = key
    BY <1>4 DEF RemoveDone
  <2>2. res = [heap |-> h, value |-> c.value, node |-> o, newKey |-> new]
    BY <1>4, <2>1, Zenon DEF removeBranch
  <2>3. WF(h, d) /\ Ent(h, n) = Ent(h, d) \cup Ent(h, o) /\ WF(h, o) /\ o \in DOMAIN h
        /\ Under(h, o) \subseteq Under(h, n)
    BY <1>1 DEF Child
  <2>4. Ent(h, d) = {<<key, h[d].value>>}
    BY <2>1, <2>3, LeafTree
  <2>5. ASSUME NEW e \in Ent(h, o) PROVE e[1] # key
    <3>1. e[1] \in Keys(h, o)
      BY KeysOfEnt
    <3>. QED  BY <1>2, <3>1
  <2>6. Ent(h, o) = Less(Ent(h, n), key)
    BY <2>3, <2>4, <2>5 DEF Less
  <2>7. Built(h, h, o, Under(h, n), Less(Ent(h, n), key), ver, cow)
    BY <2>3, <2>6 DEF Built, Grows
  <2>8. h[o].height \in {h[n].height, h[n].height - 1}
    <3>1. /\ h[n].height = TallerOf(h, l, r) + 1 /\ h[l].height - h[r].height \in -1 .. 1
          /\ h[l].height \in Nat /\ h[r].height \in Nat
      BY <1>1 DEF BranchOK, Measured, calcBalance, NodeType
    <3>2. (d = l /\ o = r) \/ (d = r /\ o = l)
      BY DEF Child
    <3>. HIDE DEF d, o, l, r
    <3>. QED  BY <2>1, <3>1, <3>2 DEF TallerOf
  <2>9. new # NoKey => Smallest(Keys(h, o), new)
    BY <1>2 DEF Smallest, NoKey
  <2>10. new = NoKey => ~Smallest(Keys(h, n), key)
    <3>. SUFFICES ASSUME new = NoKey PROVE ~Smallest(Keys(h, n), key)
      OBVIOUS
    <3>1. ~(key < h[n].key)
      BY <1>2 DEF NoKey
    <3>2. PICK i \in Keys(h, l) : i < h[n].key /\ i \in Nat
      BY <1>2
    <3>. QED  BY <1>1, <1>2, <3>1, <3>2 DEF Smallest
  <2>11. o # Nil
    BY <2>3 DEF HeapOK
  <2>. HIDE DEF res, o, new
  <2>12. res.heap = h /\ res.value = c.value /\ res.node = o /\ res.newKey = new
    BY <2>2
  <2>13. RemoveDone(h, n, res, key, ver, cow)
    BY <1>4, <2>7, <2>8, <2>9, <2>10, <2>11, <2>12 DEF RemoveDone
  <2>. QED  BY <2>13 DEF res
<1>. QED  BY <1>3, <1>4

LEMMA RemoveBranchLong ==
    ASSUME NEW h, HeapOK(h), NEW n, WF(h, n), h[n].height # 0,
           NEW key \in Key, NEW ver \in Nat, NEW cow \in Nat, cow < ver,
           NEW c, RemoveDone(h, Child(h, n, key), c, key, ver, cow),
           c.value # NoValue, c.node # Nil
    PROVE  RemoveDone(h, n, removeBranch(h, n, key, c, ver, cow), key, ver, cow)
<1>. DEFINE l  == h[n].left
            r  == h[n].right
            d  == Child(h, n, key)
            o  == IF key < h[n].key THEN r ELSE l
            q  == c.node
            g  == c.heap
            E  == Less(Ent(h, d), key)
            m  == Mutate(g, n, ver, cow)
            g1 == m.heap
            p  == m.node
            lk == IF key < h[n].key THEN q ELSE l
            rk == IF key < h[n].key THEN r ELSE q
            kk == IF key < h[n].key THEN h[n].key ELSE IF c.newKey # NoKey THEN c.newKey ELSE h[n].key
            h1 == IF key < h[n].key
                    THEN [g1 EXCEPT ![p].left = q]
                    ELSE [g1 EXCEPT ![p].right = q,
                                    ![p].key = IF c.newKey # NoKey THEN c.newKey ELSE @]
            k  == updateHeightSize(h1, p)
            R  == reBalance(k, p, ver, cow)
            new == IF key < h[n].key THEN c.newKey ELSE NoKey
            res == removeBranch(h, n, key, c, ver, cow)
<1>1. /\ WF(h, l) /\ WF(h, r) /\ BranchOK(h, n) /\ NodeType(h, n)
      /\ NodeType(h, l) /\ NodeType(h, r)
      /\ n \notin Under(h, l) /\ n \notin Under(h, r) /\ n \in DOMAIN h
      /\ l \in DOMAIN h /\ r \in DOMAIN h /\ l # r /\ n # l /\ n # r
      /\ Ent(h, n) = Ent(h, l) \cup Ent(h, r)
      /\ Keys(h, n) = Keys(h, l) \cup Keys(h, r)
  BY WFBranch DEF WF
<1>2. res = [heap |-> R.heap, node |-> R.node, value |-> c.value, newKey |-> new]
  BY Zenon DEF removeBranch
<1>3. /\ Built(h, g, q, Under(h, d), E, ver, cow)
      /\ g[q].height \in {h[d].height, h[d].height - 1}
      /\ c.newKey # NoKey => Smallest(Keys(g, q), c.newKey)
      /\ c.newKey = NoKey => ~Smallest(Keys(h, d), key)
  BY DEF RemoveDone
<1>4. (key < h[n].key /\ d = l /\ o = r /\ lk = q /\ rk = r /\ kk = h[n].key /\ new = c.newKey)
      \/ (~(key < h[n].key) /\ d = r /\ o = l /\ lk = l /\ rk = q /\ new = NoKey
          /\ kk = IF c.newKey # NoKey THEN c.newKey ELSE h[n].key)
  BY DEF Child
<1>. HIDE DEF res, R, d, E, new
<1>5. Mutates(g, n, ver, cow, g1, p)
  <2>1. HeapOK(g) /\ n \in DOMAIN g /\ g[n] = h[n]
    BY <1>1, <1>3, <1>4 DEF Built, Grows
  <2>. QED  BY <1>1, <2>1, MutateFacts DEF NodeType
<1>6. g[n] = h[n]
  BY <1>1, <1>3, <1>4 DEF Built, Grows
<1>. HIDE DEF m, g1, p
<1>7. /\ DOMAIN h1 = DOMAIN g1 /\ \A x \in DOMAIN g1 : x # p => h1[x] = g1[x]
      /\ Mutated(h1, p, ver) /\ h1[p].left = lk /\ h1[p].right = rk
      /\ h1[p].key = kk /\ h1[p].value = NoValue
  <2>1. /\ p \in DOMAIN g1 /\ Mutated(g1, p, ver) /\ SameNode(g1[p], h[n])
    BY <1>5, <1>6 DEF Mutates, Mutated
  <2>2. h[n].value = NoValue
    BY <1>1 DEF BranchOK
  <2>. HIDE DEF q
  <2>3. CASE key < h[n].key
    <3>1. h1 = [g1 EXCEPT ![p].left = q] /\ lk = q /\ rk = r /\ kk = h[n].key
      BY <2>3
    <3>. HIDE DEF h1, lk, rk, kk
    <3>2. DOMAIN h1 = DOMAIN g1 /\ (\A x \in DOMAIN g1 : x # p => h1[x] = g1[x])
          /\ h1[p] = [g1[p] EXCEPT !.left = q]
      BY <2>1, <3>1
    <3>. QED  BY <2>1, <2>2, <3>1, <3>2 DEF Mutated, SameNode, Fields
  <2>4. CASE ~(key < h[n].key)
    <3>1. h1 = [[g1 EXCEPT ![p].right = q] EXCEPT ![p].key = kk] /\ lk = l /\ rk = q
      <4>1. h1 = [[g1 EXCEPT ![p].right = q] EXCEPT ![p].key = IF c.newKey # NoKey THEN c.newKey ELSE @]
        BY <2>4
      <4>2. g1[p].key = h[n].key
        BY <2>1 DEF SameNode
      <4>3. [g1 EXCEPT ![p].right = q][p].key = h[n].key
        BY <2>1, <4>2 DEF Mutated, Fields
      <4>. QED  BY <2>4, <4>1, <4>3
    <3>. HIDE DEF h1, lk, rk, kk
    <3>2. DOMAIN h1 = DOMAIN g1 /\ (\A x \in DOMAIN g1 : x # p => h1[x] = g1[x])
          /\ h1[p] = [[g1[p] EXCEPT !.right = q] EXCEPT !.key = kk]
      BY <2>1, <3>1
    <3>. QED  BY <2>1, <2>2, <3>1, <3>2 DEF Mutated, SameNode, Fields
  <2>. QED  BY <2>3, <2>4
<1>. HIDE DEF h1, g, q, o, lk, rk, kk
<1>9. {d, o} = {h[n].left, h[n].right} /\ {lk, rk} = {q, o}
  BY <1>4
<1>10. Grafted(h, n, o, g, q, E, p, h1, ver, cow)
  <2>1. Grafts(h, n, d, o, g, q, E, g1, p, h1, ver, cow)
    BY <1>3, <1>5, <1>7, <1>9 DEF Grafts, Mutated
  <2>. QED  BY <2>1, GraftOK
<1>11. /\ DOMAIN k = DOMAIN h1 /\ (\A x \in DOMAIN h1 : x # p => k[x] = h1[x])
       /\ SameBranch(k[p], h1[p]) /\ Measured(k, p)
  <2>1. p \in DOMAIN h1 /\ DOMAIN h1[p] = Fields /\ lk # p /\ rk # p
        /\ lk \in DOMAIN h1 /\ rk \in DOMAIN h1
    BY <1>7, <1>9, <1>10 DEF Grafted, Mutated
  <2>2. k = updateHeightSize(h1, p)
    OBVIOUS
  <2>. HIDE DEF k
  <2>. QED  BY <1>7, <2>1, <2>2, UpdateFacts
<1>. HIDE DEF k
<1>12. /\ HeapOK(k) /\ Grows(h, k, Under(h, n), ver, cow)
       /\ Kept(h, k, o) /\ Kept(g, k, q) /\ Ent(k, q) = E
       /\ Disjoint(k, q, o) /\ Disjoint(k, o, q)
       /\ p \notin Under(k, q) /\ p \notin Under(k, o)
       /\ ({p} \cup Under(k, q) \cup Under(k, o)) \cap DOMAIN h \subseteq Under(h, n)
  <2>1. Grafts(h, n, d, o, g, q, E, g1, p, k, ver, cow)
    BY <1>3, <1>5, <1>7, <1>9, <1>11 DEF Grafts, Mutated, SameBranch
  <2>2. Grafted(h, n, o, g, q, E, p, k, ver, cow)
    BY <2>1, GraftOK
  <2>. QED  BY <2>2 DEF Grafted
<1>13. /\ k[q] = g[q] /\ k[o] = h[o] /\ k[q].height \in Nat /\ h[o].height \in Nat
       /\ h[d].height \in Nat /\ h[n].height \in Nat
  BY <1>1, <1>4, <1>12 DEF Kept, NodeType
<1>14. /\ h[n].height = (IF h[d].height > h[o].height THEN h[d].height ELSE h[o].height) + 1
       /\ h[d].height - h[o].height \in -1 .. 1
  <2>1. h[n].height = TallerOf(h, l, r) + 1 /\ h[l].height - h[r].height \in -1 .. 1
        /\ h[l].height \in Nat /\ h[r].height \in Nat
    BY <1>1 DEF BranchOK, Measured, calcBalance, NodeType
  <2>2. (d = l /\ o = r) \/ (d = r /\ o = l)
    BY <1>4
  <2>. QED  BY <2>1, <2>2 DEF TallerOf
<1>15. TallerOf(k, lk, rk) = IF k[q].height > h[o].height THEN k[q].height ELSE h[o].height
  BY <1>4, <1>13 DEF TallerOf
<1>17. BranchAt(k, p, lk, rk, kk, ver)
  BY <1>7, <1>11 DEF BranchAt, Mutated, SameBranch
<1>18. h[n].key \in Key /\ h[n].key \in Nat /\ key \in Nat
  BY <1>1, KeysAreNumbers DEF NodeType
<1>19. Keys(k, q) = Keys(h, d) \ {key} /\ Keys(k, o) = Keys(h, o) /\ Keys(g, q) = Keys(k, q)
       /\ Keys(k, q) \subseteq Key /\ Keys(k, q) \subseteq Nat
       /\ Keys(h, l) \subseteq Nat /\ Keys(h, r) \subseteq Nat
  <2>1. WF(k, q)
    BY <1>12 DEF Kept
  <2>2. Keys(k, q) \subseteq Key /\ Keys(k, q) \subseteq Nat
        /\ Keys(h, l) \subseteq Nat /\ Keys(h, r) \subseteq Nat
    BY <1>1, <1>12, <2>1, KeysTyped
  <2>3. Keys(k, q) = Keys(h, d) \ {key}
    BY <1>12, LessKeys DEF E
  <2>. QED  BY <1>12, <2>2, <2>3 DEF Kept
<1>20. /\ \A i \in Keys(h, l) : i < h[n].key
       /\ \A i \in Keys(h, r) : h[n].key =< i
       /\ h[n].key \in Keys(h, r)
  BY <1>1 DEF BranchOK, Sorted
<1>21. Sorted(k, lk, rk, kk) /\ kk \in Key
  <2>1. CASE key < h[n].key
    BY <1>4, <1>18, <1>19, <1>20, <2>1 DEF Sorted
  <2>2. CASE ~(key < h[n].key) /\ c.newKey = NoKey
    <3>1. kk = h[n].key /\ d = r /\ o = l /\ lk = l /\ rk = q
      BY <1>4, <2>2
    <3>2. key # h[n].key
      BY <1>3, <1>20, <2>2, <3>1 DEF Smallest
    <3>. QED  BY <1>18, <1>19, <1>20, <3>1, <3>2 DEF Sorted
  <2>3. CASE ~(key < h[n].key) /\ c.newKey # NoKey
    <3>1. kk = c.newKey /\ d = r /\ o = l /\ lk = l /\ rk = q
      BY <1>4, <2>3
    <3>2. kk \in Keys(k, q) /\ \A i \in Keys(k, q) : kk =< i
      BY <1>3, <1>19, <2>3, <3>1 DEF Smallest
    <3>3. kk \in Keys(h, r) /\ h[n].key =< kk /\ kk \in Nat /\ kk \in Key
      BY <1>19, <1>20, <3>1, <3>2
    <3>4. \A i \in Keys(h, l) : i < kk
      BY <1>18, <1>19, <1>20, <3>3
    <3>. QED  BY <1>19, <3>1, <3>2, <3>3, <3>4 DEF Sorted
  <2>. QED  BY <2>1, <2>2, <2>3
<1>22. Pair(k, p, lk, rk, kk, ver)
  <2>1. WF(k, q) /\ WF(k, o)
    BY <1>12 DEF Kept
  <2>. QED  BY <1>4, <1>12, <1>17, <1>21, <2>1 DEF Pair
<1>23. /\ k[lk].height - k[rk].height \in -2 .. 2
       /\ calcBalance(k, p) = k[lk].height - k[rk].height
       /\ k[q].height - h[o].height \in -1 .. 1 => calcBalance(k, p) \in -1 .. 1
  <2>1. k[q].height \in {h[d].height, h[d].height - 1}
    BY <1>3, <1>13
  <2>2. calcBalance(k, p) = k[lk].height - k[rk].height
    BY <1>17 DEF calcBalance, BranchAt
  <2>3. (lk = q /\ rk = o) \/ (lk = o /\ rk = q)
    BY <1>4
  <2>. QED  BY <1>13, <1>14, <2>1, <2>2, <2>3
<1>24. Balanced(k, p, lk, rk, ver, cow, R.heap, R.node)
  BY <1>12, <1>21, <1>22, <1>23, ReBalanceOK DEF R
<1>25. Built(h, R.heap, R.node, Under(h, n), Ent(k, lk) \cup Ent(k, rk), ver, cow)
  <2>1. PairNodes(k, p, lk, rk) \cap DOMAIN h \subseteq Under(h, n)
    BY <1>4, <1>12 DEF PairNodes
  <2>. QED  BY <1>12, <1>24, <2>1, BuiltOn DEF Balanced
<1>26. Ent(k, lk) \cup Ent(k, rk) = Less(Ent(h, n), key)
  <2>1. Ent(k, lk) \cup Ent(k, rk) = Less(Ent(h, d), key) \cup Ent(h, o)
    BY <1>4, <1>12 DEF Kept, E
  <2>2. Ent(h, n) = Ent(h, d) \cup Ent(h, o)
    BY <1>1, <1>4
  <2>3. ASSUME NEW e \in Ent(h, o) PROVE e[1] # key
    <3>1. e[1] \in Keys(h, o)
      BY KeysOfEnt
    <3>. QED  BY <1>4, <1>18, <1>20, <3>1
  <2>. QED  BY <2>1, <2>2, <2>3 DEF Less
<1>27. R.heap[R.node].height \in {h[n].height, h[n].height - 1}
  <2>. DEFINE ht == R.heap[R.node].height
              t == TallerOf(k, lk, rk)
  <2>1. t \in Nat /\ t = IF k[q].height > h[o].height THEN k[q].height ELSE h[o].height
    BY <1>13, <1>15
  <2>2. ht \in {t, t + 1} /\ (k[q].height - h[o].height \in -1 .. 1 => ht = t + 1)
    BY <1>23, <1>24 DEF Balanced
  <2>3. ht \in Nat /\ k[q].height \in {h[d].height, h[d].height - 1}
    BY <1>3, <1>13, <2>1, <2>2
  <2>. HIDE DEF ht, t
  <2>4. ht = h[n].height \/ ht + 1 = h[n].height
    <3>1. Heights(h[d].height, k[q].height, h[o].height, h[n].height, t, ht)
      BY <1>13, <1>14, <2>1, <2>2, <2>3 DEF Heights
    <3>. QED  BY <2>3, <3>1, HeightAfter
  <2>5. ht \in {h[n].height, h[n].height - 1}
    BY <1>13, <2>3, <2>4
  <2>. QED  BY <2>5 DEF ht
<1>28. Keys(R.heap, R.node) = Keys(h, n) \ {key}
  <2>1. Ent(R.heap, R.node) = Less(Ent(h, n), key)
    BY <1>25, <1>26 DEF Built
  <2>. HIDE DEF R
  <2>. QED  BY <2>1, LessKeys
<1>29. new # NoKey => Smallest(Keys(R.heap, R.node), new)
  <2>. SUFFICES ASSUME new # NoKey PROVE Smallest(Keys(R.heap, R.node), new)
    OBVIOUS
  <2>1. key < h[n].key /\ d = l /\ new = c.newKey
    BY <1>4
  <2>2. new \in Keys(h, l) \ {key} /\ \A i \in Keys(h, l) \ {key} : new =< i
    BY <1>3, <1>19, <2>1 DEF Smallest
  <2>3. \A i \in Keys(h, r) : new =< i
    BY <1>18, <1>19, <1>20, <2>2
  <2>. QED  BY <1>1, <1>28, <2>2, <2>3 DEF Smallest
<1>30. new = NoKey => ~Smallest(Keys(h, n), key)
  <2>. SUFFICES ASSUME new = NoKey, Smallest(Keys(h, n), key) PROVE FALSE
    OBVIOUS
  <2>1. key \in Keys(h, l) /\ key < h[n].key
    BY SmallestLeft DEF Smallest
  <2>2. d = l /\ c.newKey = NoKey
    BY <1>4, <2>1
  <2>3. Smallest(Keys(h, l), key)
    BY <1>1, <2>1 DEF Smallest
  <2>. QED  BY <1>3, <2>2, <2>3
<1>31. R.node # Nil
  <2>1. R.node \in DOMAIN R.heap /\ HeapOK(R.heap)
    BY <1>25 DEF Built, WF, Grows
  <2>. QED  BY <2>1 DEF HeapOK
<1>32. res.heap = R.heap /\ res.node = R.node /\ res.value = c.value /\ res.newKey = new
  BY <1>2
<1>33. RemoveDone(h, n, res, key, ver, cow)
  BY <1>25, <1>26, <1>27, <1>29, <1>30, <1>31, <1>32 DEF RemoveDone
<1>. QED  BY <1>33 DEF res

RemoveBody(h, key, ver, cow, f, n) ==
    IF IsLeaf(h, n) THEN removeLeaf(h, n, key)
    ELSE removeBranch(h, n, key, f[Child(h, n, key)], ver, cow)

LEMMA RemoveEquation ==
    ASSUME NEW h, AllOK(h), NEW key, NEW ver, NEW cow, NEW n \in DOMAIN h
    PROVE  RemoveAt(h, key, ver, cow)[n]
               = RemoveBody(h, key, ver, cow, RemoveAt(h, key, ver, cow), n)
<1>. DEFINE Body(f, x) == RemoveBody(h, key, ver, cow, f, x)
            Is(f, S) == f = [x \in S |-> Body(f, x)]
            T == {d \in Nat : \E f : Is(f, Low(h, d))}
<1>1. 0 \in T
  <2>1. Low(h, 0) = {}
    BY DEF Low, AllOK, NodeOK, NodeType
  <2>2. Is([x \in {} |-> 0], {})
    OBVIOUS
  <2>. QED  BY <2>1, <2>2
<1>2. ASSUME NEW d \in Nat, d \in T PROVE d + 1 \in T
  <2>1. PICK f : Is(f, Low(h, d))
    BY <1>2
  <2>. DEFINE g == [x \in Low(h, d + 1) |-> Body(f, x)]
  <2>2. ASSUME NEW x \in Low(h, d + 1) PROVE Body(g, x) = Body(f, x)
    <3>1. CASE IsLeaf(h, x)
      BY <3>1 DEF RemoveBody
    <3>2. CASE ~IsLeaf(h, x)
      <4>. DEFINE c == Child(h, x, key)
      <4>1. x \in DOMAIN h /\ h[x].height < d + 1 /\ h[x].height # 0 /\ h[x].height \in Nat
        BY <3>2 DEF Low, IsLeaf, AllOK, NodeOK, NodeType
      <4>2. c \in DOMAIN h /\ h[c].height < h[x].height
        BY <4>1, ChildLower DEF Child
      <4>3. h[c].height \in Nat
        BY <4>2 DEF AllOK, NodeOK, NodeType
      <4>4. c \in Low(h, d) /\ c \in Low(h, d + 1)
        BY <4>1, <4>2, <4>3 DEF Low
      <4>5. g[c] = f[c]
        <5>. HIDE DEF Body, c
        <5>. QED  BY <2>1, <4>4
      <4>. QED  BY <3>2, <4>5 DEF RemoveBody
    <3>. QED  BY <3>1, <3>2
  <2>3. Is(g, Low(h, d + 1))
    <3>. HIDE DEF Body
    <3>. QED  BY <2>2
  <2>4. \E ff : Is(ff, Low(h, d + 1))
    <3>. HIDE DEF Is, g
    <3>. QED  BY <2>3
  <2>. QED  BY <2>4
<1>3. PICK d \in Nat : Low(h, d) = DOMAIN h
  BY HeightsBounded
<1>4. d \in T
  <2>. HIDE DEF T
  <2>. QED  BY <1>1, <1>2, SetOfNaturals
<1>5. \E f : Is(f, DOMAIN h)
  BY <1>3, <1>4
<1>6. RemoveAt(h, key, ver, cow) = CHOOSE f : Is(f, DOMAIN h)
  BY DEF RemoveAt, RemoveBody
<1>7. Is(RemoveAt(h, key, ver, cow), DOMAIN h)
  <2>. HIDE DEF Is
  <2>. QED  BY <1>5, <1>6
<1>. QED  BY <1>7

\* removeRecursive is right for every tree of a heap of well-formed nodes.
LEMMA RemoveAtOK ==
    ASSUME NEW h, AllOK(h), NEW key \in Key,
           NEW ver \in Nat, NEW cow \in Nat, cow < ver, NEW n \in DOMAIN h
    PROVE  RemoveDone(h, n, RemoveAt(h, key, ver, cow)[n], key, ver, cow)
<1>. DEFINE Done(x) == RemoveDone(h, x, RemoveAt(h, key, ver, cow)[x], key, ver, cow)
            T == {d \in Nat : \A x \in Low(h, d) : Done(x)}
<1>1. 0 \in T
  <2>1. Low(h, 0) = {}
    BY DEF Low, AllOK, NodeOK, NodeType
  <2>. QED  BY <2>1
<1>2. ASSUME NEW d \in Nat, d \in T PROVE d + 1 \in T
  <2>1. ASSUME NEW x \in Low(h, d + 1) PROVE Done(x)
    <3>. DEFINE f == RemoveAt(h, key, ver, cow)
    <3>1. x \in DOMAIN h /\ h[x].height < d + 1 /\ h[x].height \in Nat /\ WF(h, x) /\ HeapOK(h)
      BY AllWF DEF Low, AllOK, NodeOK, NodeType
    <3>2. f[x] = RemoveBody(h, key, ver, cow, f, x)
      BY <3>1, RemoveEquation
    <3>. HIDE DEF f
    <3>3. CASE h[x].height = 0
      <4>1. f[x] = removeLeaf(h, x, key)
        BY <3>2, <3>3 DEF RemoveBody, IsLeaf
      <4>2. RemoveDone(h, x, f[x], key, ver, cow)
        BY <3>1, <3>3, <4>1, RemoveLeafOK
      <4>. QED  BY <4>2 DEF f
    <3>5. CASE h[x].height # 0
      <4>. DEFINE c == Child(h, x, key)
      <4>1. f[x] = removeBranch(h, x, key, f[c], ver, cow)
        BY <3>2, <3>5 DEF RemoveBody, IsLeaf
      <4>2. c \in DOMAIN h /\ h[c].height < h[x].height
        BY <3>1, <3>5, ChildLower DEF Child
      <4>3. h[c].height \in Nat
        BY <4>2 DEF AllOK, NodeOK, NodeType
      <4>4. c \in Low(h, d)
        BY <3>1, <4>2, <4>3 DEF Low
      <4>5. RemoveDone(h, c, f[c], key, ver, cow)
        BY <1>2, <4>4 DEF f
      <4>6. RemoveDone(h, x, f[x], key, ver, cow)
        <5>1. CASE f[c].value = NoValue \/ f[c].node = Nil
          BY <3>1, <3>5, <4>1, <4>5, <5>1, RemoveBranchShort
        <5>2. CASE f[c].value # NoValue /\ f[c].node # Nil
          BY <3>1, <3>5, <4>1, <4>5, <5>2, RemoveBranchLong
        <5>. QED  BY <5>1, <5>2
      <4>. QED  BY <4>6 DEF f
    <3>. QED  BY <3>3, <3>5
  <2>. QED  BY <2>1
<1>3. PICK d \in Nat : Low(h, d) = DOMAIN h
  BY HeightsBounded
<1>4. d \in T
  <2>. HIDE DEF T
  <2>. QED  BY <1>1, <1>2, SetOfNaturals
<1>. QED  BY <1>3, <1>4

-----------------------------------------------------------------------------
(***************************************************************************)
(* Get.                                                                    *)
(***************************************************************************)
\* The size of a tree is the number of its keys.
LEMMA SizeIsKeys ==
    ASSUME NEW h, AllOK(h), NEW n \in DOMAIN h
    PROVE  IsFiniteSet(Keys(h, n)) /\ Cardinality(Keys(h, n)) = h[n].size
<1>. DEFINE Done(x) == IsFiniteSet(Keys(h, x)) /\ Cardinality(Keys(h, x)) = h[x].size
            T == {d \in Nat : \A x \in Low(h, d) : Done(x)}
<1>1. 0 \in T
  <2>1. Low(h, 0) = {}
    BY DEF Low, AllOK, NodeOK, NodeType
  <2>. QED  BY <2>1
<1>2. ASSUME NEW d \in Nat, d \in T PROVE d + 1 \in T
  <2>1. ASSUME NEW x \in Low(h, d + 1) PROVE Done(x)
    <3>1. x \in DOMAIN h /\ h[x].height < d + 1 /\ h[x].height \in Nat /\ WF(h, x) /\ HeapOK(h)
      BY AllWF DEF Low, AllOK, NodeOK, NodeType
    <3>2. CASE h[x].height = 0
      <4>1. Keys(h, x) = {h[x].key} /\ h[x].size = 1
        BY <3>1, <3>2, LeafTree DEF LeafOK
      <4>. QED  BY <4>1, FS_Singleton
    <3>3. CASE h[x].height # 0
      <4>. DEFINE l == h[x].left
                  r == h[x].right
      <4>1. BranchOK(h, x) /\ Keys(h, x) = Keys(h, l) \cup Keys(h, r) /\ NodeType(h, x)
            /\ WF(h, l) /\ WF(h, r)
        BY <3>1, <3>3, WFBranch
      <4>2. Done(l) /\ Done(r)
        <5>1. ASSUME NEW c \in {l, r} PROVE c \in Low(h, d)
          <6>1. c \in DOMAIN h /\ h[c].height < h[x].height
            BY <3>1, <3>3, ChildLower
          <6>2. h[c].height \in Nat
            BY <6>1 DEF AllOK, NodeOK, NodeType
          <6>. QED  BY <3>1, <6>1, <6>2 DEF Low
        <5>. QED  BY <1>2, <5>1
      <4>3. Keys(h, l) \cap Keys(h, r) = {}
        <5>1. Keys(h, l) \subseteq Nat /\ Keys(h, r) \subseteq Nat /\ h[x].key \in Nat
          BY <3>1, <4>1, KeysTyped, KeysAreNumbers DEF NodeType
        <5>. QED  BY <4>1, <5>1 DEF BranchOK, Sorted
      <4>4. h[x].size = h[l].size + h[r].size
        BY <4>1 DEF BranchOK, Measured
      <4>. HIDE DEF l, r
      <4>5. IsFiniteSet(Keys(h, l) \cup Keys(h, r)) /\ Cardinality(Keys(h, l) \cup Keys(h, r))
                = Cardinality(Keys(h, l)) + Cardinality(Keys(h, r)) - Cardinality({})
        BY <4>2, <4>3, FS_Union
      <4>6. Cardinality({}) = 0
        BY FS_EmptySet
      <4>7. Cardinality(Keys(h, l)) \in Nat /\ Cardinality(Keys(h, r)) \in Nat
        BY <4>2, FS_CardinalityType
      <4>. QED  BY <4>1, <4>2, <4>4, <4>5, <4>6, <4>7
    <3>. QED  BY <3>2, <3>3
  <2>. QED  BY <2>1
<1>3. PICK d \in Nat : Low(h, d) = DOMAIN h
  BY HeightsBounded
<1>4. d \in T
  <2>. HIDE DEF T
  <2>. QED  BY <1>1, <1>2, SetOfNaturals
<1>. QED  BY <1>3, <1>4

GetBody(h, key, f, n) ==
    IF IsLeaf(h, n)
      THEN [value |-> IF h[n].key = key THEN h[n].value ELSE NoValue,
            index |-> IF h[n].key < key THEN 1 ELSE 0]
      ELSE [f[Child(h, n, key)] EXCEPT !.index =
              IF key < h[n].key THEN @ ELSE @ + h[n].size - h[h[n].right].size]

LEMMA GetEquation ==
    ASSUME NEW h, AllOK(h), NEW key, NEW n \in DOMAIN h
    PROVE  GetAt(h, key)[n]
               = GetBody(h, key, GetAt(h, key), n)
<1>. DEFINE Body(f, x) == GetBody(h, key, f, x)
            Is(f, S) == f = [x \in S |-> Body(f, x)]
            T == {d \in Nat : \E f : Is(f, Low(h, d))}
<1>1. 0 \in T
  <2>1. Low(h, 0) = {}
    BY DEF Low, AllOK, NodeOK, NodeType
  <2>2. Is([x \in {} |-> 0], {})
    OBVIOUS
  <2>. QED  BY <2>1, <2>2
<1>2. ASSUME NEW d \in Nat, d \in T PROVE d + 1 \in T
  <2>1. PICK f : Is(f, Low(h, d))
    BY <1>2
  <2>. DEFINE g == [x \in Low(h, d + 1) |-> Body(f, x)]
  <2>2. ASSUME NEW x \in Low(h, d + 1) PROVE Body(g, x) = Body(f, x)
    <3>1. CASE IsLeaf(h, x)
      BY <3>1 DEF GetBody
    <3>2. CASE ~IsLeaf(h, x)
      <4>. DEFINE c == Child(h, x, key)
      <4>1. x \in DOMAIN h /\ h[x].height < d + 1 /\ h[x].height # 0 /\ h[x].height \in Nat
        BY <3>2 DEF Low, IsLeaf, AllOK, NodeOK, NodeType
      <4>2. c \in DOMAIN h /\ h[c].height < h[x].height
        BY <4>1, ChildLower DEF Child
      <4>3. h[c].height \in Nat
        BY <4>2 DEF AllOK, NodeOK, NodeType
      <4>4. c \in Low(h, d) /\ c \in Low(h, d + 1)
        BY <4>1, <4>2, <4>3 DEF Low
      <4>5. g[c] = f[c]
        <5>. HIDE DEF Body, c
        <5>. QED  BY <2>1, <4>4
      <4>6. g[Child(h, x, key)] = f[Child(h, x, key)]
        BY <4>5
      <4>. HIDE DEF g
      <4>. QED  BY <3>2, <4>6, Zenon DEF GetBody
    <3>. QED  BY <3>1, <3>2
  <2>3. Is(g, Low(h, d + 1))
    <3>. HIDE DEF Body
    <3>. QED  BY <2>2
  <2>4. \E ff : Is(ff, Low(h, d + 1))
    <3>. HIDE DEF Is, g
    <3>. QED  BY <2>3
  <2>. QED  BY <2>4
<1>3. PICK d \in Nat : Low(h, d) = DOMAIN h
  BY HeightsBounded
<1>4. d \in T
  <2>. HIDE DEF T
  <2>. QED  BY <1>1, <1>2, SetOfNaturals
<1>5. \E f : Is(f, DOMAIN h)
  BY <1>3, <1>4
<1>6. GetAt(h, key) = CHOOSE f : Is(f, DOMAIN h)
  BY DEF GetAt, GetBody
<1>7. Is(GetAt(h, key), DOMAIN h)
  <2>. HIDE DEF Is
  <2>. QED  BY <1>5, <1>6
<1>. QED  BY <1>7

\* What Get promises of its answer v for the tree at n.
GetDone(h, n, v, key) ==
    /\ DOMAIN v = {"value", "index"}
    /\ v.value = NoValue => key \notin Keys(h, n)
    /\ v.value # NoValue => <<key, v.value>> \in Ent(h, n)
    /\ v.index = Cardinality({i \in Keys(h, n) : i < key})

LEMMA GetAtOK ==
    ASSUME NEW h, AllOK(h), NEW key \in Key, NEW n \in DOMAIN h
    PROVE  GetDone(h, n, GetAt(h, key)[n], key)
<1>. DEFINE f == GetAt(h, key)
            T == {d \in Nat : \A x \in Low(h, d) : GetDone(h, x, f[x], key)}
<1>1. 0 \in T
  <2>1. Low(h, 0) = {}
    BY DEF Low, AllOK, NodeOK, NodeType
  <2>. QED  BY <2>1
<1>2. ASSUME NEW d \in Nat, d \in T PROVE d + 1 \in T
  <2>1. ASSUME NEW x \in Low(h, d + 1) PROVE GetDone(h, x, f[x], key)
    <3>1. x \in DOMAIN h /\ h[x].height < d + 1 /\ h[x].height \in Nat /\ WF(h, x) /\ HeapOK(h)
      BY AllWF DEF Low, AllOK, NodeOK, NodeType
    <3>2. f[x] = GetBody(h, key, f, x)
      BY <3>1, GetEquation
    <3>. HIDE DEF f
    <3>3. h[x].key \in Nat /\ key \in Nat /\ NodeType(h, x)
      BY <3>1, KeysAreNumbers DEF AllOK, NodeOK, NodeType
    <3>4. CASE h[x].height = 0
      <4>1. f[x] = [value |-> IF h[x].key = key THEN h[x].value ELSE NoValue,
                    index |-> IF h[x].key < key THEN 1 ELSE 0]
        BY <3>2, <3>4 DEF GetBody, IsLeaf
      <4>2. Keys(h, x) = {h[x].key} /\ Ent(h, x) = {<<h[x].key, h[x].value>>} /\ h[x].value # NoValue
        BY <3>1, <3>4, LeafTree, TreeAssumption DEF LeafOK
      <4>3. f[x].index = Cardinality({i \in Keys(h, x) : i < key})
        <5>1. CASE h[x].key < key
          <6>1. {i \in Keys(h, x) : i < key} = {h[x].key} /\ f[x].index = 1
            BY <4>1, <4>2, <5>1
          <6>. QED  BY <6>1, FS_Singleton
        <5>2. CASE ~(h[x].key < key)
          <6>1. {i \in Keys(h, x) : i < key} = {} /\ f[x].index = 0
            BY <4>1, <4>2, <5>2
          <6>. QED  BY <6>1, FS_EmptySet
        <5>. QED  BY <5>1, <5>2
      <4>4. DOMAIN f[x] = {"value", "index"}
        BY <4>1
      <4>5. f[x].value = IF h[x].key = key THEN h[x].value ELSE NoValue
        BY <4>1
      <4>. QED  BY <4>2, <4>3, <4>4, <4>5 DEF GetDone
    <3>5. CASE h[x].height # 0
      <4>. DEFINE c == Child(h, x, key)
                  l == h[x].left
                  r == h[x].right
                  off == h[x].size - h[r].size
      <4>1. f[x] = [f[c] EXCEPT !.index = IF key < h[x].key THEN @ ELSE @ + h[x].size - h[r].size]
        BY <3>2, <3>5, Zenon DEF GetBody, IsLeaf
      <4>2. c \in DOMAIN h /\ h[c].height < h[x].height
        BY <3>1, <3>5, ChildLower DEF Child
      <4>3. h[c].height \in Nat
        BY <4>2 DEF AllOK, NodeOK, NodeType
      <4>4. c \in Low(h, d)
        BY <3>1, <4>2, <4>3 DEF Low
      <4>5. GetDone(h, c, f[c], key)
        BY <1>2, <4>4
      <4>6. /\ BranchOK(h, x) /\ Keys(h, x) = Keys(h, l) \cup Keys(h, r)
            /\ Ent(h, x) = Ent(h, l) \cup Ent(h, r)
            /\ WF(h, l) /\ WF(h, r) /\ l \in DOMAIN h /\ r \in DOMAIN h
            /\ NodeType(h, l) /\ NodeType(h, r)
        BY <3>1, <3>5, WFBranch
      <4>7. /\ Keys(h, l) \subseteq Nat /\ Keys(h, r) \subseteq Nat
            /\ \A i \in Keys(h, l) : i < h[x].key
            /\ \A i \in Keys(h, r) : h[x].key =< i
        BY <3>1, <4>6, KeysTyped DEF BranchOK, Sorted
      <4>8. (key < h[x].key /\ c = l) \/ (~(key < h[x].key) /\ c = r)
        BY DEF Child
      <4>. HIDE DEF c
      <4>9. DOMAIN f[x] = {"value", "index"} /\ f[x].value = f[c].value
            /\ f[x].index = IF key < h[x].key THEN f[c].index ELSE f[c].index + h[x].size - h[r].size
        BY <4>1, <4>5 DEF GetDone
      <4>10. f[c].value = NoValue => key \notin Keys(h, x)
        BY <3>3, <4>5, <4>6, <4>7, <4>8 DEF GetDone
      <4>11. f[c].value # NoValue => <<key, f[c].value>> \in Ent(h, x)
        BY <4>5, <4>6, <4>8 DEF GetDone
      <4>12. f[x].index = Cardinality({i \in Keys(h, x) : i < key})
        <5>1. CASE key < h[x].key
          <6>1. {i \in Keys(h, x) : i < key} = {i \in Keys(h, c) : i < key}
            BY <3>3, <4>6, <4>7, <4>8, <5>1
          <6>. QED  BY <4>5, <4>9, <5>1, <6>1 DEF GetDone
        <5>2. CASE ~(key < h[x].key)
          <6>. DEFINE S == {i \in Keys(h, r) : i < key}
          <6>1. {i \in Keys(h, x) : i < key} = Keys(h, l) \cup S /\ Keys(h, l) \cap S = {}
            BY <3>3, <4>6, <4>7, <5>2
          <6>2. IsFiniteSet(Keys(h, l)) /\ Cardinality(Keys(h, l)) = h[l].size /\ IsFiniteSet(Keys(h, r))
            BY <4>6, SizeIsKeys
          <6>3. IsFiniteSet(S)
            BY <6>2, FS_Subset
          <6>4. Cardinality(S) = f[c].index
            BY <4>5, <4>8, <5>2 DEF GetDone
          <6>. HIDE DEF S, l, r
          <6>5. Cardinality(Keys(h, l) \cup S) = Cardinality(Keys(h, l)) + Cardinality(S) - Cardinality({})
            BY <6>1, <6>2, <6>3, FS_Union
          <6>6. Cardinality({}) = 0 /\ Cardinality(S) \in Nat
            BY <6>3, FS_EmptySet, FS_CardinalityType
          <6>7. h[x].size = h[l].size + h[r].size /\ h[l].size \in Nat /\ h[r].size \in Nat
            BY <4>6 DEF BranchOK, Measured, NodeType, l, r
          <6>8. f[x].index = f[c].index + h[x].size - h[r].size
            BY <4>9, <5>2
          <6>9. f[x].index = Cardinality(Keys(h, l) \cup S)
            BY <6>2, <6>4, <6>5, <6>6, <6>7, <6>8
          <6>. QED  BY <6>1, <6>9
        <5>. QED  BY <5>1, <5>2
      <4>. QED  BY <4>9, <4>10, <4>11, <4>12 DEF GetDone
    <3>. QED  BY <3>4, <3>5
  <2>. QED  BY <2>1
<1>3. PICK d \in Nat : Low(h, d) = DOMAIN h
  BY HeightsBounded
<1>4. d \in T
  <2>. HIDE DEF T
  <2>. QED  BY <1>1, <1>2, SetOfNaturals
<1>. QED  BY <1>3, <1>4

-----------------------------------------------------------------------------
(***************************************************************************)
(* Hashing.                                                                *)
(***************************************************************************)
HashBody(h, f, n) ==
    IF h[n].hash # NoHash THEN h[n].hash
    ELSE IF IsLeaf(h, n) THEN HashInput(h[n], NoHash, NoHash)
    ELSE HashInput(h[n], f[h[n].left], f[h[n].right])

LEMMA HashEquation ==
    ASSUME NEW h, AllOK(h), NEW n \in DOMAIN h
    PROVE  HashOf(h)[n]
               = HashBody(h, HashOf(h), n)
<1>. DEFINE Body(f, x) == HashBody(h, f, x)
            Is(f, S) == f = [x \in S |-> Body(f, x)]
            T == {d \in Nat : \E f : Is(f, Low(h, d))}
<1>1. 0 \in T
  <2>1. Low(h, 0) = {}
    BY DEF Low, AllOK, NodeOK, NodeType
  <2>2. Is([x \in {} |-> 0], {})
    OBVIOUS
  <2>. QED  BY <2>1, <2>2
<1>2. ASSUME NEW d \in Nat, d \in T PROVE d + 1 \in T
  <2>1. PICK f : Is(f, Low(h, d))
    BY <1>2
  <2>. DEFINE g == [x \in Low(h, d + 1) |-> Body(f, x)]
  <2>2. ASSUME NEW x \in Low(h, d + 1) PROVE Body(g, x) = Body(f, x)
    <3>1. CASE IsLeaf(h, x)
      BY <3>1 DEF HashBody
    <3>2. CASE ~IsLeaf(h, x)
      <4>1. x \in DOMAIN h /\ h[x].height < d + 1 /\ h[x].height # 0 /\ h[x].height \in Nat
        BY <3>2 DEF Low, IsLeaf, AllOK, NodeOK, NodeType
      <4>2. ASSUME NEW c \in {h[x].left, h[x].right} PROVE g[c] = f[c]
        <5>1. c \in DOMAIN h /\ h[c].height < h[x].height
          BY <4>1, ChildLower
        <5>2. h[c].height \in Nat
          BY <5>1 DEF AllOK, NodeOK, NodeType
        <5>3. c \in Low(h, d) /\ c \in Low(h, d + 1)
          BY <4>1, <5>1, <5>2 DEF Low
        <5>. HIDE DEF Body
        <5>. QED  BY <2>1, <5>3
      <4>3. g[h[x].left] = f[h[x].left] /\ g[h[x].right] = f[h[x].right]
        BY <4>2
      <4>. HIDE DEF g
      <4>. QED  BY <3>2, <4>3 DEF HashBody
    <3>. QED  BY <3>1, <3>2
  <2>3. Is(g, Low(h, d + 1))
    <3>. HIDE DEF Body
    <3>. QED  BY <2>2
  <2>4. \E ff : Is(ff, Low(h, d + 1))
    <3>. HIDE DEF Is, g
    <3>. QED  BY <2>3
  <2>. QED  BY <2>4
<1>3. PICK d \in Nat : Low(h, d) = DOMAIN h
  BY HeightsBounded
<1>4. d \in T
  <2>. HIDE DEF T
  <2>. QED  BY <1>1, <1>2, SetOfNaturals
<1>5. \E f : Is(f, DOMAIN h)
  BY <1>3, <1>4
<1>6. HashOf(h) = CHOOSE f : Is(f, DOMAIN h)
  BY DEF HashOf, HashBody
<1>7. Is(HashOf(h), DOMAIN h)
  <2>. HIDE DEF Is
  <2>. QED  BY <1>5, <1>6
<1>. QED  BY <1>7

\* The heaps have the same nodes, up to their hashes and whether they are on disk.
SameShape(h, g) ==
    /\ DOMAIN g = DOMAIN h
    /\ \A x \in DOMAIN h :
          DOMAIN g[x] = DOMAIN h[x] /\ SameNode(g[x], h[x]) /\ g[x].version = h[x].version

LEMMA ShapeFrame ==
    ASSUME NEW h, NEW g, AllOK(h), SameShape(h, g),
           \A x \in DOMAIN g : FreshAt(g, x) /\ g[x].disk \in BOOLEAN,
           \A x \in DOMAIN g : \A c \in Children(g, x) : g[x].disk => g[c].disk
    PROVE  /\ AllOK(g)
           /\ \A n : Under(g, n) = Under(h, n) /\ Ent(g, n) = Ent(h, n)
<1>1. \A x \in DOMAIN h : Children(g, x) = Children(h, x)
  BY DEF SameShape, SameNode, Children
<1>2. \A S \in SUBSET DOMAIN h : Closed(g, S) = Closed(h, S)
  BY <1>1 DEF Closed
<1>3. ASSUME NEW n
      PROVE  /\ Under(g, n) = Under(h, n) /\ Ent(g, n) = Ent(h, n) /\ Keys(g, n) = Keys(h, n)
  <2>1. DOMAIN g = DOMAIN h
    BY DEF SameShape
  <2>2. Under(g, n) = Under(h, n)
    BY <1>2, <2>1 DEF Under
  <2>3. Under(h, n) \subseteq DOMAIN h
    BY DEF Under
  <2>4. LeavesUnder(g, n) = LeavesUnder(h, n)
    BY <2>2, <2>3 DEF LeavesUnder, IsLeaf, SameShape, SameNode
  <2>5. \A m \in LeavesUnder(h, n) : g[m].key = h[m].key /\ g[m].value = h[m].value
    BY <2>3 DEF LeavesUnder, SameShape, SameNode
  <2>. QED  BY <2>2, <2>4, <2>5 DEF Ent, Keys
<1>4. ASSUME NEW x \in DOMAIN g PROVE NodeOK(g, x)
  <2>1. /\ x \in DOMAIN h /\ NodeOK(h, x) /\ SameNode(g[x], h[x]) /\ DOMAIN g[x] = DOMAIN h[x]
        /\ g[x].version = h[x].version
    BY DEF SameShape, AllOK
  <2>2. NodeType(g, x)
    <3>1. NodeType(h, x) /\ g[x].disk \in BOOLEAN
      BY <2>1 DEF NodeOK
    <3>. QED  BY <2>1, <3>1 DEF NodeType, SameNode
  <2>3. CASE h[x].height = 0
    BY <2>1, <2>2, <2>3 DEF NodeOK, LeafOK, SameNode
  <2>4. CASE h[x].height # 0
    <3>. DEFINE l == h[x].left
                r == h[x].right
    <3>1. BranchOK(h, x) /\ l \in DOMAIN h /\ r \in DOMAIN h
      BY <2>1, <2>4 DEF NodeOK, BranchOK
    <3>2. /\ g[l].height = h[l].height /\ g[r].height = h[r].height
          /\ g[l].size = h[l].size /\ g[r].size = h[r].size
          /\ l \in DOMAIN g /\ r \in DOMAIN g /\ g[x].left = l /\ g[x].right = r
      BY <2>1, <3>1 DEF SameShape, SameNode
    <3>3. Disjoint(g, l, r) /\ Sorted(g, l, r, g[x].key)
      BY <1>3, <2>1, <3>1 DEF BranchOK, Disjoint, Sorted, SameNode
    <3>4. Measured(g, x) /\ calcBalance(g, x) \in -1 .. 1 /\ g[x].value = NoValue
      BY <2>1, <3>1, <3>2 DEF BranchOK, Measured, TallerOf, calcBalance, SameNode
    <3>5. g[x].disk => g[l].disk /\ g[r].disk
      BY <3>2 DEF Children
    <3>6. BranchOK(g, x)
      BY <3>2, <3>3, <3>4, <3>5 DEF BranchOK
    <3>. QED  BY <2>1, <2>2, <2>4, <3>6 DEF NodeOK, SameNode
  <2>. QED  BY <2>3, <2>4
<1>5. HeapOK(g)
  BY DEF AllOK, HeapOK, SameShape
<1>. QED  BY <1>3, <1>4, <1>5 DEF AllOK

\* Reach computes the nodes under a well-formed tree, whatever else is in the heap.
LEMMA ReachIsUnder ==
    ASSUME NEW h, HeapOK(h), NEW n, WF(h, n)
    PROVE  Reach(h, n) = Under(h, n)
<1>. DEFINE Is(f) == f = [x \in DOMAIN h |-> {x} \cup UNION {f[c] : c \in Children(h, x)}]
            b == Below(h)
<1>1. Is(b)
  <2>. DEFINE u == [x \in DOMAIN h |-> Under(h, x)]
  <2>1. ASSUME NEW x \in DOMAIN h
        PROVE  u[x] = {x} \cup UNION {u[c] : c \in Children(h, x)}
    <3>1. \A c \in Children(h, x) : u[c] = Under(h, c)
      BY DEF Children
    <3>2. {u[c] : c \in Children(h, x)} = {Under(h, c) : c \in Children(h, x)}
      BY <3>1
    <3>. QED  BY <3>2, UnderUnfold
  <2>2. Is(u)
    <3>1. u = [x \in DOMAIN h |-> u[x]]
      OBVIOUS
    <3>. HIDE DEF u
    <3>. QED  BY <2>1, <3>1
  <2>3. b = CHOOSE f : Is(f)
    BY DEF Below
  <2>. HIDE DEF Is, b, u
  <2>. QED  BY <2>2, <2>3
<1>. DEFINE T == {d \in Nat : \A x \in Under(h, n) : h[x].height < d => b[x] = Under(h, x)}
<1>2. 0 \in T
  BY DEF WF, NodeOK, NodeType
<1>3. ASSUME NEW d \in Nat, d \in T PROVE d + 1 \in T
  <2>1. ASSUME NEW x \in Under(h, n), h[x].height < d + 1 PROVE b[x] = Under(h, x)
    <3>1. x \in DOMAIN h /\ WF(h, x) /\ NodeOK(h, x) /\ h[x].height \in Nat
      BY WFUnder DEF Under, WF, NodeOK, NodeType
    <3>2. ASSUME NEW c \in Children(h, x) PROVE b[c] = Under(h, c)
      <4>1. h[x].height # 0
        BY <3>1 DEF NodeOK, LeafOK, Children, HeapOK
      <4>2. BranchOK(h, x) /\ NodeType(h, h[x].left) /\ NodeType(h, h[x].right)
        BY <3>1, <4>1, WFBranch
      <4>3. h[c].height < h[x].height /\ h[c].height \in Nat
        BY <3>1, <4>2 DEF BranchOK, Measured, TallerOf, NodeType, Children
      <4>4. c \in Under(h, n) /\ h[c].height < d
        BY <2>1, <3>1, <4>3, UnderClosed
      <4>. QED  BY <1>3, <4>4
    <3>3. b[x] = {x} \cup UNION {b[c] : c \in Children(h, x)}
      <4>. HIDE DEF b
      <4>. QED  BY <1>1, <3>1
    <3>. HIDE DEF b
    <3>4. {b[c] : c \in Children(h, x)} = {Under(h, c) : c \in Children(h, x)}
      BY <3>2
    <3>. QED  BY <3>1, <3>3, <3>4, UnderUnfold
  <2>. QED  BY <2>1
<1>4. n \in Under(h, n) /\ n \in DOMAIN h /\ h[n].height \in Nat
  BY UnderRoot DEF WF, NodeOK, NodeType
<1>5. h[n].height + 1 \in T
  <2>. HIDE DEF T
  <2>. QED  BY <1>2, <1>3, <1>4, SetOfNaturals
<1>. QED  BY <1>4, <1>5 DEF Reach

LEMMA EntriesAreEnt ==
    ASSUME NEW h, HeapOK(h), NEW n, WF(h, n)
    PROVE  Entries(h, n) = Ent(h, n)
  BY ReachIsUnder DEF Entries, Ent, LeavesUnder

\* What a pointer, which may be nil, refers to.
Tree(h, n) == n = Nil \/ WF(h, n)

LEMMA NilIsEmpty ==
    ASSUME NEW h, HeapOK(h)
    PROVE  Reach(h, Nil) = {} /\ Entries(h, Nil) = {}
  BY DEF Reach, Entries, HeapOK

\* A collected heap has well-formed nodes only.
Collected(h, r, c, g) ==
    /\ AllOK(g) /\ Tree(g, r) /\ Tree(g, c) /\ DOMAIN g = Reach(h, r) \cup Reach(h, c)
    /\ \A x \in Reach(h, r) \cup Reach(h, c) : g[x] = h[x]
    /\ \A n \in {r, c} : Reach(g, n) = Reach(h, n) /\ Entries(g, n) = Entries(h, n)

LEMMA LiveOK ==
    ASSUME NEW h, HeapOK(h), NEW r, NEW c, Tree(h, r), Tree(h, c)
    PROVE  Collected(h, r, c, Live(h, r, c))
<1>. DEFINE g == Live(h, r, c)
            D == Reach(h, r) \cup Reach(h, c)
<1>1. DOMAIN g = D /\ \A x \in D : g[x] = h[x]
  BY DEF Live
<1>2. ASSUME NEW n \in {r, c} PROVE n # Nil => WF(h, n) /\ Reach(h, n) = Under(h, n)
  BY <1>2, ReachIsUnder DEF Tree
<1>3. D \subseteq DOMAIN h
  <2>1. \A n \in {r, c} : Reach(h, n) \subseteq DOMAIN h
    BY <1>2, NilIsEmpty DEF Under
  <2>. QED  BY <2>1
<1>4. HeapOK(g)
  <2>1. IsFiniteSet(D)
    BY <1>3, FS_Subset DEF HeapOK
  <2>. HIDE DEF g, D
  <2>. QED  BY <1>1, <1>3, <2>1 DEF HeapOK
<1>. HIDE DEF g
<1>5. ASSUME NEW n \in {r, c}
      PROVE  /\ Tree(g, n) /\ Reach(g, n) = Reach(h, n) /\ Entries(g, n) = Entries(h, n)
             /\ \A x \in Reach(h, n) : NodeOK(g, x)
  <2>1. CASE n = Nil
    BY <1>4, <2>1, NilIsEmpty DEF Tree
  <2>2. CASE n # Nil
    <3>1. WF(h, n) /\ Reach(h, n) = Under(h, n)
      BY <1>2, <2>2
    <3>2. \A x \in Under(h, n) : x \in DOMAIN g /\ g[x] = h[x]
      BY <1>1, <3>1
    <3>3. WF(g, n) /\ Under(g, n) = Under(h, n) /\ Ent(g, n) = Ent(h, n)
      BY <1>4, <3>1, <3>2, NodeFrame
    <3>4. Reach(g, n) = Under(g, n) /\ Entries(g, n) = Ent(g, n) /\ Entries(h, n) = Ent(h, n)
      BY <1>4, <3>1, <3>3, ReachIsUnder, EntriesAreEnt
    <3>. QED  BY <3>1, <3>3, <3>4 DEF Tree, WF
  <2>. QED  BY <2>1, <2>2
<1>6. AllOK(g)
  BY <1>1, <1>4, <1>5 DEF AllOK
<1>7. Collected(h, r, c, g)
  BY <1>1, <1>5, <1>6 DEF Collected
<1>. QED  BY <1>7 DEF g

LEMMA HashesAreHashes ==
    ASSUME NEW node, NEW a, NEW b
    PROVE  HashInput(node, a, b) # NoHash
<1>1. \A i, j, k : <<i, j, k>> # <<>>
  OBVIOUS
<1>2. \A i, j, k, l, m : <<i, j, k, l, m>> # <<>>
  OBVIOUS
<1>. QED  BY <1>1, <1>2 DEF HashInput, NoHash

\* What hashing the tree at n leaves in the heap.
Hashed(h, n, g) ==
    /\ AllOK(g) /\ SameShape(h, g)
    /\ \A x \in DOMAIN h : g[x].disk = h[x].disk /\ (h[x].hash # NoHash => g[x] = h[x])
    /\ \A x \in Reach(h, n) : g[x].hash # NoHash
    /\ \A m : Under(g, m) = Under(h, m) /\ Ent(g, m) = Ent(h, m)

LEMMA HashOK ==
    ASSUME NEW h, AllOK(h), NEW n, Tree(h, n)
    PROVE  Hashed(h, n, Hash(h, n))
<1>. DEFINE g == Hash(h, n)
            f == HashOf(h)
            B == Reach(h, n)
<1>0. HeapOK(h)
  BY DEF AllOK
<1>1. B \subseteq DOMAIN h /\ \A x \in B : \A c \in Children(h, x) : c \in B
  <2>1. CASE n = Nil
    BY <1>0, <2>1, NilIsEmpty
  <2>2. CASE n # Nil
    <3>1. B = Under(h, n)
      BY <1>0, <2>2, ReachIsUnder DEF Tree
    <3>2. Under(h, n) \subseteq DOMAIN h
      BY DEF Under
    <3>. QED  BY <3>1, <3>2, UnderClosed
  <2>. QED  BY <2>1, <2>2
<1>2. ASSUME NEW x \in DOMAIN h PROVE f[x] = HashBody(h, f, x) /\ f[x] # NoHash
  <2>1. f[x] = HashBody(h, f, x)
    BY HashEquation
  <2>. HIDE DEF f
  <2>. QED  BY <2>1, HashesAreHashes DEF HashBody
<1>3. /\ DOMAIN g = DOMAIN h
      /\ \A x \in B : h[x].hash = NoHash => g[x] = [h[x] EXCEPT !.hash = f[x]]
      /\ \A x \in DOMAIN h : x \notin B \/ h[x].hash # NoHash => g[x] = h[x]
  <2>. DEFINE M == {m \in B : h[m].hash = NoHash}
  <2>1. g = [m \in DOMAIN h |-> IF m \in M THEN [h[m] EXCEPT !.hash = f[m]] ELSE h[m]]
    BY DEF Hash
  <2>. HIDE DEF g, B, f
  <2>2. \A x \in DOMAIN h : g[x] = IF x \in M THEN [h[x] EXCEPT !.hash = f[x]] ELSE h[x]
    BY <2>1
  <2>3. DOMAIN g = DOMAIN h
    BY <2>1
  <2>. QED  BY <1>1, <2>2, <2>3
<1>. HIDE DEF g, f, B
<1>4. \A x \in DOMAIN h : DOMAIN h[x] = Fields
  BY DEF AllOK, NodeOK, NodeType
<1>5. ASSUME NEW x \in DOMAIN h
      PROVE  /\ DOMAIN g[x] = Fields /\ SameNode(g[x], h[x]) /\ g[x].version = h[x].version
             /\ g[x].disk = h[x].disk
             /\ (x \in B => g[x].hash = f[x])
             /\ (x \notin B => g[x].hash = h[x].hash)
  <2>1. CASE x \notin B \/ h[x].hash # NoHash
    <3>1. g[x] = h[x]
      BY <1>3, <2>1
    <3>2. h[x].hash # NoHash => f[x] = h[x].hash
      BY <1>2 DEF HashBody
    <3>. QED  BY <1>4, <2>1, <3>1, <3>2 DEF SameNode
  <2>2. CASE x \in B /\ h[x].hash = NoHash
    <3>1. g[x] = [h[x] EXCEPT !.hash = f[x]]
      BY <1>3, <2>2
    <3>. QED  BY <1>4, <2>2, <3>1 DEF SameNode, Fields
  <2>. QED  BY <2>1, <2>2
<1>6. ASSUME NEW x \in DOMAIN h, h[x].hash # NoHash PROVE g[x].hash = h[x].hash /\ g[x] = h[x]
  BY <1>3, <1>6
<1>7. ASSUME NEW x \in DOMAIN h PROVE FreshAt(g, x)
  <2>1. Children(g, x) = Children(h, x) /\ HashNode(g, x) =
            IF IsLeaf(h, x) THEN HashInput(h[x], NoHash, NoHash)
            ELSE HashInput(h[x], g[h[x].left].hash, g[h[x].right].hash)
    BY <1>3, <1>5 DEF Children, HashNode, HashInput, IsLeaf, SameNode
  <2>2. FreshAt(h, x) /\ (h[x].height # 0 => Children(h, x) = {h[x].left, h[x].right})
    BY DEF AllOK, NodeOK, BranchOK, Children
  <2>3. Children(h, x) \subseteq DOMAIN h
    BY DEF Children
  <2>4. CASE h[x].hash # NoHash
    <3>1. h[x].hash = HashNode(h, x) /\ \A c \in Children(h, x) : h[c].hash # NoHash
      BY <2>2, <2>4 DEF FreshAt
    <3>2. \A c \in Children(h, x) : g[c].hash = h[c].hash
      BY <1>6, <2>3, <3>1
    <3>3. g[x].hash = h[x].hash
      BY <1>6, <2>4
    <3>4. HashNode(g, x) = HashNode(h, x)
      BY <2>1, <2>2, <3>2 DEF HashNode, IsLeaf
    <3>. QED  BY <2>1, <3>1, <3>2, <3>3, <3>4 DEF FreshAt
  <2>5. CASE h[x].hash = NoHash /\ x \in B
    <3>1. \A c \in Children(h, x) : c \in B /\ g[c].hash = f[c] /\ f[c] # NoHash
      BY <1>1, <1>2, <1>5, <2>3, <2>5
    <3>2. g[x].hash = IF IsLeaf(h, x) THEN HashInput(h[x], NoHash, NoHash)
                      ELSE HashInput(h[x], f[h[x].left], f[h[x].right])
      BY <1>2, <1>5, <2>5 DEF HashBody
    <3>3. g[x].hash = HashNode(g, x)
      BY <2>1, <2>2, <3>1, <3>2 DEF IsLeaf
    <3>. QED  BY <2>1, <3>1, <3>3 DEF FreshAt
  <2>6. CASE h[x].hash = NoHash /\ x \notin B
    BY <1>5, <2>6 DEF FreshAt
  <2>. QED  BY <2>4, <2>5, <2>6
<1>8. SameShape(h, g)
  BY <1>3, <1>4, <1>5 DEF SameShape
<1>9. \A x \in DOMAIN g : FreshAt(g, x) /\ g[x].disk \in BOOLEAN
  BY <1>3, <1>5, <1>7 DEF AllOK, NodeOK, NodeType
<1>10. \A x \in DOMAIN g : \A c \in Children(g, x) : g[x].disk => g[c].disk
  <2>. SUFFICES ASSUME NEW x \in DOMAIN g, NEW c \in Children(g, x), g[x].disk PROVE g[c].disk
    OBVIOUS
  <2>1. x \in DOMAIN h /\ c \in DOMAIN h /\ c \in {h[x].left, h[x].right} /\ h[x].disk
    BY <1>3, <1>5 DEF Children, SameNode
  <2>2. h[x].height # 0
    BY <1>0, <2>1 DEF AllOK, NodeOK, LeafOK, HeapOK
  <2>3. h[c].disk
    BY <2>1, <2>2 DEF AllOK, NodeOK, BranchOK
  <2>. QED  BY <1>5, <2>1, <2>3
<1>11. AllOK(g) /\ \A m : Under(g, m) = Under(h, m) /\ Ent(g, m) = Ent(h, m)
  BY <1>8, <1>9, <1>10, ShapeFrame
<1>12. \A x \in B : g[x].hash # NoHash
  BY <1>1, <1>2, <1>5
<1>13. Hashed(h, n, g)
  BY <1>5, <1>6, <1>8, <1>11, <1>12 DEF Hashed, B
<1>. QED  BY <1>13 DEF g

LEMMA ReachInside ==
    ASSUME NEW h, HeapOK(h), NEW n, Tree(h, n)
    PROVE  Reach(h, n) \subseteq DOMAIN h
<1>1. CASE n = Nil
  BY <1>1, NilIsEmpty
<1>2. CASE n # Nil
  BY <1>2, ReachIsUnder DEF Tree, Under
<1>. QED  BY <1>1, <1>2

\* Nodes with equal entries and addresses under them are seen alike.
LEMMA SameReach ==
    ASSUME NEW h, NEW g, AllOK(h), AllOK(g), DOMAIN g = DOMAIN h, NEW n, Tree(h, n),
           \A m : Under(g, m) = Under(h, m) /\ Ent(g, m) = Ent(h, m)
    PROVE  Tree(g, n) /\ Reach(g, n) = Reach(h, n) /\ Entries(g, n) = Entries(h, n)
<1>1. HeapOK(h) /\ HeapOK(g)
  BY DEF AllOK
<1>2. CASE n = Nil
  BY <1>1, <1>2, NilIsEmpty DEF Tree
<1>3. CASE n # Nil
  <2>1. WF(h, n) /\ n \in DOMAIN g
    BY <1>3 DEF Tree, WF
  <2>2. WF(g, n)
    BY <2>1, AllWF
  <2>. QED  BY <1>1, <2>1, <2>2, ReachIsUnder, EntriesAreEnt DEF Tree
<1>. QED  BY <1>2, <1>3

\* Under a persisted node everything is persisted.
LEMMA DiskBelow ==
    ASSUME NEW h, AllOK(h), NEW n \in DOMAIN h, h[n].disk
    PROVE  \A x \in Reach(h, n) : h[x].disk
<1>. DEFINE S == {x \in DOMAIN h : h[x].disk}
<1>1. ASSUME NEW x \in S PROVE Children(h, x) \subseteq S
  <2>1. NodeOK(h, x) /\ Nil \notin DOMAIN h
    BY DEF AllOK, HeapOK
  <2>2. CASE h[x].height = 0
    BY <2>1, <2>2 DEF NodeOK, LeafOK, Children
  <2>3. CASE h[x].height # 0
    BY <2>1, <2>3 DEF NodeOK, BranchOK, Children
  <2>. QED  BY <2>2, <2>3
<1>2. Under(h, n) \subseteq S
  BY <1>1 DEF Under, Closed
<1>3. Reach(h, n) = Under(h, n)
  BY AllWF, ReachIsUnder DEF AllOK
<1>. QED  BY <1>2, <1>3

\* What a snapshot of the tree at n is opened as.
Opened(h, n, g) ==
    /\ AllOK(g) /\ Tree(g, n) /\ Entries(g, n) = Entries(h, n)
    /\ DOMAIN g = Reach(h, n) /\ \A x \in DOMAIN g : g[x].version = h[x].version

LEMMA PersistedOK ==
    ASSUME NEW h, AllOK(h), NEW n, Tree(h, n)
    PROVE  Opened(h, n, Persisted(h, n))
<1>. DEFINE g == Hash(h, n)
            k == Live(g, n, Nil)
            p == Persisted(h, n)
<1>1. Hashed(h, n, g)
  BY HashOK
<1>. HIDE DEF g
<1>2. HeapOK(h) /\ HeapOK(g) /\ AllOK(g) /\ DOMAIN g = DOMAIN h
  BY <1>1 DEF Hashed, AllOK, SameShape
<1>3. Tree(g, n) /\ Reach(g, n) = Reach(h, n) /\ Entries(g, n) = Entries(h, n)
  BY <1>1, <1>2, SameReach DEF Hashed
<1>4. Tree(g, Nil) /\ Reach(g, Nil) = {}
  BY <1>2, NilIsEmpty DEF Tree
<1>5. /\ AllOK(k) /\ Tree(k, n) /\ DOMAIN k = Reach(g, n)
      /\ \A x \in Reach(g, n) : k[x] = g[x]
      /\ Reach(k, n) = Reach(g, n) /\ Entries(k, n) = Entries(g, n)
  <2>1. Collected(g, n, Nil, k)
    BY <1>2, <1>3, <1>4, LiveOK
  <2>. QED  BY <1>4, <2>1 DEF Collected
<1>6. p = [m \in Reach(h, n) |-> [g[m] EXCEPT !.disk = TRUE]]
  BY DEF Persisted, g
<1>. HIDE DEF k, p
<1>7. DOMAIN p = DOMAIN k /\ \A x \in DOMAIN k : p[x] = [k[x] EXCEPT !.disk = TRUE]
  BY <1>3, <1>5, <1>6
<1>8. ASSUME NEW x \in DOMAIN k
      PROVE  /\ DOMAIN p[x] = Fields /\ DOMAIN k[x] = Fields
             /\ SameNode(p[x], k[x]) /\ p[x].version = k[x].version
             /\ p[x].hash = k[x].hash /\ p[x].disk = TRUE
  <2>1. DOMAIN k[x] = Fields
    BY <1>5 DEF AllOK, NodeOK, NodeType
  <2>. QED  BY <1>7, <2>1 DEF SameNode, Fields
<1>9. SameShape(k, p)
  BY <1>7, <1>8 DEF SameShape
<1>10. ASSUME NEW x \in DOMAIN k PROVE FreshAt(p, x)
  <2>1. Children(p, x) = Children(k, x) /\ Children(k, x) \subseteq DOMAIN k
    BY <1>7, <1>8 DEF Children, SameNode
  <2>2. \A c \in Children(k, x) : p[c].hash = k[c].hash
    BY <1>8, <2>1
  <2>3. FreshAt(k, x) /\ (k[x].height # 0 => Children(k, x) = {k[x].left, k[x].right})
    BY <1>5 DEF AllOK, NodeOK, BranchOK, Children
  <2>4. HashNode(p, x) = HashNode(k, x)
    <3>1. /\ p[x].height = k[x].height /\ p[x].size = k[x].size /\ p[x].version = k[x].version
          /\ p[x].key = k[x].key /\ p[x].value = k[x].value
          /\ p[x].left = k[x].left /\ p[x].right = k[x].right
      BY <1>8 DEF SameNode
    <3>2. CASE k[x].height = 0
      BY <3>1, <3>2 DEF HashNode, HashInput, IsLeaf
    <3>3. CASE k[x].height # 0
      <4>1. p[k[x].left].hash = k[k[x].left].hash /\ p[k[x].right].hash = k[k[x].right].hash
        BY <2>2, <2>3, <3>3
      <4>. QED  BY <3>1, <3>3, <4>1 DEF HashNode, HashInput, IsLeaf
    <3>. QED  BY <3>2, <3>3
  <2>. QED  BY <1>8, <2>1, <2>2, <2>3, <2>4 DEF FreshAt
<1>11. \A x \in DOMAIN p : FreshAt(p, x) /\ p[x].disk \in BOOLEAN
  BY <1>7, <1>8, <1>10
<1>12. \A x \in DOMAIN p : \A c \in Children(p, x) : p[x].disk => p[c].disk
  BY <1>7, <1>8 DEF Children
<1>13. AllOK(p) /\ \A m : Under(p, m) = Under(k, m) /\ Ent(p, m) = Ent(k, m)
  BY <1>5, <1>9, <1>11, <1>12, ShapeFrame
<1>14. Tree(p, n) /\ Entries(p, n) = Entries(k, n)
  BY <1>5, <1>7, <1>13, SameReach
<1>15. \A x \in DOMAIN p : p[x].version = h[x].version
  <2>1. \A x \in Reach(h, n) : x \in DOMAIN h /\ g[x].version = h[x].version
    BY <1>1, <1>2, ReachInside DEF Hashed, SameShape
  <2>2. ASSUME NEW x \in DOMAIN p PROVE p[x].version = h[x].version
    <3>1. x \in DOMAIN k /\ x \in Reach(h, n) /\ k[x] = g[x]
      BY <1>3, <1>5, <1>7
    <3>. QED  BY <1>8, <2>1, <3>1
  <2>. QED  BY <2>2
<1>16. Opened(h, n, p)
  BY <1>3, <1>5, <1>7, <1>13, <1>14, <1>15 DEF Opened
<1>. QED  BY <1>16 DEF p

-----------------------------------------------------------------------------
(***************************************************************************)
(* The operations of the tree.  A write leaves a new tree at p, and in the *)
(* heap it changes no protected node and none outside the old tree.        *)
(***************************************************************************)
Wrote(h, n, g, p, E, ver, cow) ==
    Grows(h, g, Reach(h, n), ver, cow) /\ Tree(g, p) /\ Entries(g, p) = E

LEMMA BuiltIsWrote ==
    ASSUME NEW h, AllOK(h), NEW n \in DOMAIN h, NEW g, NEW p, NEW E, NEW ver, NEW cow,
           Built(h, g, p, Under(h, n), E, ver, cow)
    PROVE  Wrote(h, n, g, p, E, ver, cow)
<1>1. Reach(h, n) = Under(h, n)
  BY AllWF, ReachIsUnder DEF AllOK
<1>2. HeapOK(g) /\ WF(g, p) /\ Ent(g, p) = E
  BY DEF Built, Grows
<1>3. Entries(g, p) = E
  BY <1>2, EntriesAreEnt
<1>. QED  BY <1>1, <1>2, <1>3 DEF Wrote, Built, Tree

\* Nothing was written.
LEMMA StayIsWrote ==
    ASSUME NEW h, AllOK(h), NEW n, NEW p, Tree(h, p), NEW E, Entries(h, p) = E,
           NEW ver, NEW cow
    PROVE  Wrote(h, n, h, p, E, ver, cow)
  BY DEF Wrote, Grows, AllOK

\* Tree.set, on every tree: the key has the new value, every other key what it
\* had.
LEMMA SetOK ==
    ASSUME NEW h, AllOK(h), NEW n, Tree(h, n), NEW key \in Key, NEW value \in Value,
           NEW ver \in Nat, NEW cow \in Nat, cow < ver
    PROVE  Wrote(h, n, setRecursive(h, n, key, value, ver, cow).heap,
                 setRecursive(h, n, key, value, ver, cow).node,
                 Written(Entries(h, n), key, value), ver, cow)
<1>0. HeapOK(h)
  BY DEF AllOK
<1>1. CASE n = Nil
  <2>. DEFINE g == Alloc(h, newLeafNode(key, value, ver))
              x == Fresh(h)
  <2>1. /\ setRecursive(h, n, key, value, ver, cow).heap = g
        /\ setRecursive(h, n, key, value, ver, cow).node = x
    BY <1>1 DEF setRecursive
  <2>2. /\ HeapOK(g) /\ DOMAIN g = DOMAIN h \cup {x} /\ g[x] = newLeafNode(key, value, ver)
        /\ \A y \in DOMAIN h : g[y] = h[y]
    BY <1>0, AllocFacts
  <2>. HIDE DEF g, x
  <2>3. LeafAt(g, x, key, value, ver)
    BY <2>2 DEF LeafAt, newLeafNode, Fields
  <2>4. LeafMade(g, x, key, value)
    BY <2>2, <2>3, MakeLeaf
  <2>5. WF(g, x) /\ Entries(g, x) = {<<key, value>>}
    BY <2>2, <2>4, EntriesAreEnt DEF LeafMade
  <2>6. Written(Entries(h, n), key, value) = {<<key, value>>}
    BY <1>0, <1>1, NilIsEmpty DEF Written, Less
  <2>7. g[x].version = ver
    BY <2>3 DEF LeafAt
  <2>8. Grows(h, g, Reach(h, n), ver, cow)
    BY <2>2, <2>7 DEF Grows
  <2>9. Wrote(h, n, g, x, Written(Entries(h, n), key, value), ver, cow)
    BY <2>5, <2>6, <2>8 DEF Wrote, Tree
  <2>. QED  BY <2>1, <2>9
<1>2. CASE n # Nil
  <2>. DEFINE r == SetAt(h, key, value, ver, cow)[n]
  <2>1. setRecursive(h, n, key, value, ver, cow) = r
    BY <1>2 DEF setRecursive
  <2>. HIDE DEF r
  <2>2. n \in DOMAIN h /\ WF(h, n)
    BY <1>2 DEF Tree, WF
  <2>3. SetDone(h, n, r, key, value, ver, cow)
    BY <2>2, SetAtOK DEF r
  <2>4. Built(h, r.heap, r.node, Under(h, n), Written(Ent(h, n), key, value), ver, cow)
    BY <2>3 DEF SetDone
  <2>5. Entries(h, n) = Ent(h, n)
    BY <1>0, <2>2, EntriesAreEnt
  <2>6. Wrote(h, n, r.heap, r.node, Written(Entries(h, n), key, value), ver, cow)
    BY <2>2, <2>4, <2>5, BuiltIsWrote
  <2>. QED  BY <2>1, <2>6
<1>. QED  BY <1>1, <1>2

\* Tree.remove, on every tree: the key is gone, every other key has what it had.
LEMMA RemoveOK ==
    ASSUME NEW h, AllOK(h), NEW n, Tree(h, n), NEW key \in Key,
           NEW ver \in Nat, NEW cow \in Nat, cow < ver
    PROVE  Wrote(h, n, removeRecursive(h, n, key, ver, cow).heap,
                 removeRecursive(h, n, key, ver, cow).node,
                 Less(Entries(h, n), key), ver, cow)
<1>0. HeapOK(h)
  BY DEF AllOK
<1>1. CASE n = Nil
  <2>1. /\ removeRecursive(h, n, key, ver, cow).heap = h
        /\ removeRecursive(h, n, key, ver, cow).node = n
    BY <1>1 DEF removeRecursive
  <2>2. Less(Entries(h, n), key) = Entries(h, n)
    BY <1>0, <1>1, NilIsEmpty DEF Less
  <2>3. Wrote(h, n, h, n, Less(Entries(h, n), key), ver, cow)
    BY <2>2, StayIsWrote
  <2>. QED  BY <2>1, <2>3
<1>2. CASE n # Nil
  <2>. DEFINE r == RemoveAt(h, key, ver, cow)[n]
  <2>1. removeRecursive(h, n, key, ver, cow) = r
    BY <1>2 DEF removeRecursive
  <2>2. n \in DOMAIN h /\ WF(h, n) /\ NodeOK(h, n)
    BY <1>2 DEF Tree, WF, AllOK
  <2>3. RemoveDone(h, n, r, key, ver, cow)
    BY <2>2, RemoveAtOK
  <2>. HIDE DEF r
  <2>4. Entries(h, n) = Ent(h, n)
    BY <1>0, <2>2, EntriesAreEnt
  <2>5. CASE r.value = NoValue
    <3>1. r.heap = h /\ r.node = n /\ key \notin Keys(h, n)
      BY <2>3, <2>5 DEF RemoveDone
    <3>2. Less(Ent(h, n), key) = Ent(h, n)
      BY <3>1 DEF Less, Ent, Keys
    <3>. QED  BY <2>1, <2>4, <3>1, <3>2, StayIsWrote
  <2>6. CASE r.value # NoValue /\ r.node = Nil
    <3>1. r.heap = h /\ h[n].height = 0 /\ h[n].key = key
      BY <2>3, <2>6 DEF RemoveDone
    <3>2. Ent(h, n) = {<<key, h[n].value>>}
      BY <1>0, <2>2, <3>1, LeafTree
    <3>3. Less(Ent(h, n), key) = {}
      BY <3>2 DEF Less
    <3>4. Tree(h, Nil) /\ Entries(h, Nil) = {}
      BY <1>0, NilIsEmpty DEF Tree
    <3>. QED  BY <2>1, <2>4, <2>6, <3>1, <3>3, <3>4, StayIsWrote
  <2>7. CASE r.value # NoValue /\ r.node # Nil
    <3>1. Built(h, r.heap, r.node, Under(h, n), Less(Ent(h, n), key), ver, cow)
      BY <2>3, <2>7 DEF RemoveDone
    <3>. QED  BY <2>1, <2>2, <2>4, <3>1, BuiltIsWrote
  <2>. QED  BY <2>5, <2>6, <2>7
<1>. QED  BY <1>1, <1>2

\* The state after a write: the copy at c is what it was.
Installed(h, c, p, E, ver, k) ==
    /\ AllOK(k) /\ Tree(k, p) /\ Tree(k, c) /\ Entries(k, p) = E
    /\ Reach(k, c) = Reach(h, c) /\ Entries(k, c) = Entries(h, c)
    /\ \A x \in Reach(h, c) : x \in DOMAIN k /\ k[x] = h[x]
    /\ \A x \in DOMAIN k : k[x].version = ver \/ (x \in DOMAIN h /\ k[x] = h[x])

LEMMA InstallOK ==
    ASSUME NEW h, AllOK(h), NEW n, NEW c, Tree(h, c), NEW g, NEW p, NEW E,
           NEW ver, NEW cow, \A x \in Reach(h, c) : Prot(h, x, cow),
           Wrote(h, n, g, p, E, ver, cow)
    PROVE  Installed(h, c, p, E, ver, Live(g, p, c))
<1>. DEFINE k == Live(g, p, c)
<1>0. HeapOK(h) /\ HeapOK(g) /\ Tree(g, p) /\ Entries(g, p) = E
  BY DEF AllOK, Wrote, Grows
<1>1. \A x \in Reach(h, c) : x \in DOMAIN h /\ x \in DOMAIN g /\ g[x] = h[x]
  BY <1>0, ReachInside DEF Wrote, Grows
<1>2. Tree(g, c) /\ Reach(g, c) = Reach(h, c) /\ Entries(g, c) = Entries(h, c)
  <2>1. CASE c = Nil
    BY <1>0, <2>1, NilIsEmpty DEF Tree
  <2>2. CASE c # Nil
    <3>1. WF(h, c) /\ Reach(h, c) = Under(h, c)
      BY <1>0, <2>2, ReachIsUnder DEF Tree
    <3>2. WF(g, c) /\ Under(g, c) = Under(h, c) /\ Ent(g, c) = Ent(h, c)
      BY <1>0, <1>1, <3>1, NodeFrame
    <3>3. Reach(g, c) = Under(g, c) /\ Entries(g, c) = Ent(g, c) /\ Entries(h, c) = Ent(h, c)
      BY <1>0, <3>1, <3>2, ReachIsUnder, EntriesAreEnt
    <3>. QED  BY <3>1, <3>2, <3>3 DEF Tree
  <2>. QED  BY <2>1, <2>2
<1>3. Collected(g, p, c, k)
  BY <1>0, <1>2, LiveOK
<1>. HIDE DEF k
<1>4. \A x \in DOMAIN k : x \in DOMAIN g /\ k[x] = g[x]
  <2>1. Reach(g, p) \subseteq DOMAIN g /\ Reach(g, c) \subseteq DOMAIN g
    BY <1>0, <1>2, ReachInside
  <2>. QED  BY <1>3, <2>1 DEF Collected
<1>5. \A x \in DOMAIN k : k[x].version = ver \/ (x \in DOMAIN h /\ k[x] = h[x])
  BY <1>4 DEF Wrote, Grows
<1>6. Installed(h, c, p, E, ver, k)
  BY <1>0, <1>1, <1>2, <1>3, <1>5 DEF Installed, Collected
<1>. QED  BY <1>6 DEF k

-----------------------------------------------------------------------------
(***************************************************************************)
(* The specification.                                                      *)
(***************************************************************************)
\* Every node of the heap belongs to a well-formed tree and was written by the
\* block that is being applied or by an earlier one.
HeapInv ==
    /\ AllOK(heap) /\ Tree(heap, root) /\ Tree(heap, copyRoot)
    /\ \A x \in DOMAIN heap : heap[x].version \in 1 .. version + 1

VersionInv ==
    /\ version \in 0 .. MaxVersion /\ cowVersion \in 0 .. version
    /\ copyVersion \in {NoCopy} \cup 0 .. version
    /\ copyVersion = NoCopy => copyRoot = Nil

CacheInv ==
    /\ cacheSize \in Nat /\ DOMAIN cache \subseteq Key /\ IsFiniteSet(DOMAIN cache)
    /\ Cardinality(DOMAIN cache) =< cacheSize
    /\ CacheAgrees

TreeInv == HeapInv /\ VersionInv /\ CacheInv /\ CopyProtected

\* What CopyIsolated says of a step.
CopyKept ==
    copyVersion' = copyVersion =>
        /\ copyRoot' = copyRoot
        /\ \A n \in Reach(heap, copyRoot) : n \in DOMAIN heap' /\ heap'[n] = heap[n]

LEMMA TypeOfConstants ==
    /\ Key \subseteq Nat \ {0} /\ NoValue \notin Value /\ CacheSizes \subseteq Nat
    /\ MaxVersion \in Nat
    /\ \A v \in 0 .. MaxVersion : KeysAt(v) \subseteq Key /\ ValuesAt(v) \subseteq Value
  BY TreeAssumption

LEMMA MinOfTwo ==
    ASSUME NEW a \in Nat, NEW b \in Nat
    PROVE  Min({a, b}) \in Nat /\ Min({a, b}) =< a
<1>1. \E x \in {a, b} : \A y \in {a, b} : x =< y
  <2>1. CASE a =< b
    BY <2>1
  <2>2. CASE b =< a
    BY <2>2
  <2>. QED  BY <2>1, <2>2
<1>2. Min({a, b}) \in {a, b} /\ \A y \in {a, b} : Min({a, b}) =< y
  BY <1>1 DEF Min
<1>. QED  BY <1>2

LEMMA MaxOfTwo ==
    ASSUME NEW a \in Nat, NEW b \in Nat
    PROVE  Max({a, b}) = IF a > b THEN a ELSE b
<1>1. \E x \in {a, b} : \A y \in {a, b} : x >= y
  <2>1. CASE a > b
    BY <2>1
  <2>2. CASE ~(a > b)
    BY <2>2
  <2>. QED  BY <2>1, <2>2
<1>2. Max({a, b}) \in {a, b} /\ \A y \in {a, b} : Max({a, b}) >= y
  BY <1>1 DEF Max
<1>. QED  BY <1>2

LEMMA InvWellFormed == HeapInv => WellFormed
<1>. SUFFICES ASSUME HeapInv, NEW n \in DOMAIN heap, heap[n].height # 0
              PROVE  LET l      == heap[n].left
                         r      == heap[n].right
                         lower  == KeysOf(heap, l)
                         higher == KeysOf(heap, r)
                     IN /\ heap[n].height = Max({heap[l].height, heap[r].height}) + 1
                        /\ heap[n].size = Cardinality(lower \cup higher)
                        /\ calcBalance(heap, n) \in -1 .. 1
                        /\ heap[n].key \in higher
                        /\ \A k \in higher : heap[n].key =< k
                        /\ \A k \in lower : k < heap[n].key
  BY DEF WellFormed, Nodes, IsLeaf
<1>. DEFINE l == heap[n].left
            r == heap[n].right
<1>1. AllOK(heap) /\ HeapOK(heap)
  BY DEF HeapInv, AllOK
<1>2. BranchOK(heap, n) /\ l \in DOMAIN heap /\ r \in DOMAIN heap
  BY <1>1 DEF AllOK, NodeOK, BranchOK
<1>3. WF(heap, n) /\ WF(heap, l) /\ WF(heap, r)
  BY <1>1, <1>2, AllWF
<1>4. \A m \in {l, r} : KeysOf(heap, m) = Keys(heap, m)
  BY <1>1, <1>3, EntriesAreEnt, KeysOfEnt DEF KeysOf
<1>5. Keys(heap, n) = Keys(heap, l) \cup Keys(heap, r)
  BY <1>1, <1>3, WFBranch
<1>6. heap[n].size = Cardinality(Keys(heap, l) \cup Keys(heap, r))
  BY <1>1, <1>5, SizeIsKeys
<1>7. heap[l].height \in Nat /\ heap[r].height \in Nat
  BY <1>1, <1>2 DEF AllOK, NodeOK, NodeType
<1>8. heap[n].height = Max({heap[l].height, heap[r].height}) + 1
  BY <1>2, <1>7, MaxOfTwo DEF BranchOK, Measured, TallerOf
<1>9. /\ heap[n].key \in Keys(heap, r) /\ \A k \in Keys(heap, r) : heap[n].key =< k
      /\ \A k \in Keys(heap, l) : k < heap[n].key
  BY <1>2 DEF BranchOK, Sorted
<1>10. calcBalance(heap, n) \in -1 .. 1
  BY <1>2 DEF BranchOK
<1>. QED  BY <1>4, <1>6, <1>8, <1>9, <1>10

LEMMA InvHashFresh == HeapInv => HashFresh
  BY DEF HeapInv, AllOK, NodeOK, FreshAt, HashFresh, Nodes

LEMMA InvTypeOK == TreeInv => TypeOK
<1>. SUFFICES ASSUME TreeInv PROVE TypeOK
  OBVIOUS
<1>1. AllOK(heap) /\ HeapInv /\ VersionInv /\ CacheInv /\ MaxVersion \in Nat
  BY TypeOfConstants DEF TreeInv, HeapInv
<1>2. ASSUME NEW n \in Nodes
      PROVE  /\ heap[n].key \in Key /\ heap[n].value \in Value \cup {NoValue}
             /\ heap[n].left \in {Nil} \cup Nodes /\ heap[n].right \in {Nil} \cup Nodes
  BY <1>1 DEF Nodes, AllOK, NodeOK, NodeType, LeafOK, BranchOK
<1>3. \A n \in Nodes : heap[n].version \in 1 .. MaxVersion + 1
  BY <1>1 DEF HeapInv, VersionInv, Nodes
<1>4. {root, copyRoot} \subseteq {Nil} \cup Nodes
  BY <1>1 DEF HeapInv, Tree, WF, Nodes
<1>5. /\ version \in 0 .. MaxVersion /\ cowVersion \in 0 .. MaxVersion
      /\ copyVersion \in {NoCopy} \cup 0 .. MaxVersion
  BY <1>1 DEF VersionInv, NoCopy
<1>6. DOMAIN cache \subseteq Key /\ Cardinality(DOMAIN cache) =< cacheSize
  BY <1>1 DEF CacheInv
<1>. QED  BY <1>2, <1>3, <1>4, <1>5, <1>6 DEF TypeOK

LEMMA InitInv == Init => TreeInv
<1>. SUFFICES ASSUME Init PROVE TreeInv
  OBVIOUS
<1>1. DOMAIN heap = {} /\ HeapOK(heap)
  BY FS_EmptySet DEF Init, HeapOK
<1>2. HeapInv
  BY <1>1 DEF Init, HeapInv, AllOK, Tree
<1>3. VersionInv
  BY TypeOfConstants DEF Init, VersionInv
<1>4. CacheInv
  <2>1. DOMAIN cache = {} /\ cacheSize \in Nat
    BY TypeOfConstants DEF Init, EmptyCache
  <2>. QED  BY <2>1, FS_EmptySet DEF CacheInv, CacheAgrees
<1>5. CopyProtected
  BY <1>1, NilIsEmpty DEF Init, CopyProtected
<1>. QED  BY <1>2, <1>3, <1>4, <1>5 DEF TreeInv

\* The LRU cache keeps its size, and of the keys it holds only the added one
\* gets another value.
CacheAdded(key, value) ==
    /\ DOMAIN cache' \subseteq DOMAIN cache \cup {key} /\ IsFiniteSet(DOMAIN cache')
    /\ Cardinality(DOMAIN cache') =< cacheSize
    /\ \A k \in DOMAIN cache' : IF k = key THEN cache'[k] = value ELSE cache'[k] = cache[k]

LEMMA CacheAddOK ==
    ASSUME CacheInv, NEW key \in Key, NEW value, CacheAdd(key, value)
    PROVE  CacheAdded(key, value)
<1>1. /\ cacheSize \in Nat /\ IsFiniteSet(DOMAIN cache) /\ Cardinality(DOMAIN cache) \in Nat
      /\ Cardinality(DOMAIN cache) =< cacheSize
  BY FS_CardinalityType DEF CacheInv
<1>2. CASE cacheSize = 0
  <2>1. cache' = cache
    BY <1>2 DEF CacheAdd
  <2>2. DOMAIN cache = {}
    BY <1>1, <1>2, FS_EmptySet
  <2>. QED  BY <1>1, <2>1, <2>2 DEF CacheAdded
<1>3. CASE cacheSize # 0
  <2>. DEFINE old == DOMAIN cache \ {key}
  <2>1. PICK kept \in SUBSET old :
           /\ Cardinality(kept) = Min({cacheSize - 1, Cardinality(old)})
           /\ cache' = [k \in kept \cup {key} |-> IF k = key THEN value ELSE cache[k]]
    BY <1>3 DEF CacheAdd
  <2>2. IsFiniteSet(old) /\ Cardinality(old) \in Nat
    BY <1>1, FS_Subset, FS_CardinalityType
  <2>3. IsFiniteSet(kept) /\ key \notin kept
    BY <2>1, <2>2, FS_Subset
  <2>4. Cardinality(kept) \in Nat /\ Cardinality(kept) =< cacheSize - 1
    <3>. HIDE DEF old
    <3>1. cacheSize - 1 \in Nat
      BY <1>1, <1>3
    <3>. QED  BY <2>1, <2>2, <3>1, MinOfTwo
  <2>5. DOMAIN cache' = kept \cup {key}
    BY <2>1
  <2>6. IsFiniteSet(kept \cup {key}) /\ Cardinality(kept \cup {key}) = Cardinality(kept) + 1
    BY <2>3, FS_AddElement
  <2>7. Cardinality(DOMAIN cache') =< cacheSize
    BY <1>1, <2>4, <2>5, <2>6
  <2>8. \A k \in DOMAIN cache' : IF k = key THEN cache'[k] = value ELSE cache'[k] = cache[k]
    BY <2>1, <2>5
  <2>. QED  BY <2>1, <2>5, <2>6, <2>7, <2>8 DEF CacheAdded
<1>. QED  BY <1>2, <1>3

\* What all writes have in common.
LEMMA WriteKeepsHeap ==
    ASSUME TreeInv, NEW g, NEW p, NEW E, root' = p, heap' = Live(g, p, copyRoot),
           Wrote(heap, root, g, p, E, version + 1, cowVersion),
           UNCHANGED <<cacheSize, version, cowVersion, copyRoot, copyVersion>>
    PROVE  /\ HeapInv' /\ VersionInv' /\ CopyProtected' /\ CopyKept
           /\ Entries(heap', root') = E /\ Entries(heap', copyRoot') = Entries(heap, copyRoot)
<1>1. AllOK(heap) /\ Tree(heap, copyRoot) /\ version \in Nat
  BY DEF TreeInv, HeapInv, VersionInv
<1>2. \A x \in Reach(heap, copyRoot) : Prot(heap, x, cowVersion)
  BY DEF TreeInv, CopyProtected, Prot
<1>3. Installed(heap, copyRoot, p, E, version + 1, heap')
  BY <1>1, <1>2, InstallOK
<1>4. HeapInv'
  <2>1. ASSUME NEW x \in DOMAIN heap' PROVE heap'[x].version \in 1 .. version + 1
    <3>1. heap'[x].version = version + 1 \/ (x \in DOMAIN heap /\ heap'[x] = heap[x])
      BY <1>3 DEF Installed
    <3>. QED  BY <1>1, <3>1 DEF TreeInv, HeapInv
  <2>. QED  BY <1>3, <2>1 DEF HeapInv, Installed
<1>5. VersionInv'
  BY DEF TreeInv, VersionInv
<1>6. CopyProtected'
  <2>1. /\ Reach(heap', copyRoot') = Reach(heap, copyRoot)
        /\ \A x \in Reach(heap, copyRoot) : heap'[x] = heap[x]
    BY <1>3 DEF Installed
  <2>. QED  BY <2>1 DEF TreeInv, CopyProtected
<1>7. CopyKept
  BY <1>3 DEF Installed, CopyKept
<1>8. Entries(heap', root') = E /\ Entries(heap', copyRoot') = Entries(heap, copyRoot)
  BY <1>3 DEF Installed
<1>. QED  BY <1>4, <1>5, <1>6, <1>7, <1>8

\* The abstract map is what the tree stands for.
LEMMA MapWithout ==
    ASSUME NEW E, NEW k
    PROVE  Map!Without(E, k) = Less(E, k)
  BY DEF Map!Without, Less

LEMMA SetStep ==
    ASSUME TreeInv, NEW k \in Key, NEW v \in Value, Set(k, v)
    PROVE  TreeInv' /\ CopyKept /\ Map!Write(k, v)
<1>. DEFINE r == setRecursive(heap, root, k, v, version + 1, cowVersion)
            E == Written(Entries(heap, root), k, v)
<1>1. /\ root' = r.node /\ heap' = Live(r.heap, r.node, copyRoot) /\ CacheAdd(k, v)
      /\ UNCHANGED <<cacheSize, version, cowVersion, copyRoot, copyVersion>>
  BY DEF Set, Install
<1>2. /\ AllOK(heap) /\ Tree(heap, root) /\ version + 1 \in Nat /\ cowVersion \in Nat
      /\ cowVersion < version + 1
  BY DEF TreeInv, HeapInv, VersionInv
<1>3. Wrote(heap, root, r.heap, r.node, E, version + 1, cowVersion)
  BY <1>2, SetOK
<1>. HIDE DEF r
<1>4. /\ HeapInv' /\ VersionInv' /\ CopyProtected' /\ CopyKept
      /\ Entries(heap', root') = E /\ Entries(heap', copyRoot') = Entries(heap, copyRoot)
  BY <1>1, <1>3, WriteKeepsHeap
<1>5. CacheInv'
  <2>1. CacheAdded(k, v) /\ CacheInv
    BY <1>1, CacheAddOK DEF TreeInv
  <2>2. ASSUME NEW i \in DOMAIN cache' PROVE <<i, cache'[i]>> \in Entries(heap', root')
    <3>1. CASE i = k
      BY <1>4, <2>1, <3>1 DEF CacheAdded, Written
    <3>2. CASE i # k
      <4>1. cache'[i] = cache[i] /\ <<i, cache[i]>> \in Entries(heap, root)
        BY <2>1, <3>2 DEF CacheAdded, CacheInv, CacheAgrees
      <4>. QED  BY <1>4, <3>2, <4>1 DEF Written, Less
    <3>. QED  BY <3>1, <3>2
  <2>3. CacheAgrees'
    BY <2>2 DEF CacheAgrees
  <2>. QED  BY <1>1, <2>1, <2>3 DEF CacheInv, CacheAdded
<1>6. Map!Write(k, v)
  BY <1>1, <1>4, MapWithout DEF Map!Write, Written
<1>. QED  BY <1>4, <1>5, <1>6 DEF TreeInv

LEMMA RemoveStep ==
    ASSUME TreeInv, NEW k \in Key, Remove(k)
    PROVE  TreeInv' /\ CopyKept /\ Map!Delete(k)
<1>. DEFINE r == removeRecursive(heap, root, k, version + 1, cowVersion)
            E == Less(Entries(heap, root), k)
<1>1. /\ root' = r.node /\ heap' = Live(r.heap, r.node, copyRoot)
      /\ cache' = [i \in DOMAIN cache \ {k} |-> cache[i]]
      /\ UNCHANGED <<cacheSize, version, cowVersion, copyRoot, copyVersion>>
  BY DEF Remove, Install, CacheRemove
<1>2. /\ AllOK(heap) /\ Tree(heap, root) /\ version + 1 \in Nat /\ cowVersion \in Nat
      /\ cowVersion < version + 1
  BY DEF TreeInv, HeapInv, VersionInv
<1>3. Wrote(heap, root, r.heap, r.node, E, version + 1, cowVersion)
  BY <1>2, RemoveOK
<1>. HIDE DEF r
<1>4. /\ HeapInv' /\ VersionInv' /\ CopyProtected' /\ CopyKept
      /\ Entries(heap', root') = E /\ Entries(heap', copyRoot') = Entries(heap, copyRoot)
  BY <1>1, <1>3, WriteKeepsHeap
<1>5. CacheInv'
  <2>1. CacheInv
    BY DEF TreeInv
  <2>2. DOMAIN cache' = DOMAIN cache \ {k} /\ \A i \in DOMAIN cache' : cache'[i] = cache[i]
    BY <1>1
  <2>3. \A i \in DOMAIN cache' : <<i, cache'[i]>> \in Entries(heap', root')
    BY <1>4, <2>1, <2>2 DEF CacheInv, CacheAgrees, Less
  <2>4. IsFiniteSet(DOMAIN cache') /\ Cardinality(DOMAIN cache') =< Cardinality(DOMAIN cache)
    BY <2>1, <2>2, FS_Subset DEF CacheInv
  <2>5. Cardinality(DOMAIN cache') \in Nat /\ Cardinality(DOMAIN cache) \in Nat
    BY <2>1, <2>4, FS_CardinalityType DEF CacheInv
  <2>6. CacheAgrees'
    BY <2>3 DEF CacheAgrees
  <2>. QED  BY <1>1, <2>1, <2>2, <2>4, <2>5, <2>6 DEF CacheInv
<1>6. Map!Delete(k)
  BY <1>1, <1>4, MapWithout DEF Map!Delete
<1>. QED  BY <1>4, <1>5, <1>6 DEF TreeInv

\* A cached read of an uncached key.
LEMMA GetStep ==
    ASSUME TreeInv, NEW k \in Key, GetUncached(k)
    PROVE  TreeInv' /\ CopyKept /\ UNCHANGED Map!vars
<1>. DEFINE value == Get(heap, root, k).value
<1>1. /\ root # Nil /\ value # NoValue /\ CacheAdd(k, value)
      /\ UNCHANGED <<cacheSize, heap, root, version, cowVersion, copyRoot, copyVersion>>
  BY DEF GetUncached
<1>2. AllOK(heap) /\ HeapOK(heap) /\ WF(heap, root) /\ root \in DOMAIN heap /\ CacheInv
  BY <1>1 DEF TreeInv, HeapInv, AllOK, Tree, WF
<1>3. <<k, value>> \in Entries(heap, root)
  <2>1. GetDone(heap, root, Get(heap, root, k), k)
    BY <1>2, GetAtOK DEF Get
  <2>2. <<k, value>> \in Ent(heap, root)
    BY <1>1, <2>1 DEF GetDone
  <2>. QED  BY <1>2, <2>2, EntriesAreEnt
<1>. HIDE DEF value
<1>4. CacheAdded(k, value)
  BY <1>1, <1>2, CacheAddOK
<1>5. CacheInv'
  <2>1. \A i \in DOMAIN cache' : <<i, cache'[i]>> \in Entries(heap, root)
    BY <1>2, <1>3, <1>4 DEF CacheAdded, CacheInv, CacheAgrees
  <2>2. CacheAgrees'
    BY <1>1, <2>1 DEF CacheAgrees
  <2>. QED  BY <1>1, <1>2, <1>4, <2>2 DEF CacheInv, CacheAdded
<1>6. HeapInv' /\ VersionInv' /\ CopyProtected'
  BY <1>1 DEF TreeInv, HeapInv, VersionInv, CopyProtected
<1>7. CopyKept
  <2>1. Reach(heap, copyRoot) \subseteq DOMAIN heap
    BY <1>2, ReachInside DEF TreeInv, HeapInv
  <2>. QED  BY <1>1, <2>1 DEF CopyKept
<1>8. UNCHANGED Map!vars
  BY <1>1 DEF Map!vars
<1>. QED  BY <1>5, <1>6, <1>7, <1>8 DEF TreeInv

\* The heap after the hashes of the working tree were computed.
LEMMA HashedKeeps ==
    ASSUME TreeInv
    PROVE  /\ Hashed(heap, root, HashedHeap) /\ AllOK(HashedHeap)
           /\ Tree(HashedHeap, root) /\ Tree(HashedHeap, copyRoot)
           /\ Reach(HashedHeap, root) = Reach(heap, root)
           /\ Reach(HashedHeap, copyRoot) = Reach(heap, copyRoot)
           /\ Entries(HashedHeap, root) = Entries(heap, root)
           /\ Entries(HashedHeap, copyRoot) = Entries(heap, copyRoot)
           /\ DOMAIN HashedHeap = DOMAIN heap
           /\ \A x \in Reach(heap, copyRoot) : x \in DOMAIN heap /\ HashedHeap[x] = heap[x]
           /\ \A x \in DOMAIN heap : HashedHeap[x].version = heap[x].version
<1>1. AllOK(heap) /\ HeapOK(heap) /\ Tree(heap, root) /\ Tree(heap, copyRoot)
  BY DEF TreeInv, HeapInv, AllOK
<1>2. Hashed(heap, root, HashedHeap)
  BY <1>1, HashOK DEF HashedHeap
<1>3. /\ AllOK(HashedHeap) /\ DOMAIN HashedHeap = DOMAIN heap
      /\ \A m : Under(HashedHeap, m) = Under(heap, m) /\ Ent(HashedHeap, m) = Ent(heap, m)
      /\ \A x \in DOMAIN heap : HashedHeap[x].version = heap[x].version
  BY <1>2 DEF Hashed, SameShape
<1>4. \A n \in {root, copyRoot} : /\ Tree(HashedHeap, n) /\ Reach(HashedHeap, n) = Reach(heap, n)
                                  /\ Entries(HashedHeap, n) = Entries(heap, n)
  BY <1>1, <1>3, SameReach
<1>5. \A x \in Reach(heap, copyRoot) : x \in DOMAIN heap /\ HashedHeap[x] = heap[x]
  <2>1. \A x \in Reach(heap, copyRoot) : x \in DOMAIN heap /\ heap[x].hash # NoHash
    BY <1>1, ReachInside DEF TreeInv, CopyProtected
  <2>. QED  BY <1>2, <2>1 DEF Hashed
<1>. QED  BY <1>2, <1>3, <1>4, <1>5

\* Hashing, and counting the version up, leave the map and the copy alone.
LEMMA HashKeeps ==
    ASSUME TreeInv, heap' = HashedHeap \/ heap' = heap,
           version' \in {version, version + 1}, version' \in 0 .. MaxVersion,
           UNCHANGED <<cacheSize, root, cowVersion, cache, copyRoot, copyVersion>>
    PROVE  /\ TreeInv' /\ CopyKept
           /\ Entries(heap', root') = Entries(heap, root)
           /\ Entries(heap', copyRoot') = Entries(heap, copyRoot)
<1>1. /\ AllOK(heap') /\ Tree(heap', root) /\ Tree(heap', copyRoot)
      /\ Reach(heap', copyRoot) = Reach(heap, copyRoot)
      /\ Entries(heap', root) = Entries(heap, root)
      /\ Entries(heap', copyRoot) = Entries(heap, copyRoot)
      /\ DOMAIN heap' = DOMAIN heap
      /\ \A x \in Reach(heap, copyRoot) : x \in DOMAIN heap /\ heap'[x] = heap[x]
      /\ \A x \in DOMAIN heap : heap'[x].version = heap[x].version
  <2>1. CASE heap' = HashedHeap
    BY <2>1, HashedKeeps
  <2>2. CASE heap' = heap
    BY <2>2, ReachInside DEF TreeInv, HeapInv, AllOK
  <2>. QED  BY <2>1, <2>2
<1>2. HeapInv'
  <2>1. \A x \in DOMAIN heap' : heap'[x].version \in 1 .. version' + 1
    BY <1>1 DEF TreeInv, HeapInv, VersionInv
  <2>. QED  BY <1>1, <2>1 DEF HeapInv
<1>3. VersionInv'
  BY DEF TreeInv, VersionInv, NoCopy
<1>4. CacheInv'
  BY <1>1 DEF TreeInv, CacheInv, CacheAgrees
<1>5. CopyProtected'
  BY <1>1 DEF TreeInv, CopyProtected
<1>6. CopyKept
  BY <1>1 DEF CopyKept
<1>. QED  BY <1>1, <1>2, <1>3, <1>4, <1>5, <1>6 DEF TreeInv

LEMMA RootHashStep ==
    ASSUME TreeInv, RootHash
    PROVE  TreeInv' /\ CopyKept /\ UNCHANGED Map!vars
<1>1. /\ TreeInv' /\ CopyKept /\ Entries(heap', root') = Entries(heap, root)
      /\ Entries(heap', copyRoot') = Entries(heap, copyRoot)
  <2>1. version \in 0 .. MaxVersion
    BY DEF TreeInv, VersionInv
  <2>. QED  BY <2>1, HashKeeps DEF RootHash
<1>. QED  BY <1>1 DEF RootHash, Map!vars

LEMMA SaveVersionStep ==
    ASSUME TreeInv, NEW updateHash \in BOOLEAN, SaveVersion(updateHash)
    PROVE  TreeInv' /\ CopyKept /\ Map!Save
<1>1. /\ TreeInv' /\ CopyKept /\ Entries(heap', root') = Entries(heap, root)
      /\ Entries(heap', copyRoot') = Entries(heap, copyRoot)
  <2>1. version' = version + 1 /\ version' \in 0 .. MaxVersion
    BY TypeOfConstants DEF TreeInv, VersionInv, SaveVersion
  <2>2. heap' = HashedHeap \/ heap' = heap
    BY DEF SaveVersion
  <2>. QED  BY <2>1, <2>2, HashKeeps DEF SaveVersion
<1>. QED  BY <1>1 DEF SaveVersion, Map!Save

\* The MemNodes of the copy are protected by the version that is saved; with a
\* persisted root there are none.
LEMMA CommitAndCopyStep ==
    ASSUME TreeInv, CommitAndCopy
    PROVE  TreeInv' /\ CopyKept /\ Map!SaveAndFreeze
<1>1. /\ version < MaxVersion /\ copyVersion = NoCopy /\ version' = version + 1
      /\ cowVersion' = IF root # Nil /\ ~heap[root].disk THEN version + 1 ELSE cowVersion
      /\ heap' = HashedHeap /\ copyRoot' = root /\ copyVersion' = version + 1
      /\ UNCHANGED <<cacheSize, root, cache>>
  BY DEF CommitAndCopy
<1>2. /\ Hashed(heap, root, heap') /\ AllOK(heap') /\ Tree(heap', root)
      /\ Reach(heap', root) = Reach(heap, root) /\ Entries(heap', root) = Entries(heap, root)
      /\ DOMAIN heap' = DOMAIN heap
      /\ \A x \in DOMAIN heap : heap'[x].version = heap[x].version
  BY <1>1, HashedKeeps
<1>3. version \in Nat /\ MaxVersion \in Nat /\ cowVersion \in 0 .. version
  BY TypeOfConstants DEF TreeInv, VersionInv
<1>4. HeapInv'
  <2>1. \A x \in DOMAIN heap' : heap'[x].version \in 1 .. version' + 1
    BY <1>1, <1>2, <1>3 DEF TreeInv, HeapInv
  <2>. QED  BY <1>1, <1>2, <2>1 DEF HeapInv
<1>5. VersionInv'
  BY <1>1, <1>3 DEF VersionInv, NoCopy
<1>6. CacheInv'
  BY <1>1, <1>2 DEF TreeInv, CacheInv, CacheAgrees
<1>7. ASSUME NEW x \in Reach(heap, root)
      PROVE  /\ heap'[x].disk \/ heap'[x].version =< cowVersion'
             /\ heap'[x].version =< copyVersion' /\ heap'[x].hash # NoHash
  <2>1. AllOK(heap) /\ Tree(heap, root) /\ HeapOK(heap)
    BY DEF TreeInv, HeapInv, AllOK
  <2>2. x \in DOMAIN heap /\ heap[x].version \in 1 .. version + 1
    BY <2>1, ReachInside DEF TreeInv, HeapInv
  <2>3. heap'[x].disk = heap[x].disk /\ heap'[x].hash # NoHash
    BY <1>2, <2>2 DEF Hashed
  <2>4. heap'[x].version =< version + 1
    BY <1>2, <1>3, <2>2
  <2>5. root \in DOMAIN heap
    BY <2>1, NilIsEmpty DEF Tree, WF
  <2>6. CASE heap[root].disk
    <3>1. heap[x].disk
      BY <2>1, <2>5, <2>6, DiskBelow
    <3>. QED  BY <1>1, <2>3, <2>4, <3>1
  <2>7. CASE ~heap[root].disk
    <3>1. root # Nil
      BY <2>1, <2>5 DEF HeapOK
    <3>2. cowVersion' = version + 1
      BY <1>1, <2>7, <3>1
    <3>. QED  BY <1>1, <2>3, <2>4, <3>2
  <2>. QED  BY <2>6, <2>7
<1>8. CopyProtected'
  BY <1>1, <1>2, <1>7 DEF CopyProtected
<1>9. CopyKept
  BY <1>1, <1>3 DEF CopyKept, NoCopy
<1>10. Map!SaveAndFreeze
  BY <1>1, <1>2 DEF Map!SaveAndFreeze, Map!NoCopy, NoCopy
<1>. QED  BY <1>4, <1>5, <1>6, <1>8, <1>9, <1>10 DEF TreeInv

LEMMA DropCopyStep ==
    ASSUME TreeInv, DropCopy
    PROVE  TreeInv' /\ CopyKept /\ Map!Thaw
<1>1. /\ copyVersion # NoCopy /\ heap' = Live(heap, root, Nil)
      /\ copyRoot' = Nil /\ copyVersion' = NoCopy
      /\ UNCHANGED <<cacheSize, root, version, cowVersion, cache>>
  BY DEF DropCopy
<1>2. HeapOK(heap) /\ Tree(heap, root) /\ Tree(heap, Nil) /\ Reach(heap, Nil) = {}
  BY NilIsEmpty DEF TreeInv, HeapInv, AllOK, Tree
<1>3. Collected(heap, root, Nil, heap')
  BY <1>1, <1>2, LiveOK
<1>4. /\ AllOK(heap') /\ Tree(heap', root) /\ HeapOK(heap')
      /\ Entries(heap', root) = Entries(heap, root)
      /\ DOMAIN heap' = Reach(heap, root)
      /\ \A x \in Reach(heap, root) : heap'[x] = heap[x]
  BY <1>2, <1>3 DEF Collected, AllOK
<1>5. Reach(heap', Nil) = {} /\ Entries(heap', Nil) = {} /\ Tree(heap', Nil)
  BY <1>4, NilIsEmpty DEF Tree
<1>6. HeapInv'
  <2>1. Reach(heap, root) \subseteq DOMAIN heap
    BY <1>2, ReachInside
  <2>2. \A x \in DOMAIN heap' : heap'[x].version \in 1 .. version + 1
    BY <1>4, <2>1 DEF TreeInv, HeapInv
  <2>. QED  BY <1>1, <1>4, <1>5, <2>2 DEF HeapInv
<1>7. VersionInv'
  BY <1>1 DEF TreeInv, VersionInv
<1>8. CacheInv'
  BY <1>1, <1>4 DEF TreeInv, CacheInv, CacheAgrees
<1>9. CopyProtected' /\ CopyKept
  BY <1>1, <1>5 DEF CopyProtected, CopyKept
<1>10. Map!Thaw
  BY <1>1, <1>4, <1>5 DEF Map!Thaw, Map!NoCopy, NoCopy
<1>. QED  BY <1>6, <1>7, <1>8, <1>9, <1>10 DEF TreeInv

LEMMA OpenSnapshotStep ==
    ASSUME TreeInv, NEW size \in Nat, OpenSnapshot(size)
    PROVE  TreeInv' /\ CopyKept /\ Map!Restore
<1>1. /\ copyVersion # NoCopy /\ root' = copyRoot /\ heap' = Persisted(heap, copyRoot)
      /\ version' = copyVersion /\ cowVersion' = 0
      /\ cacheSize' = size /\ cache' = EmptyCache
      /\ copyRoot' = Nil /\ copyVersion' = NoCopy
  BY DEF OpenSnapshot
<1>2. AllOK(heap) /\ HeapOK(heap) /\ Tree(heap, copyRoot)
  BY DEF TreeInv, HeapInv, AllOK
<1>3. Opened(heap, copyRoot, heap')
  BY <1>1, <1>2, PersistedOK
<1>4. /\ AllOK(heap') /\ HeapOK(heap') /\ Tree(heap', root')
      /\ Entries(heap', root') = Entries(heap, copyRoot)
      /\ DOMAIN heap' = Reach(heap, copyRoot)
      /\ \A x \in DOMAIN heap' : heap'[x].version = heap[x].version
  BY <1>1, <1>3 DEF Opened, AllOK
<1>5. Reach(heap', Nil) = {} /\ Entries(heap', Nil) = {} /\ Tree(heap', Nil)
  BY <1>4, NilIsEmpty DEF Tree
<1>6. copyVersion \in 0 .. version /\ version \in 0 .. MaxVersion /\ MaxVersion \in Nat
  BY <1>1, TypeOfConstants DEF TreeInv, VersionInv
<1>7. HeapInv'
  <2>1. ASSUME NEW x \in DOMAIN heap' PROVE heap'[x].version \in 1 .. version' + 1
    <3>1. x \in DOMAIN heap /\ x \in Reach(heap, copyRoot)
      BY <1>2, <1>4, ReachInside
    <3>2. heap[x].version \in 1 .. version + 1 /\ heap[x].version =< copyVersion
      BY <3>1 DEF TreeInv, HeapInv, CopyProtected
    <3>. QED  BY <1>1, <1>4, <1>6, <3>2
  <2>. QED  BY <1>1, <1>4, <1>5, <2>1 DEF HeapInv
<1>8. VersionInv'
  BY <1>1, <1>6 DEF VersionInv
<1>9. CacheInv'
  <2>1. DOMAIN cache' = {}
    BY <1>1 DEF EmptyCache
  <2>. QED  BY <1>1, <2>1, FS_EmptySet DEF CacheInv, CacheAgrees
<1>10. CopyProtected' /\ CopyKept
  BY <1>1, <1>5 DEF CopyProtected, CopyKept
<1>11. Map!Restore
  BY <1>1, <1>4, <1>5 DEF Map!Restore, Map!NoCopy, NoCopy
<1>. QED  BY <1>7, <1>8, <1>9, <1>10, <1>11 DEF TreeInv

-----------------------------------------------------------------------------
LEMMA NextStep ==
    ASSUME TreeInv, Next
    PROVE  TreeInv' /\ CopyKept /\ [Map!Next]_(Map!vars)
<1>0. KeysAt(version) \subseteq Key /\ ValuesAt(version) \subseteq Value
  BY TypeOfConstants DEF TreeInv, VersionInv
<1>1. ASSUME NEW k \in KeysAt(version), NEW v \in ValuesAt(version), Set(k, v)
      PROVE  TreeInv' /\ CopyKept /\ [Map!Next]_(Map!vars)
  <2>1. k \in Key /\ v \in Value
    BY <1>0
  <2>2. TreeInv' /\ CopyKept /\ Map!Write(k, v)
    BY <1>1, <2>1, SetStep
  <2>. QED  BY <2>1, <2>2 DEF Map!Next
<1>2. ASSUME NEW k \in KeysAt(version), Remove(k)
      PROVE  TreeInv' /\ CopyKept /\ [Map!Next]_(Map!vars)
  <2>1. k \in Key
    BY <1>0
  <2>2. TreeInv' /\ CopyKept /\ Map!Delete(k)
    BY <1>2, <2>1, RemoveStep
  <2>. QED  BY <2>1, <2>2 DEF Map!Next
<1>3. ASSUME NEW k \in Key, GetUncached(k)
      PROVE  TreeInv' /\ CopyKept /\ [Map!Next]_(Map!vars)
  BY <1>3, GetStep
<1>4. CASE RootHash
  BY <1>4, RootHashStep
<1>5. ASSUME NEW updateHash \in BOOLEAN, SaveVersion(updateHash)
      PROVE  TreeInv' /\ CopyKept /\ [Map!Next]_(Map!vars)
  BY <1>5, SaveVersionStep DEF Map!Next
<1>6. CASE CommitAndCopy
  BY <1>6, CommitAndCopyStep DEF Map!Next
<1>7. CASE DropCopy
  BY <1>7, DropCopyStep DEF Map!Next
<1>8. CASE Load \/ Switch
  <2>1. PICK size \in Nat : OpenSnapshot(size)
    BY <1>8, TypeOfConstants DEF Load, Switch
  <2>. QED  BY <2>1, OpenSnapshotStep DEF Map!Next
<1>. QED  BY <1>1, <1>2, <1>3, <1>4, <1>5, <1>6, <1>7, <1>8 DEF Next

\* A step that changes nothing.
LEMMA Stutter ==
    ASSUME TreeInv, UNCHANGED vars
    PROVE  TreeInv' /\ CopyKept /\ UNCHANGED (Map!vars)
<1>1. TreeInv'
  BY DEF vars, TreeInv, HeapInv, VersionInv, CacheInv, CacheAgrees, CopyProtected
<1>2. CopyKept
  <2>1. Reach(heap, copyRoot) \subseteq DOMAIN heap
    BY ReachInside DEF TreeInv, HeapInv, AllOK
  <2>. QED  BY <2>1 DEF vars, CopyKept
<1>3. UNCHANGED (Map!vars)
  BY DEF vars, Map!vars
<1>. QED  BY <1>1, <1>2, <1>3

\* The inductive invariant of the tree, for any keys, values, number of
\* versions and sequence of operations: every node in the heap is the root of
\* an AVL search tree with fresh hashes and no child in memory below a node in
\* a file, the nodes of the copy are protected from Mutate and hashed, and the
\* cache holds entries of the working tree.
THEOREM TreeInvariant == Spec => []TreeInv
<1>1. TreeInv /\ [Next]_vars => TreeInv'
  BY NextStep, Stutter
<1>. QED  BY <1>1, InitInv, PTL DEF Spec

\* The nodes, roots, versions and the cache have their types: the version of a
\* node never exceeds MaxVersion + 1 and the cache never its size.
THEOREM TypeCorrect == Spec => []TypeOK
  BY TreeInvariant, InvTypeOK, PTL

\* Every tree of any size is an AVL search tree after any writes and removals
\* (setRecursive, removeRecursive, reBalance), in place or on clones.
THEOREM AlwaysWellFormed == Spec => []WellFormed
<1>1. TreeInv => WellFormed
  BY InvWellFormed DEF TreeInv
<1>. QED  BY <1>1, TreeInvariant, PTL

\* No write leaves the hash of old contents behind (Mutate clears the hashes on
\* the path from the root, and a rotation those of the nodes it moves).
THEOREM HashesFresh == Spec => []HashFresh
<1>1. TreeInv => HashFresh
  BY InvHashFresh DEF TreeInv
<1>. QED  BY <1>1, TreeInvariant, PTL

\* A read through the cache (Tree.Get) always returns what the tree holds.
THEOREM CacheCorrect == Spec => []CacheAgrees
<1>1. TreeInv => CacheAgrees
  BY DEF TreeInv, CacheInv
<1>. QED  BY <1>1, TreeInvariant, PTL

\* Every node of the copy is in a mapped file or of a protected version
\* (Tree.Copy), and its hash is cached before the copy is handed out.
THEOREM CopyAlwaysProtected == Spec => []CopyProtected
<1>1. TreeInv => CopyProtected
  BY DEF TreeInv
<1>. QED  BY <1>1, TreeInvariant, PTL

\* While the snapshot goroutine reads the copy no node of it changes, whatever
\* the working tree does: Mutate, the rotations and the hashes write elsewhere.
THEOREM CopyNeverWritten == Spec => CopyIsolated
<1>1. TreeInv /\ [Next]_vars => [CopyKept]_vars
  BY NextStep
<1>2. TreeInv /\ [Next]_vars =>
        [copyVersion' = copyVersion =>
            /\ copyRoot' = copyRoot
            /\ \A n \in Reach(heap, copyRoot) : n \in DOMAIN heap' /\ heap'[n] = heap[n]]_vars
  BY <1>1 DEF CopyKept
<1>. QED  BY <1>2, TreeInvariant, PTL DEF Spec, CopyIsolated

\* The tree implements VersionedMap: writes and removals change exactly their
\* key, and hashing, saving, copying, reading and reopening change no entry.
THEOREM TreeImplementsMap == Spec => ImplementsMap
<1>1. Init => Map!Init
  <2>. SUFFICES ASSUME Init PROVE Map!Init
    OBVIOUS
  <2>1. HeapOK(heap) /\ root = Nil /\ copyRoot = Nil
    BY InitInv DEF Init, TreeInv, HeapInv, AllOK
  <2>. QED  BY <2>1, NilIsEmpty DEF Init, Map!Init, Map!NoCopy, NoCopy
<1>2. TreeInv /\ [Next]_vars => [Map!Next]_(Map!vars)
  BY NextStep, Stutter
<1>. QED  BY <1>1, <1>2, TreeInvariant, PTL DEF Spec, ImplementsMap, Map!Spec

\* Every Set and every Remove of the code is the write or the deletion of the
\* map: none is lost and none hits another key, on trees of any size.
THEOREM NoWriteLost == Spec => WritesTakeEffect
<1>1. TreeInv /\ [Next]_vars =>
        [\A k \in KeysAt(version) :
            /\ Remove(k) => Map!Delete(k)
            /\ \A v \in ValuesAt(version) : Set(k, v) => Map!Write(k, v)]_vars
  <2>. SUFFICES ASSUME TreeInv
                PROVE  \A k \in KeysAt(version) :
                          /\ Remove(k) => Map!Delete(k)
                          /\ \A v \in ValuesAt(version) : Set(k, v) => Map!Write(k, v)
    OBVIOUS
  <2>1. KeysAt(version) \subseteq Key /\ ValuesAt(version) \subseteq Value
    BY TypeOfConstants DEF TreeInv, VersionInv
  <2>. QED  BY <2>1, SetStep, RemoveStep
<1>. QED  BY <1>1, TreeInvariant, PTL DEF Spec, WritesTakeEffect

\* Tree.GetWithIndex finds the value of a key that is there, NoValue for any
\* other, and as index the number of smaller keys.
GetExact ==
    root # Nil =>
        \A k \in Key :
            /\ Get(heap, root, k).value = NoValue => k \notin KeysOf(heap, root)
            /\ Get(heap, root, k).value # NoValue =>
                  <<k, Get(heap, root, k).value>> \in Entries(heap, root)
            /\ Get(heap, root, k).index = Cardinality({i \in KeysOf(heap, root) : i < k})

\* MemNode.Get is exact on every tree that can be reached, of any size: the
\* part of ReadsAgree about single keys.
THEOREM GetIsExact == Spec => []GetExact
<1>1. TreeInv => GetExact
  <2>. SUFFICES ASSUME TreeInv, root # Nil, NEW k \in Key
                PROVE  /\ Get(heap, root, k).value = NoValue => k \notin KeysOf(heap, root)
                       /\ Get(heap, root, k).value # NoValue =>
                             <<k, Get(heap, root, k).value>> \in Entries(heap, root)
                       /\ Get(heap, root, k).index =
                             Cardinality({i \in KeysOf(heap, root) : i < k})
    BY DEF GetExact
  <2>1. AllOK(heap) /\ HeapOK(heap) /\ WF(heap, root) /\ root \in DOMAIN heap
    BY DEF TreeInv, HeapInv, AllOK, Tree, WF
  <2>2. GetDone(heap, root, Get(heap, root, k), k)
    BY <2>1, GetAtOK DEF Get
  <2>3. Entries(heap, root) = Ent(heap, root) /\ KeysOf(heap, root) = Keys(heap, root)
    BY <2>1, EntriesAreEnt, KeysOfEnt DEF KeysOf
  <2>. QED  BY <2>2, <2>3 DEF GetDone
<1>. QED  BY <1>1, TreeInvariant, PTL

=============================================================================
