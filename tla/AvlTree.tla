------------------------------ MODULE AvlTree ------------------------------
(***************************************************************************)
(* The tree algorithms of memiavl (node.go, mem_node.go, iterator.go) on a *)
(* heap of nodes.  A heap is a function from the addresses in use to nodes *)
(* and a pointer an address, so that a node that two trees share is one    *)
(* node and a write in place is seen by both.                              *)
(*                                                                         *)
(* A function of the code that writes through pointers returns the new     *)
(* heap, and next to it what the function returns.  The recursion of the   *)
(* code on a node is a recursive function on the addresses of the heap.    *)
(*                                                                         *)
(* Keys are ordered values (numbers), SHA-256 is an injective function: a  *)
(* hash is the tuple of what is hashed.                                    *)
(***************************************************************************)
EXTENDS Integers, FiniteSetsExt

CONSTANT NoValue    \* nil: the value of a branch, the answer for a missing key

Nil    == 0         \* the nil node
NoHash == <<>>      \* MemNode.hash of a node that has not been hashed
NoKey  == -1        \* the nil key that removeRecursive returns

\* A MemNode; disk marks a PersistedNode, which is never written.
newLeafNode(key, value, version) ==
    [disk |-> FALSE, height |-> 0, size |-> 1, version |-> version, key |-> key,
     value |-> value, left |-> Nil, right |-> Nil, hash |-> NoHash]

newBranch(key, left, right, version) ==
    [disk |-> FALSE, height |-> 1, size |-> 2, version |-> version, key |-> key,
     value |-> NoValue, left |-> left, right |-> right, hash |-> NoHash]

IsLeaf(h, n) == h[n].height = 0

\* &MemNode{...}: the address of a new node, and the heap with it.
Fresh(h) == Max(DOMAIN h \cup {Nil}) + 1

Alloc(h, node) ==
    [n \in DOMAIN h \cup {Fresh(h)} |-> IF n = Fresh(h) THEN node ELSE h[n]]

\* The child that the search for a key goes to.
Child(h, n, key) == IF key < h[n].key THEN h[n].left ELSE h[n].right

\* Variant: a node of exactly the protected version is written in place.
MutateLate(h, n, version, cowVersion) ==
    LET node == [h[n] EXCEPT !.version = version, !.hash = NoHash, !.disk = FALSE]
    IN IF h[n].disk \/ h[n].version < cowVersion
         THEN [heap |-> Alloc(h, node), node |-> Fresh(h)]
         ELSE [heap |-> [h EXCEPT ![n] = node], node |-> n]

\* Variant: the hash of the old contents is kept.
MutateKeepsHash(h, n, version, cowVersion) ==
    LET node == [h[n] EXCEPT !.version = version, !.disk = FALSE]
    IN IF h[n].disk \/ h[n].version =< cowVersion
         THEN [heap |-> Alloc(h, node), node |-> Fresh(h)]
         ELSE [heap |-> [h EXCEPT ![n] = node], node |-> n]

\* MemNode.Mutate and PersistedNode.Mutate: a persisted node, or one that a
\* copy may share, is cloned; any other is taken as it is.
Mutate(h, n, version, cowVersion) ==
    LET node == [h[n] EXCEPT !.version = version, !.hash = NoHash, !.disk = FALSE]
    IN IF h[n].disk \/ h[n].version =< cowVersion
         THEN [heap |-> Alloc(h, node), node |-> Fresh(h)]
         ELSE [heap |-> [h EXCEPT ![n] = node], node |-> n]

updateHeightSize(h, n) ==
    LET l == h[h[n].left]
        r == h[h[n].right]
    IN [h EXCEPT ![n].height = (IF l.height > r.height THEN l.height ELSE r.height) + 1,
                 ![n].size   = l.size + r.size]

calcBalance(h, n) == h[h[n].left].height - h[h[n].right].height

rotateRight(h, n, version, cowVersion) ==
    LET m  == Mutate(h, h[n].left, version, cowVersion)
        h1 == [m.heap EXCEPT ![n].left = h[h[n].left].right]
        h2 == [h1 EXCEPT ![m.node].right = n]
    IN [heap |-> updateHeightSize(updateHeightSize(h2, n), m.node), node |-> m.node]

rotateLeft(h, n, version, cowVersion) ==
    LET m  == Mutate(h, h[n].right, version, cowVersion)
        h1 == [m.heap EXCEPT ![n].right = h[h[n].right].left]
        h2 == [h1 EXCEPT ![m.node].left = n]
    IN [heap |-> updateHeightSize(updateHeightSize(h2, n), m.node), node |-> m.node]

\* Variant: a left-right or right-left imbalance gets a single rotation.
reBalanceSingle(h, n, version, cowVersion) ==
    CASE calcBalance(h, n) > 1  -> rotateRight(h, n, version, cowVersion)
      [] calcBalance(h, n) < -1 -> rotateLeft(h, n, version, cowVersion)
      [] OTHER                  -> [heap |-> h, node |-> n]

reBalance(h, n, version, cowVersion) ==
    LET balance == calcBalance(h, n)
    IN CASE balance > 1 /\ calcBalance(h, h[n].left) >= 0 ->
              rotateRight(h, n, version, cowVersion)
         [] balance > 1 /\ calcBalance(h, h[n].left) < 0 ->
              LET m == Mutate(h, h[n].left, version, cowVersion)
                  r == rotateLeft(m.heap, m.node, version, cowVersion)
              IN rotateRight([r.heap EXCEPT ![n].left = r.node], n, version, cowVersion)
         [] balance < -1 /\ calcBalance(h, h[n].right) =< 0 ->
              rotateLeft(h, n, version, cowVersion)
         [] balance < -1 /\ calcBalance(h, h[n].right) > 0 ->
              LET m == Mutate(h, h[n].right, version, cowVersion)
                  r == rotateRight(m.heap, m.node, version, cowVersion)
              IN rotateLeft([r.heap EXCEPT ![n].right = r.node], n, version, cowVersion)
         [] OTHER -> [heap |-> h, node |-> n]

\* Variant: the value of an existing key is not written.
updateLeafKeeps(h, n, value, version, cowVersion) ==
    LET m == Mutate(h, n, version, cowVersion)
    IN [heap |-> m.heap, node |-> m.node, updated |-> TRUE]

\* setRecursive at the leaf of the key, and at another leaf.
updateLeaf(h, n, value, version, cowVersion) ==
    LET m == Mutate(h, n, version, cowVersion)
    IN [heap |-> [m.heap EXCEPT ![m.node].value = value], node |-> m.node, updated |-> TRUE]

splitLeaf(h, n, key, value, version) ==
    LET h1     == Alloc(h, newLeafNode(key, value, version))
        branch == IF key < h[n].key
                    THEN newBranch(h[n].key, Fresh(h), n, version)
                    ELSE newBranch(key, n, Fresh(h), version)
    IN [heap |-> Alloc(h1, branch), node |-> Fresh(h1), updated |-> FALSE]

\* setRecursive at a branch, after the call for the child has returned c.
setBranch(h, n, key, c, version, cowVersion) ==
    LET m  == Mutate(c.heap, n, version, cowVersion)
        h1 == IF key < h[n].key THEN [m.heap EXCEPT ![m.node].left = c.node]
                                ELSE [m.heap EXCEPT ![m.node].right = c.node]
        r  == IF c.updated
                THEN [heap |-> h1, node |-> m.node]
                ELSE reBalance(updateHeightSize(h1, m.node), m.node, version, cowVersion)
    IN [heap |-> r.heap, node |-> r.node, updated |-> c.updated]

\* setRecursive: [heap, node, updated].  updated says that the shape of the
\* subtree is as before.
SetAt(h, key, value, version, cowVersion) ==
    LET set[n \in DOMAIN h] ==
            IF ~IsLeaf(h, n)
              THEN setBranch(h, n, key, set[Child(h, n, key)], version, cowVersion)
              ELSE IF key = h[n].key
                THEN updateLeaf(h, n, value, version, cowVersion)
                ELSE splitLeaf(h, n, key, value, version)
    IN set

setRecursive(h, n, key, value, version, cowVersion) ==
    IF n = Nil
      THEN [heap |-> Alloc(h, newLeafNode(key, value, version)), node |-> Fresh(h), updated |-> TRUE]
      ELSE SetAt(h, key, value, version, cowVersion)[n]

\* removeRecursive at a leaf, and at a branch after the call for the child has
\* returned c.
removeLeaf(h, n, key) ==
    IF h[n].key = key
      THEN [heap |-> h, node |-> Nil, value |-> h[n].value, newKey |-> NoKey]
      ELSE [heap |-> h, node |-> n, value |-> NoValue, newKey |-> NoKey]

removeBranch(h, n, key, c, version, cowVersion) ==
    LET goLeft == key < h[n].key
        m  == Mutate(c.heap, n, version, cowVersion)
        h1 == IF goLeft
                THEN [m.heap EXCEPT ![m.node].left = c.node]
                ELSE [m.heap EXCEPT ![m.node].right = c.node,
                                    ![m.node].key = IF c.newKey # NoKey THEN c.newKey ELSE @]
        r  == reBalance(updateHeightSize(h1, m.node), m.node, version, cowVersion)
    IN CASE c.value = NoValue ->
              [heap |-> h, node |-> n, value |-> NoValue, newKey |-> NoKey]
         [] c.value # NoValue /\ c.node = Nil ->
              [heap |-> c.heap, value |-> c.value,
               node   |-> IF goLeft THEN h[n].right ELSE h[n].left,
               newKey |-> IF goLeft THEN h[n].key ELSE NoKey]
         [] OTHER ->
              [heap |-> r.heap, node |-> r.node, value |-> c.value,
               newKey |-> IF goLeft THEN c.newKey ELSE NoKey]

\* removeRecursive: [heap, node, value, newKey].  Value NoValue means that
\* nothing was removed; newKey is the new smallest key of the subtree when
\* its first leaf is gone.
RemoveAt(h, key, version, cowVersion) ==
    LET remove[n \in DOMAIN h] ==
            IF IsLeaf(h, n)
              THEN removeLeaf(h, n, key)
              ELSE removeBranch(h, n, key, remove[Child(h, n, key)], version, cowVersion)
    IN remove

removeRecursive(h, n, key, version, cowVersion) ==
    IF n = Nil
      THEN [heap |-> h, node |-> Nil, value |-> NoValue, newKey |-> NoKey]
      ELSE RemoveAt(h, key, version, cowVersion)[n]

\* The nodes of the tree below n.
Children(h, n) == {h[n].left, h[n].right} \cap DOMAIN h

Below(h) ==
    LET below[n \in DOMAIN h] == {n} \cup UNION {below[c] : c \in Children(h, n)}
    IN below

Reach(h, n) == IF n \in DOMAIN h THEN Below(h)[n] ELSE {}

\* writeHashBytes: what is hashed, given the hashes of the children.
HashInput(node, leftHash, rightHash) ==
    IF node.height = 0
      THEN <<node.version, node.key, node.value>>
      ELSE <<node.height, node.size, node.version, leftHash, rightHash>>

\* HashNode, from the hashes that the children have.
HashNode(h, n) ==
    IF IsLeaf(h, n)
      THEN HashInput(h[n], NoHash, NoHash)
      ELSE HashInput(h[n], h[h[n].left].hash, h[h[n].right].hash)

\* MemNode.Hash and PersistedNode.Hash: the hash that a node has, or the one
\* computed from those of its children.
HashOf(h) ==
    LET hash[n \in DOMAIN h] ==
            IF h[n].hash # NoHash THEN h[n].hash
            ELSE IF IsLeaf(h, n) THEN HashInput(h[n], NoHash, NoHash)
            ELSE HashInput(h[n], hash[h[n].left], hash[h[n].right])
    IN hash

\* MemNode.Hash: the heap after the hash of n has been computed and cached,
\* on the way also the hashes below n that are not there.  It does not descend
\* below a node with a hash, where every node has one (HashFresh).
Hash(h, n) ==
    LET missing == {m \in Reach(h, n) : h[m].hash = NoHash}
    IN [m \in DOMAIN h |-> IF m \in missing THEN [h[m] EXCEPT !.hash = HashOf(h)[m]] ELSE h[m]]

\* Variant: the leaves to the left are not counted.
GetAtNoOffset(h, key) ==
    LET get[n \in DOMAIN h] ==
            IF IsLeaf(h, n)
              THEN [value |-> IF h[n].key = key THEN h[n].value ELSE NoValue,
                    index |-> IF h[n].key < key THEN 1 ELSE 0]
              ELSE get[Child(h, n, key)]
    IN get

\* MemNode.Get: the value and the number of smaller keys.
GetAt(h, key) ==
    LET get[n \in DOMAIN h] ==
            IF IsLeaf(h, n)
              THEN [value |-> IF h[n].key = key THEN h[n].value ELSE NoValue,
                    index |-> IF h[n].key < key THEN 1 ELSE 0]
              ELSE [get[Child(h, n, key)] EXCEPT !.index =
                      IF key < h[n].key THEN @ ELSE @ + h[n].size - h[h[n].right].size]
    IN get

Get(h, n, key) == GetAt(h, key)[n]

=============================================================================
