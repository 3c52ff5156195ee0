------------------------------ MODULE TreeReads ------------------------------
(***************************************************************************)
(* What is read from a memiavl tree besides the value of a key: the key of *)
(* a rank, ranges of keys, the nodes in post-order, and ICS-23 proofs      *)
(* (mem_node.go, iterator.go, tree.go, proof.go).                          *)
(***************************************************************************)
EXTENDS AvlTree, Sequences

\* MemNode.GetByIndex, within the size of the tree.
RECURSIVE GetByIndex(_, _, _)
GetByIndex(h, n, index) ==
    IF IsLeaf(h, n) THEN IF index = 0 THEN h[n].key ELSE NoKey
    ELSE LET leftSize == h[h[n].left].size
         IN IF index < leftSize
              THEN GetByIndex(h, h[n].left, index)
              ELSE GetByIndex(h, h[n].right, index - leftSize)

\* Variant: the key of a branch itself is looked for on the left.
RECURSIVE pathToLeafInclusive(_, _, _)
pathToLeafInclusive(h, n, key) ==
    IF IsLeaf(h, n) THEN [leaf |-> n, path |-> <<>>]
    ELSE LET goLeft == key =< h[n].key
             c      == pathToLeafInclusive(h, IF goLeft THEN h[n].left ELSE h[n].right, key)
             inner  == [node |-> n,
                        left  |-> IF goLeft THEN NoHash ELSE h[h[n].left].hash,
                        right |-> IF goLeft THEN h[h[n].right].hash ELSE NoHash]
         IN [c EXCEPT !.path = Append(@, inner)]

\* pathToLeaf in a hashed tree, and convertInnerOps, which reverses the path:
\* the leaf that the search for a key ends in, and for each branch above it,
\* from the leaf up, the hash of the sibling.
RECURSIVE pathToLeaf(_, _, _)
pathToLeaf(h, n, key) ==
    IF IsLeaf(h, n) THEN [leaf |-> n, path |-> <<>>]
    ELSE LET goLeft == key < h[n].key
             c      == pathToLeaf(h, IF goLeft THEN h[n].left ELSE h[n].right, key)
             inner  == [node |-> n,
                        left  |-> IF goLeft THEN NoHash ELSE h[h[n].left].hash,
                        right |-> IF goLeft THEN h[h[n].right].hash ELSE NoHash]
         IN [c EXCEPT !.path = Append(@, inner)]

\* The root hash that a verifier computes from an existence proof
\* (github.com/cosmos/ics23, external).
RECURSIVE ProofRoot(_, _, _)
ProofRoot(h, path, hash) ==
    IF path = <<>> THEN hash
    ELSE LET i == Head(path)
         IN ProofRoot(h, Tail(path),
                      IF i.left # NoHash THEN HashInput(h[i.node], i.left, hash)
                                         ELSE HashInput(h[i.node], hash, i.right))

\* createExistenceProof: [key, root], the key proved and the root it leads to.
createExistenceProof(h, root, key) ==
    LET p == pathToLeaf(h, root, key)
    IN [key |-> h[p.leaf].key, root |-> ProofRoot(h, p.path, HashInput(h[p.leaf], NoHash, NoHash))]

\* GetNonMembershipProof: the proofs of the neighbours of a missing key.
GetNonMembershipProof(h, root, key) ==
    LET idx  == Get(h, root, key).index
        Near(i) == {createExistenceProof(h, root, k) : k \in {GetByIndex(h, root, i)}}
    IN [left  |-> IF idx >= 1 THEN Near(idx - 1) ELSE {},
        right |-> IF idx < h[root].size THEN Near(idx) ELSE {}]

\* Iterator.Next until it is invalid: the keys it yields from a stack of
\* nodes.  Start and end may be NoKey (nil).
RECURSIVE Iterate(_, _, _, _, _)
Iterate(h, stack, start, end, ascending) ==
    IF stack = <<>> THEN <<>>
    ELSE
        LET n          == stack[Len(stack)]
            rest       == SubSeq(stack, 1, Len(stack) - 1)
            key        == h[n].key
            afterStart == start = NoKey \/ start < key
            beforeEnd  == end = NoKey \/ key < end
            lefts      == IF afterStart THEN <<h[n].left>> ELSE <<>>
            rights     == IF beforeEnd THEN <<h[n].right>> ELSE <<>>
        IN IF IsLeaf(h, n)
             THEN (IF (afterStart \/ start = key) /\ beforeEnd THEN <<key>> ELSE <<>>)
                    \o Iterate(h, rest, start, end, ascending)
             ELSE Iterate(h, IF ascending THEN rest \o rights \o lefts
                                          ELSE rest \o lefts \o rights,
                          start, end, ascending)

Iterator(h, root, start, end, ascending) ==
    Iterate(h, IF root = Nil THEN <<>> ELSE <<root>>, start, end, ascending)

\* Tree.ScanPostOrder: the nodes below n, children before their parent.
RECURSIVE ScanPostOrder(_, _)
ScanPostOrder(h, n) ==
    IF n = Nil THEN <<>>
    ELSE ScanPostOrder(h, h[n].left) \o ScanPostOrder(h, h[n].right) \o <<n>>

=============================================================================
