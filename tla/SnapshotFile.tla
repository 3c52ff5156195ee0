---------------------------- MODULE SnapshotFile ----------------------------
(***************************************************************************)
(* The files of one tree snapshot (memiavl/snapshot.go, persisted_node.go) *)
(* and the stream of nodes that state sync exports and imports             *)
(* (export.go, import.go).                                                 *)
(*                                                                         *)
(* The leaves and the branches are two arrays written in post-order.  A    *)
(* branch does not store where its children are: their positions follow    *)
(* from its own position, its size, the number of pending trees before it  *)
(* and the position of the first leaf of its right child.                  *)
(***************************************************************************)
EXTENDS TreeReads

EmptyFile == [leaves |-> <<>>, nodes |-> <<>>]

\* Arrays of the files are indexed from 0.
LeafAt(f, i) == f.leaves[i + 1]
NodeAt(f, i) == f.nodes[i + 1]

writeLeaf(f, version, key, value, hash) ==
    [f EXCEPT !.leaves = Append(@, [version |-> version, key |-> key, value |-> value,
                                    hash |-> hash])]

writeBranch(f, version, size, height, preTrees, keyLeaf, hash) ==
    [f EXCEPT !.nodes = Append(@, [version |-> version, size |-> size, height |-> height,
                                   preTrees |-> preTrees, keyLeaf |-> keyLeaf, hash |-> hash])]

\* snapshotWriter.writeRecursive; leafCounter and branchCounter are the
\* lengths of the files.
RECURSIVE writeRecursive(_, _, _)
writeRecursive(f, h, n) ==
    IF IsLeaf(h, n) THEN writeLeaf(f, h[n].version, h[n].key, h[n].value, h[n].hash)
    ELSE LET preTrees == Len(f.leaves) - Len(f.nodes)
             left     == writeRecursive(f, h, h[n].left)
             right    == writeRecursive(left, h, h[n].right)
         IN writeBranch(right, h[n].version, h[n].size, h[n].height, preTrees,
                        Len(left.leaves), h[n].hash)

\* Tree.WriteSnapshot: node.Hash() computes a missing hash on the way.
WriteSnapshot(h, root) ==
    IF root = Nil THEN EmptyFile ELSE writeRecursive(EmptyFile, Hash(h, root), root)

-----------------------------------------------------------------------------
(***************************************************************************)
(* PersistedNode: a position in one of the two arrays.                     *)
(***************************************************************************)
Leaf(i)   == [isLeaf |-> TRUE, index |-> i]
Branch(i) == [isLeaf |-> FALSE, index |-> i]

getStartLeaf(index, size, preTrees) == index + 2 - size + preTrees
getEndLeaf(index, preTrees)         == index + preTrees + 1
getLeftBranch(keyLeaf, preTrees)    == keyLeaf - preTrees - 2

Left(f, p) ==
    LET data      == NodeAt(f, p.index)
        startLeaf == getStartLeaf(p.index, data.size, data.preTrees)
    IN IF startLeaf + 1 = data.keyLeaf THEN Leaf(startLeaf)
       ELSE Branch(getLeftBranch(data.keyLeaf, data.preTrees))

\* Variant: the right child is always taken for a leaf.
RightLeaf(f, p) == Leaf(NodeAt(f, p.index).keyLeaf)

Right(f, p) ==
    LET data == NodeAt(f, p.index)
    IN IF data.keyLeaf = getEndLeaf(p.index, data.preTrees) THEN Leaf(data.keyLeaf)
       ELSE Branch(p.index - 1)

\* OpenSnapshot: a single leaf is the root, otherwise the last branch is.
RootNode(f) == IF f.nodes = <<>> THEN Leaf(0) ELSE Branch(Len(f.nodes) - 1)

\* PersistedNode.Get: a binary search among the leaves of the node.
GetPersisted(f, p, key) ==
    LET data  == NodeAt(f, p.index)
        start == IF p.isLeaf THEN p.index ELSE getStartLeaf(p.index, data.size, data.preTrees)
        count == IF p.isLeaf THEN 1 ELSE data.size
        i     == Cardinality({j \in 0 .. count - 1 : LeafAt(f, start + j).key < key})
    IN [value |-> IF i < count /\ LeafAt(f, start + i).key = key
                    THEN LeafAt(f, start + i).value ELSE NoValue,
        index |-> i]

\* PersistedNode.GetByIndex.
GetByIndexPersisted(f, p, index) ==
    LET data  == NodeAt(f, p.index)
        start == IF p.isLeaf THEN p.index ELSE getStartLeaf(p.index, data.size, data.preTrees)
        end   == IF p.isLeaf THEN p.index ELSE getEndLeaf(p.index, data.preTrees)
    IN IF start + index > end THEN NoKey ELSE LeafAt(f, start + index).key

\* The nodes of a mapped file as heap nodes: [heap, node].  The key of a
\* branch is the key of the leaf its keyLeaf names.
RECURSIVE MapNode(_, _, _)
MapNode(h, f, p) ==
    IF p.isLeaf
      THEN LET leaf == LeafAt(f, p.index)
           IN [heap |-> Alloc(h, [newLeafNode(leaf.key, leaf.value, leaf.version)
                                    EXCEPT !.disk = TRUE, !.hash = leaf.hash]),
               node |-> Fresh(h)]
      ELSE LET data == NodeAt(f, p.index)
               l == MapNode(h, f, Left(f, p))
               r == MapNode(l.heap, f, Right(f, p))
           IN [heap |-> Alloc(r.heap,
                    [newBranch(LeafAt(f, data.keyLeaf).key, l.node, r.node, data.version)
                       EXCEPT !.disk = TRUE, !.height = data.height, !.size = data.size,
                              !.hash = data.hash]),
               node |-> Fresh(r.heap)]

\* NewFromSnapshot.
OpenTree(h, f) ==
    IF f.leaves = <<>> THEN [heap |-> h, node |-> Nil] ELSE MapNode(h, f, RootNode(f))

-----------------------------------------------------------------------------
(***************************************************************************)
(* Export and import.                                                      *)
(***************************************************************************)
ExportNode(height, version, key, value) ==
    [height |-> height, version |-> version, key |-> key, value |-> value]

\* Tree.Export without a snapshot at its version: the post-order scan.
ExportTree(h, root) ==
    LET nodes == ScanPostOrder(h, root)
    IN [i \in DOMAIN nodes |->
          ExportNode(h[nodes[i]].height, h[nodes[i]].version, h[nodes[i]].key, h[nodes[i]].value)]

\* Snapshot.export: branch i goes out once there are two more pending trees
\* than there were before it; leaf j is the next leaf.
RECURSIVE ExportFrom(_, _, _, _)
ExportFrom(f, i, j, pendingTrees) ==
    IF i = Len(f.nodes) THEN <<>>
    ELSE LET data == NodeAt(f, i)
         IN IF pendingTrees < data.preTrees + 2
              THEN LET leaf == LeafAt(f, j)
                   IN <<ExportNode(0, leaf.version, leaf.key, leaf.value)>>
                        \o ExportFrom(f, i, j + 1, pendingTrees + 1)
              ELSE <<ExportNode(data.height, data.version, LeafAt(f, data.keyLeaf).key, NoValue)>>
                     \o ExportFrom(f, i + 1, j, pendingTrees - 1)

ExportFile(f) ==
    IF Len(f.leaves) = 1
      THEN <<ExportNode(0, LeafAt(f, 0).version, LeafAt(f, 0).key, LeafAt(f, 0).value)>>
      ELSE ExportFrom(f, 0, 0, 0)

\* importer.Add.  The state of an import: the files, leavesStack and nodeStack.
ImportStart == [file |-> EmptyFile, leavesStack |-> <<>>, nodeStack |-> <<>>]

\* Variant: the key of a branch is looked up at the end of its right child
\* instead of its left one.
ImportAddLate(s, n) ==
    IF n.height = 0
      THEN LET leaf == newLeafNode(n.key, n.value, n.version)
               hash == HashInput(leaf, NoHash, NoHash)
               f    == writeLeaf(s.file, n.version, n.key, n.value, hash)
           IN [file |-> f, leavesStack |-> Append(s.leavesStack, Len(f.leaves)),
               nodeStack |-> Append(s.nodeStack, [size |-> 1, hash |-> hash])]
      ELSE LET k     == Len(s.nodeStack)
               left  == s.nodeStack[k - 1]
               right == s.nodeStack[k]
               node  == [newBranch(n.key, Nil, Nil, n.version)
                           EXCEPT !.height = n.height, !.size = left.size + right.size]
               hash  == HashInput(node, left.hash, right.hash)
               f     == writeBranch(s.file, n.version, node.size, n.height, k - 2,
                                    s.leavesStack[k], hash)
           IN [file |-> f,
               leavesStack |-> Append(SubSeq(s.leavesStack, 1, k - 2), Len(f.leaves)),
               nodeStack   |-> Append(SubSeq(s.nodeStack, 1, k - 2),
                                      [size |-> node.size, hash |-> hash])]

\* One node of the stream: a leaf is pushed, a branch takes the two last
\* entries of the stacks as its children.
ImportAdd(s, n) ==
    IF n.height = 0
      THEN LET leaf == newLeafNode(n.key, n.value, n.version)
               hash == HashInput(leaf, NoHash, NoHash)
               f    == writeLeaf(s.file, n.version, n.key, n.value, hash)
           IN [file |-> f, leavesStack |-> Append(s.leavesStack, Len(f.leaves)),
               nodeStack |-> Append(s.nodeStack, [size |-> 1, hash |-> hash])]
      ELSE LET k     == Len(s.nodeStack)
               left  == s.nodeStack[k - 1]
               right == s.nodeStack[k]
               node  == [newBranch(n.key, Nil, Nil, n.version)
                           EXCEPT !.height = n.height, !.size = left.size + right.size]
               hash  == HashInput(node, left.hash, right.hash)
               f     == writeBranch(s.file, n.version, node.size, n.height, k - 2,
                                    s.leavesStack[k - 1], hash)
           IN [file |-> f,
               leavesStack |-> Append(SubSeq(s.leavesStack, 1, k - 2), Len(f.leaves)),
               nodeStack   |-> Append(SubSeq(s.nodeStack, 1, k - 2),
                                      [size |-> node.size, hash |-> hash])]

\* doImport of a whole stream.
RECURSIVE ImportAll(_, _)
ImportAll(s, stream) ==
    IF stream = <<>> THEN s ELSE ImportAll(ImportAdd(s, Head(stream)), Tail(stream))

doImport(stream) == ImportAll(ImportStart, stream)

=============================================================================
