---------------------------- MODULE CowTreeReads ----------------------------
(***************************************************************************)
(* What readers, verifiers of proofs, snapshots and state sync get from    *)
(* the trees that CowTree reaches, against the map the tree stands for.    *)
(***************************************************************************)
EXTENDS CowTree, SnapshotFile

\* The hash a node should have.
RECURSIVE Digest(_, _)
Digest(h, n) ==
    IF n = Nil THEN NoHash
    ELSE IF IsLeaf(h, n) THEN HashInput(h[n], NoHash, NoHash)
    ELSE HashInput(h[n], Digest(h, h[n].left), Digest(h, h[n].right))

\* Sorted enumeration of a set of keys.
RECURSIVE Ascending(_)
Ascending(S) == IF S = {} THEN <<>> ELSE <<Min(S)>> \o Ascending(S \ {Min(S)})

Bounds == Key \cup {NoKey}

\* Get, GetByIndex and the iterator, in both directions and for every start
\* and end, agree with the map: the value, the rank of a key that is or is not
\* there, the key of a rank, and exactly the keys of the range in order.
ReadsAgree ==
    LET entries == Entries(heap, root)
        keys    == KeysOf(heap, root)
        InRange(s, e) == {k \in keys : (s = NoKey \/ s =< k) /\ (e = NoKey \/ k < e)}
    IN /\ root # Nil => \A k \in Key :
             LET r == Get(heap, root, k)
             IN /\ IF k \in keys THEN <<k, r.value>> \in entries ELSE r.value = NoValue
                /\ r.index = Cardinality({j \in keys : j < k})
                /\ k \in keys => GetByIndex(heap, root, r.index) = k
       /\ \A s, e \in Bounds :
             LET up   == Ascending(InRange(s, e))
                 down == [i \in DOMAIN up |-> up[Len(up) - i + 1]]
             IN /\ Iterator(heap, root, s, e, TRUE) = up
                /\ Iterator(heap, root, s, e, FALSE) = down

\* Every key of the tree has an existence proof that leads to the root hash,
\* and every other key a proof that its two neighbours are in the tree with
\* nothing between them, also when a hash is only computed for the proof.
ProofsVerify ==
    root # Nil =>
        LET h    == HashedHeap
            keys == KeysOf(heap, root)
            Proofs(S) == {[key |-> k, root |-> Digest(heap, root)] : k \in S}
        IN \A k \in Key :
              LET below == {j \in keys : j < k}
                  above == {j \in keys : j > k}
                  none  == GetNonMembershipProof(h, root, k)
              IN IF k \in keys
                   THEN createExistenceProof(h, root, k) \in Proofs({k})
                   ELSE /\ none.left  = Proofs(IF below = {} THEN {} ELSE {Max(below)})
                        /\ none.right = Proofs(IF above = {} THEN {} ELSE {Min(above)})

\* The nodes of a tree in post-order, without their addresses.
NodesOf(h, n) ==
    LET nodes == ScanPostOrder(h, n)
    IN [i \in DOMAIN nodes |-> [h[nodes[i]] EXCEPT !.left = Nil, !.right = Nil]]

\* A written snapshot is opened as the same tree, hashes and versions included,
\* although only positions of leaves are stored (so that Persisted is what the
\* files give), and a lookup by binary search in the file finds what the lookup
\* in the tree finds.
SnapshotReadsBack ==
    LET f == WriteSnapshot(heap, root)
        t == OpenTree(<<>>, f)
    IN /\ NodesOf(t.heap, t.node) = NodesOf(Persisted(heap, root), root)
       /\ root # Nil =>
             /\ t.heap[t.node].hash = Digest(heap, root)
             /\ \A k \in Key : GetPersisted(f, RootNode(f), k) = Get(heap, root, k)
             /\ \A i \in 0 .. Len(f.leaves) :
                   GetByIndexPersisted(f, RootNode(f), i) = GetByIndex(heap, root, i)

\* Both ways of exporting a tree give the same stream of nodes, and importing
\* the stream writes the same snapshot, hash by hash, as the exporting node has.
ExportImportsBack ==
    LET f == WriteSnapshot(heap, root)
        s == doImport(ExportFile(f))
    IN /\ ExportFile(f) = ExportTree(heap, root)
       /\ s.file = f
       /\ Len(s.leavesStack) = IF root = Nil THEN 0 ELSE 1

=============================================================================
