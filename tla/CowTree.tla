------------------------------ MODULE CowTree ------------------------------
(***************************************************************************)
(* One memiavl Tree (memiavl/tree.go) over its life: change sets are       *)
(* applied in place or on clones, versions are saved, a copy is taken for  *)
(* the background snapshot rewrite and shares its nodes with the working   *)
(* tree, the written snapshot is opened again and its nodes live in mapped *)
(* files from then on.                                                     *)
(***************************************************************************)
EXTENDS AvlTree

CONSTANTS
    Key, Value,
    CacheSizes,     \* the values of Options.CacheSize
    KeysAt(_),      \* bound on the keys written by the block after a version
    ValuesAt(_),    \* bound on the values it writes
    MaxVersion      \* the largest version (math.MaxUint32)

ASSUME TreeAssumption ==
    /\ Key \subseteq Nat \ {0}
    /\ NoValue \notin Value
    /\ CacheSizes \subseteq Nat
    /\ MaxVersion \in Nat
    /\ \A v \in 0 .. MaxVersion : KeysAt(v) \subseteq Key /\ ValuesAt(v) \subseteq Value

VARIABLES
    heap,           \* the nodes that are reachable
    root,           \* Tree.root
    version,        \* Tree.version
    cowVersion,     \* Tree.cowVersion
    cacheSize,      \* the size Tree.cache was created with, 0 for none
    cache,          \* Tree.cache: the values of the keys it holds
    copyRoot,       \* root of the copy taken for a snapshot rewrite
    copyVersion     \* its version, NoCopy when there is no copy

vars == <<heap, root, version, cowVersion, cacheSize, cache, copyRoot, copyVersion>>

NoCopy     == -1
EmptyCache == [k \in {} |-> NoValue]

\* Garbage collection: of the nodes of a heap only those reachable from the
\* root of the tree and from the root of the copy stay.
Live(h, r, c) == [n \in Reach(h, r) \cup Reach(h, c) |-> h[n]]

\* The tree becomes what an operation that returns [heap, node] leaves.
Install(r) ==
    /\ root' = r.node
    /\ heap' = Live(r.heap, r.node, copyRoot)

\* cache.Add and cache.Remove of the LRU cache (github.com/cosmos/iavl/cache,
\* external): a full cache evicts another key.
CacheAdd(key, value) ==
    IF cacheSize = 0 THEN cache' = cache
    ELSE \E kept \in SUBSET (DOMAIN cache \ {key}) :
           /\ Cardinality(kept) = Min({cacheSize - 1, Cardinality(DOMAIN cache \ {key})})
           /\ cache' = [k \in kept \cup {key} |-> IF k = key THEN value ELSE cache[k]]

CacheRemove(key) == cache' = [k \in DOMAIN cache \ {key} |-> cache[k]]

-----------------------------------------------------------------------------
\* New.
Init ==
    /\ heap = [n \in {} |-> Nil] /\ root = Nil /\ version = 0 /\ cowVersion = 0
    /\ cacheSize \in CacheSizes /\ cache = EmptyCache
    /\ copyRoot = Nil /\ copyVersion = NoCopy

\* ApplyChangeSet, one pair at a time.  Writes to a tree at its last version,
\* which no SaveVersion can save any more, are left out.
Set(key, value) ==
    /\ version < MaxVersion
    /\ Install(setRecursive(heap, root, key, value, version + 1, cowVersion))
    /\ CacheAdd(key, value)
    /\ UNCHANGED <<cacheSize, version, cowVersion, copyRoot, copyVersion>>

\* Variant: the removed key stays in the cache.
RemoveNotCached(key) ==
    /\ version < MaxVersion
    /\ Install(removeRecursive(heap, root, key, version + 1, cowVersion))
    /\ UNCHANGED <<cacheSize, version, cowVersion, copyRoot, copyVersion, cache>>

Remove(key) ==
    /\ version < MaxVersion
    /\ Install(removeRecursive(heap, root, key, version + 1, cowVersion))
    /\ CacheRemove(key)
    /\ UNCHANGED <<cacheSize, version, cowVersion, copyRoot, copyVersion>>

\* Tree.Get of a key that is there and not cached.
GetUncached(key) ==
    /\ key \notin DOMAIN cache /\ root # Nil
    /\ LET value == Get(heap, root, key).value
       IN value # NoValue /\ CacheAdd(key, value)
    /\ UNCHANGED <<cacheSize, heap, root, version, cowVersion, copyRoot, copyVersion>>

HashedHeap == Hash(heap, root)

\* RootHash of the working tree (MultiTree.WorkingCommitInfo).
RootHash ==
    /\ heap' = HashedHeap
    /\ UNCHANGED <<cacheSize, root, version, cowVersion, cache, copyRoot, copyVersion>>

\* Variant: the version may overflow.
SaveVersionOverflow(updateHash) ==
    /\ version' = version + 1
    /\ heap' = IF updateHash THEN HashedHeap ELSE heap
    /\ UNCHANGED <<root, cowVersion, cacheSize, cache, copyRoot, copyVersion>>

\* SaveVersion, with the hashes (DB.Commit) or without (CatchupWAL).
SaveVersion(updateHash) ==
    /\ version < MaxVersion
    /\ version' = version + 1
    /\ heap' = IF updateHash THEN HashedHeap ELSE heap
    /\ UNCHANGED <<cacheSize, root, cowVersion, cache, copyRoot, copyVersion>>

\* Variant: the version before SaveVersion is protected.
CommitAndCopyEarly ==
    /\ version < MaxVersion /\ copyVersion = NoCopy
    /\ version' = version + 1
    /\ cowVersion' = IF root # Nil /\ ~heap[root].disk THEN version ELSE cowVersion
    /\ heap' = HashedHeap
    /\ copyRoot' = root /\ copyVersion' = version + 1
    /\ UNCHANGED <<cacheSize, root, cache>>

\* DB.Commit that starts a snapshot rewrite: SaveVersion, then Copy.  The
\* MemNodes of the saved version are protected; a PersistedNode never changes.
CommitAndCopy ==
    /\ version < MaxVersion /\ copyVersion = NoCopy
    /\ version' = version + 1
    /\ cowVersion' = IF root # Nil /\ ~heap[root].disk THEN version + 1 ELSE cowVersion
    /\ heap' = HashedHeap
    /\ copyRoot' = root /\ copyVersion' = version + 1
    /\ UNCHANGED <<cacheSize, root, cache>>

\* The rewrite fails or is cancelled and the copy is dropped.
DropCopy ==
    /\ copyVersion # NoCopy
    /\ heap' = Live(heap, root, Nil)
    /\ copyRoot' = Nil /\ copyVersion' = NoCopy
    /\ UNCHANGED <<cacheSize, root, version, cowVersion, cache>>

\* What a snapshot of the tree at n is opened as (WriteSnapshot, OpenSnapshot,
\* NewFromSnapshot): its nodes with their hashes, in mapped files.  The files
\* and the positions of the nodes in them are in SnapshotFile.
Persisted(h, n) ==
    LET hashed == Hash(h, n)
    IN [m \in Reach(h, n) |-> [hashed[m] EXCEPT !.disk = TRUE]]

\* Variant: the working tree is written instead of the copy.
OpenSnapshotWorking(size) ==
    /\ copyVersion # NoCopy
    /\ root' = root /\ heap' = Persisted(heap, root)
    /\ version' = copyVersion /\ cowVersion' = 0
    /\ cacheSize' = size /\ cache' = EmptyCache
    /\ copyRoot' = Nil /\ copyVersion' = NoCopy

\* The copy is written and opened again.  The change sets committed since it
\* was taken come back from the WAL: CatchupWAL applies them by Set, Remove
\* and SaveVersion.
OpenSnapshot(size) ==
    /\ copyVersion # NoCopy
    /\ root' = copyRoot /\ heap' = Persisted(heap, copyRoot)
    /\ version' = copyVersion /\ cowVersion' = 0
    /\ cacheSize' = size /\ cache' = EmptyCache
    /\ copyRoot' = Nil /\ copyVersion' = NoCopy

\* DB.Load after a restart, and the switch of a running DB to the rewritten
\* snapshot, which the rewrite goroutine opens without a cache.
Load   == \E size \in CacheSizes : OpenSnapshot(size)
Switch == OpenSnapshot(0)

Next ==
    \/ \E k \in KeysAt(version), v \in ValuesAt(version) : Set(k, v)
    \/ \E k \in KeysAt(version) : Remove(k)
    \/ \E k \in Key : GetUncached(k)
    \/ RootHash
    \/ \E updateHash \in BOOLEAN : SaveVersion(updateHash)
    \/ CommitAndCopy \/ DropCopy \/ Load \/ Switch

Spec == Init /\ [][Next]_vars

-----------------------------------------------------------------------------
(***************************************************************************)
(* Properties.                                                             *)
(***************************************************************************)
\* The entries <<key, value>> of the map that a tree stands for.
Entries(h, n) == {<<h[m].key, h[m].value>> : m \in {m \in Reach(h, n) : IsLeaf(h, m)}}

KeysOf(h, n) == {e[1] : e \in Entries(h, n)}

Nodes == DOMAIN heap

\* The type of the state.
TypeOK ==
    /\ \A n \in Nodes :
          /\ heap[n].key \in Key /\ heap[n].value \in Value \cup {NoValue}
          /\ heap[n].version \in 1 .. MaxVersion + 1
          /\ heap[n].left \in {Nil} \cup Nodes /\ heap[n].right \in {Nil} \cup Nodes
    /\ {root, copyRoot} \subseteq {Nil} \cup Nodes
    /\ version \in 0 .. MaxVersion /\ cowVersion \in 0 .. MaxVersion
    /\ DOMAIN cache \subseteq Key /\ Cardinality(DOMAIN cache) =< cacheSize
    /\ copyVersion \in {NoCopy} \cup 0 .. MaxVersion

\* Whatever sequence of writes and removals, in place or on clones, on nodes
\* in memory or in mapped files: the working tree and the copy are AVL search
\* trees, and height, size and key of every branch are those of its subtrees.
WellFormed ==
    \A n \in Nodes : ~IsLeaf(heap, n) =>
        LET l      == heap[n].left
            r      == heap[n].right
            lower  == KeysOf(heap, l)
            higher == KeysOf(heap, r)
        IN /\ heap[n].height = Max({heap[l].height, heap[r].height}) + 1
           /\ heap[n].size = Cardinality(lower \cup higher)
           /\ calcBalance(heap, n) \in -1 .. 1
           /\ heap[n].key \in higher
           /\ \A k \in higher : heap[n].key =< k
           /\ \A k \in lower : k < heap[n].key

\* A cached hash is the hash of the node as it is now (VerifyHash), and those
\* it is computed from are cached too: no write below a node, and no rotation
\* through it, leaves an old hash behind.
HashFresh ==
    \A n \in Nodes : heap[n].hash # NoHash =>
        /\ heap[n].hash = HashNode(heap, n)
        /\ \A c \in Children(heap, n) : heap[c].hash # NoHash

\* The copy written by the snapshot goroutine does not change in any node
\* while the working tree is written.
CopyIsolated ==
    [][copyVersion' = copyVersion =>
          /\ copyRoot' = copyRoot
          /\ \A n \in Reach(heap, copyRoot) : n \in DOMAIN heap' /\ heap'[n] = heap[n]]_vars

\* Why it does not: each of its nodes is in a mapped file or older than what
\* Mutate writes in place, none is younger than the copy, and none will get a
\* hash later.
CopyProtected ==
    \A n \in Reach(heap, copyRoot) :
        /\ heap[n].disk \/ heap[n].version =< cowVersion
        /\ heap[n].version =< copyVersion
        /\ heap[n].hash # NoHash

\* Every read through the cache returns what the tree holds.
CacheAgrees ==
    \A k \in DOMAIN cache : <<k, cache[k]>> \in Entries(heap, root)

Map == INSTANCE VersionedMap WITH
    entries       <- Entries(heap, root),
    frozen        <- Entries(heap, copyRoot),
    frozenVersion <- copyVersion

\* The tree implements a versioned map with a frozen copy: a change set
\* changes exactly its keys, and neither a rotation, a hash, a snapshot nor a
\* cached read changes the map.
ImplementsMap == Map!Spec

\* No write and no removal is lost or hits another key: each is the same
\* operation of the map.
WritesTakeEffect ==
    [][\A k \in KeysAt(version) :
          /\ Remove(k) => Map!Delete(k)
          /\ \A v \in ValuesAt(version) : Set(k, v) => Map!Write(k, v)]_vars

=============================================================================
