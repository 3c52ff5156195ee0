-------------------------- MODULE NodeStoresProofs --------------------------
(***************************************************************************)
(* Proofs about the stores of a node, for all keys, values and change      *)
(* sets, every snapshot interval, number of snapshots kept, upgrade height *)
(* and number of blocks and crashes.  StoresInv of NodeStores is shown     *)
(* inductive with one lemma per action; the theorems follow from it.       *)
(***************************************************************************)
EXTENDS NodeStores, SetLemmas, SequenceTheorems

-----------------------------------------------------------------------------
(***************************************************************************)
(* Change sets and the state after a block.                                *)
(***************************************************************************)
\* Every change set is a partial function on the keys.
LEMMA ChangeSetFacts ==
    ASSUME NEW cs \in ChangeSets
    PROVE  /\ cs \in Partial /\ DOMAIN cs \subseteq Key
           /\ cs \in [DOMAIN cs -> Value \cup {Deleted}]
<1>1. DOMAIN cs \subseteq Key /\ cs \in [DOMAIN cs -> Value \cup {Deleted}]
  BY StoresAssumption
<1>. QED  BY <1>1 DEF Partial

\* What is in Partial.
LEMMA PartialFacts ==
    ASSUME NEW f
    PROVE  f \in Partial <=>
              DOMAIN f \subseteq Key /\ f \in [DOMAIN f -> Value \cup {Deleted}]
<1>1. ASSUME f \in Partial
      PROVE  DOMAIN f \subseteq Key /\ f \in [DOMAIN f -> Value \cup {Deleted}]
  <2>1. PICK S \in SUBSET Key : f \in [S -> Value \cup {Deleted}]
    BY <1>1 DEF Partial
  <2>. QED  BY <2>1
<1>2. ASSUME DOMAIN f \subseteq Key, f \in [DOMAIN f -> Value \cup {Deleted}]
      PROVE  f \in Partial
  BY <1>2 DEF Partial
<1>. QED  BY <1>1, <1>2

\* NoWrite changes nothing, whichever of the two is later.
LEMMA OverNoWrite ==
    ASSUME NEW f \in Partial
    PROVE  Over(f, NoWrite) = f /\ Over(NoWrite, f) = f /\ Over(f, f) = f
<1>1. f \in [DOMAIN f -> Value \cup {Deleted}]
  BY PartialFacts
<1>2. DOMAIN NoWrite = {}
  BY DEF NoWrite
<1>. HIDE DEF NoWrite
<1>. QED  BY <1>1, <1>2 DEF Over

\* NoWrite is a partial function.
LEMMA NoWritePartial == NoWrite \in Partial
  BY PartialFacts DEF NoWrite

\* The last write of a key in a section of the chain, when there is one.
LEMMA LastWriteIs ==
    ASSUME NEW s, NEW a \in Int, NEW b \in Int, NEW k, NEW m \in a .. b,
           k \in DOMAIN s[m], \A j \in a .. b : k \in DOMAIN s[j] => j =< m
    PROVE  LastWrite(s, a, b, k) = s[m][k]
<1>. DEFINE writes == {i \in a .. b : k \in DOMAIN s[i]}
<1>1. m \in writes /\ \A j \in writes : j =< m
  OBVIOUS
<1>2. \A i \in writes : (\A j \in writes : j =< i) => i = m
  BY <1>1
<1>3. (CHOOSE i \in writes : \A j \in writes : j =< i) = m
  <2>. HIDE DEF writes
  <2>. QED  BY <1>1, <1>2
<1>4. writes # {}
  BY <1>1
<1>5. LastWrite(s, a, b, k) = s[CHOOSE i \in writes : \A j \in writes : j =< i][k]
  BY <1>4, Zenon DEF LastWrite
<1>. QED  BY <1>3, <1>5

\* A key that is not written has no value.
LEMMA LastWriteNone ==
    ASSUME NEW s, NEW a \in Int, NEW b \in Int, NEW k,
           \A j \in a .. b : k \notin DOMAIN s[j]
    PROVE  LastWrite(s, a, b, k) = Deleted
<1>1. {i \in a .. b : k \in DOMAIN s[i]} = {}
  OBVIOUS
<1>. QED  BY <1>1, Zenon DEF LastWrite

\* One of the two is the case.
LEMMA LastWriteCases ==
    ASSUME NEW s, NEW a \in Int, NEW b \in Int, NEW k
    PROVE  \/ \A j \in a .. b : k \notin DOMAIN s[j]
           \/ \E m \in a .. b : /\ k \in DOMAIN s[m]
                                /\ \A j \in a .. b : k \in DOMAIN s[j] => j =< m
                                /\ LastWrite(s, a, b, k) = s[m][k]
<1>. DEFINE writes == {i \in a .. b : k \in DOMAIN s[i]}
<1>1. writes \in SUBSET Int /\ \A i \in writes : i =< b
  OBVIOUS
<1>2. CASE writes = {}
  BY <1>2
<1>3. CASE writes # {}
  <2>1. \E m \in writes : \A j \in writes : j =< m
    <3>. HIDE DEF writes
    <3>. QED  BY <1>1, <1>3, GreatestInteger
  <2>2. PICK m \in a .. b : /\ k \in DOMAIN s[m]
                            /\ \A j \in a .. b : k \in DOMAIN s[j] => j =< m
    BY <2>1
  <2>3. LastWrite(s, a, b, k) = s[m][k]
    BY <2>2, LastWriteIs
  <2>. QED  BY <2>2, <2>3
<1>. QED  BY <1>2, <1>3

\* Sections that agree write the same.
LEMMA LastWriteSame ==
    ASSUME NEW s, NEW t, NEW a \in Int, NEW b \in Int, NEW k,
           \A i \in a .. b : s[i] = t[i]
    PROVE  LastWrite(s, a, b, k) = LastWrite(t, a, b, k)
<1>1. CASE \A j \in a .. b : k \notin DOMAIN s[j]
  <2>1. \A j \in a .. b : k \notin DOMAIN t[j]
    BY <1>1
  <2>. QED  BY <1>1, <2>1, LastWriteNone
<1>2. ASSUME NEW m \in a .. b, k \in DOMAIN s[m],
             \A j \in a .. b : k \in DOMAIN s[j] => j =< m,
             LastWrite(s, a, b, k) = s[m][k]
      PROVE  LastWrite(s, a, b, k) = LastWrite(t, a, b, k)
  <2>1. k \in DOMAIN t[m] /\ \A j \in a .. b : k \in DOMAIN t[j] => j =< m
    BY <1>2
  <2>2. LastWrite(t, a, b, k) = t[m][k]
    BY <2>1, LastWriteIs
  <2>. QED  BY <1>2, <2>2
<1>. QED  BY <1>1, <1>2, LastWriteCases

\* Chains that agree up to n have the same state after n.
LEMMA AfterSame ==
    ASSUME NEW s, NEW t, NEW n \in Int, \A i \in 1 .. n : s[i] = t[i]
    PROVE  After(s, n) = After(t, n)
<1>1. ASSUME NEW k \in Key PROVE LastWrite(s, 1, n, k) = LastWrite(t, 1, n, k)
  BY LastWriteSame
<1>. QED  BY <1>1 DEF After

\* Before the first block there is nothing.
LEMMA AfterNothing ==
    ASSUME NEW s
    PROVE  After(s, 0) = Empty
<1>1. ASSUME NEW k \in Key PROVE LastWrite(s, 1, 0, k) = Deleted
  BY LastWriteNone
<1>. QED  BY <1>1 DEF After, Empty

\* The state after a block: its writes on top of the state before.
LEMMA AfterStep ==
    ASSUME NEW s, NEW n \in Nat, DOMAIN s[n + 1] \subseteq Key
    PROVE  After(s, n + 1) = Over(s[n + 1], After(s, n))
<1>1. ASSUME NEW k \in Key
      PROVE  LastWrite(s, 1, n + 1, k) =
                IF k \in DOMAIN s[n + 1] THEN s[n + 1][k] ELSE LastWrite(s, 1, n, k)
  <2>1. CASE k \in DOMAIN s[n + 1]
    <3>0. PICK m \in Int : m = n + 1
      OBVIOUS
    <3>1. /\ m \in 1 .. m /\ k \in DOMAIN s[m]
          /\ \A j \in 1 .. m : k \in DOMAIN s[j] => j =< m
      BY <2>1, <3>0
    <3>2. LastWrite(s, 1, m, k) = s[m][k]
      BY <3>1, LastWriteIs
    <3>. QED  BY <2>1, <3>0, <3>2
  <2>2. ASSUME k \notin DOMAIN s[n + 1], \A j \in 1 .. n : k \notin DOMAIN s[j]
        PROVE  LastWrite(s, 1, n + 1, k) = LastWrite(s, 1, n, k)
    <3>1. \A j \in 1 .. n + 1 : k \notin DOMAIN s[j]
      <4>1. \A j \in 1 .. n + 1 : j = n + 1 \/ j \in 1 .. n
        OBVIOUS
      <4>. QED  BY <2>2, <4>1
    <3>2. n \in Int /\ n + 1 \in Int /\ 1 \in Int
      OBVIOUS
    <3>3. LastWrite(s, 1, n, k) = Deleted
      BY <2>2, <3>2, LastWriteNone
    <3>4. LastWrite(s, 1, n + 1, k) = Deleted
      BY <3>1, <3>2, LastWriteNone
    <3>. QED  BY <3>3, <3>4
  <2>3. ASSUME k \notin DOMAIN s[n + 1],
               NEW m \in 1 .. n, k \in DOMAIN s[m],
               \A j \in 1 .. n : k \in DOMAIN s[j] => j =< m
        PROVE  LastWrite(s, 1, n + 1, k) = LastWrite(s, 1, n, k)
    <3>1. /\ m \in 1 .. n + 1 /\ n \in Int /\ n + 1 \in Int /\ 1 \in Int
          /\ \A j \in 1 .. n + 1 : j = n + 1 \/ j \in 1 .. n
      OBVIOUS
    <3>2. \A j \in 1 .. n + 1 : k \in DOMAIN s[j] => j =< m
      BY <2>3, <3>1
    <3>0. k \in DOMAIN s[m] /\ \A j \in 1 .. n : k \in DOMAIN s[j] => j =< m
      BY <2>3
    <3>3. LastWrite(s, 1, n, k) = s[m][k]
      BY <3>0, <3>1, LastWriteIs
    <3>4. LastWrite(s, 1, n + 1, k) = s[m][k]
      BY <3>0, <3>1, <3>2, LastWriteIs
    <3>. QED  BY <3>3, <3>4
  <2>4. n \in Int /\ 1 \in Int
    OBVIOUS
  <2>. QED  BY <2>1, <2>2, <2>3, <2>4, LastWriteCases
<1>2. DOMAIN s[n + 1] \cup DOMAIN After(s, n) = Key
  BY DEF After
<1>3. \A k \in Key : After(s, n)[k] = LastWrite(s, 1, n, k)
  BY DEF After
<1>4. Over(s[n + 1], After(s, n)) = [k \in Key |-> LastWrite(s, 1, n + 1, k)]
  BY <1>1, <1>2, <1>3 DEF Over
<1>. QED  BY <1>4 DEF After

\* The state after a block of a chain of change sets is a state.
LEMMA AfterType ==
    ASSUME NEW s \in Seq(ChangeSets), NEW n \in 0 .. Len(s)
    PROVE  After(s, n) \in [Key -> Value \cup {Deleted}]
<1>1. ASSUME NEW k \in Key PROVE LastWrite(s, 1, n, k) \in Value \cup {Deleted}
  <2>0. Len(s) \in Nat /\ n \in Int /\ 1 \in Int
    BY LenProperties
  <2>1. CASE \A j \in 1 .. n : k \notin DOMAIN s[j]
    BY <2>0, <2>1, LastWriteNone
  <2>2. ASSUME NEW m \in 1 .. n, k \in DOMAIN s[m],
               \A j \in 1 .. n : k \in DOMAIN s[j] => j =< m
        PROVE  LastWrite(s, 1, n, k) \in Value \cup {Deleted}
    <3>1. k \in DOMAIN s[m] /\ \A j \in 1 .. n : k \in DOMAIN s[j] => j =< m
      BY <2>2
    <3>2. LastWrite(s, 1, n, k) = s[m][k]
      BY <2>0, <3>1, LastWriteIs
    <3>3. m \in 1 .. Len(s)
      BY <2>0
    <3>4. s[m] \in ChangeSets
      BY <3>3, ElementOfSeq
    <3>. QED  BY <3>1, <3>2, <3>4, ChangeSetFacts
  <2>. QED  BY <2>0, <2>1, <2>2, LastWriteCases
<1>. QED  BY <1>1 DEF After

\* Two sequences have the same first e elements, and an element after b, up to e,
\* writes the key.
AgreeTo(s, t, e)   == \A i \in 1 .. e : s[i] = t[i]
Writes(s, b, e, k) == \E i \in b + 1 .. e : k \in DOMAIN s[i]

\* A replay of the blocks from b + 1 to e on top of the state after b gives the
\* state after the later of the two.
LEMMA ReplayIs ==
    ASSUME NEW s, NEW t, NEW b \in Nat, NEW e \in Nat, NEW n \in Nat, NEW k \in Key,
           n = IF e < b THEN b ELSE e, AgreeTo(s, t, e)
    PROVE  /\ Writes(s, b, e, k) => LastWrite(t, 1, n, k) = LastWrite(s, b + 1, e, k)
           /\ ~Writes(s, b, e, k) => LastWrite(t, 1, n, k) = LastWrite(t, 1, b, k)
<1>. USE DEF AgreeTo, Writes
<1>0. 1 \in Int /\ b \in Int /\ e \in Int /\ b + 1 \in Int
  OBVIOUS
<1>1. CASE \E i \in b + 1 .. e : k \in DOMAIN s[i]
  <2>1. PICK m \in b + 1 .. e : /\ k \in DOMAIN s[m]
                                /\ \A j \in b + 1 .. e : k \in DOMAIN s[j] => j =< m
                                /\ LastWrite(s, b + 1, e, k) = s[m][k]
    BY <1>0, <1>1, LastWriteCases
  <2>2. m \in 1 .. e /\ ~(e < b) /\ s[m] = t[m]
    BY <2>1
  <2>3. \A j \in 1 .. e : k \in DOMAIN t[j] => j =< m
    <3>1. \A j \in 1 .. e : j =< b \/ j \in b + 1 .. e
      BY <1>0
    <3>2. \A j \in 1 .. e : j =< b => j =< m
      BY <1>0, <2>1
    <3>. QED  BY <2>1, <3>1, <3>2
  <2>4. k \in DOMAIN t[m]
    BY <2>1, <2>2
  <2>5. LastWrite(t, 1, e, k) = t[m][k]
    BY <1>0, <2>2, <2>3, <2>4, LastWriteIs
  <2>. QED  BY <1>1, <2>1, <2>2, <2>5
<1>2. CASE ~(\E i \in b + 1 .. e : k \in DOMAIN s[i]) /\ e < b
  BY <1>2
<1>3. CASE ~(\E i \in b + 1 .. e : k \in DOMAIN s[i]) /\ ~(e < b)
  <2>1. \A j \in 1 .. e : j \in 1 .. b \/ k \notin DOMAIN t[j]
    <3>1. \A j \in 1 .. e : j \in 1 .. b \/ j \in b + 1 .. e
      BY <1>0
    <3>. QED  BY <1>3, <3>1
  <2>2. CASE \A j \in 1 .. b : k \notin DOMAIN t[j]
    <3>1. \A j \in 1 .. e : k \notin DOMAIN t[j]
      BY <2>1, <2>2
    <3>2. LastWrite(t, 1, e, k) = Deleted /\ LastWrite(t, 1, b, k) = Deleted
      BY <1>0, <2>2, <3>1, LastWriteNone
    <3>. QED  BY <1>3, <3>2
  <2>3. ASSUME NEW m \in 1 .. b, k \in DOMAIN t[m],
               \A j \in 1 .. b : k \in DOMAIN t[j] => j =< m,
               LastWrite(t, 1, b, k) = t[m][k]
        PROVE  LastWrite(t, 1, e, k) = LastWrite(t, 1, b, k)
    <3>1. m \in 1 .. e
      BY <1>0, <1>3
    <3>2. \A j \in 1 .. e : k \in DOMAIN t[j] => j =< m
      BY <2>1, <2>3
    <3>3. k \in DOMAIN t[m]
      BY <2>3
    <3>4. LastWrite(t, 1, e, k) = t[m][k]
      BY <1>0, <3>1, <3>2, <3>3, LastWriteIs
    <3>. QED  BY <2>3, <3>4
  <2>4. LastWrite(t, 1, e, k) = LastWrite(t, 1, b, k)
    BY <1>0, <1>3, <2>2, <2>3, LastWriteCases
  <2>. QED  BY <1>3, <2>4
<1>. QED  BY <1>1, <1>2, <1>3

-----------------------------------------------------------------------------
\* Facts about the current state that the steps below use.
ShapeFacts ==
    /\ Len(chain) \in Nat /\ Len(wal) \in Nat /\ MaxHeight \in Nat
    /\ version \in Nat /\ vdbLatest \in Nat /\ last \in Nat /\ block \in Nat
    /\ rewriting \in Nat /\ current \in Nat /\ snaps \subseteq Nat /\ UpgradeHeight \in Nat
    /\ \A i \in 1 .. Len(chain) : chain[i] \in ChangeSets /\ chain[i] \in Partial
    /\ ChangeSets \subseteq Partial /\ NoWrite \in Partial
    /\ Empty \in [Key -> Value \cup {Deleted}]

\* They follow from the types.
LEMMA Shape ==
    ASSUME StoresInv
    PROVE  ShapeFacts
<1>1. chain \in Seq(ChangeSets) /\ wal \in Seq(ChangeSets)
  BY DEF StoresInv, LogInv
<1>2. Len(chain) \in Nat /\ Len(wal) \in Nat
  BY <1>1, LenProperties
<1>3. \A i \in 1 .. Len(chain) : chain[i] \in ChangeSets
  BY <1>1, ElementOfSeq
<1>4. ChangeSets \subseteq Partial
  BY ChangeSetFacts
<1>5. MaxHeight \in Nat /\ UpgradeHeight \in Nat
  BY StoresAssumption
<1>6. /\ version \in Nat /\ vdbLatest \in Nat /\ last \in Nat /\ block \in Nat
      /\ rewriting \in Nat /\ current \in Nat /\ snaps \subseteq Nat
  BY <1>5 DEF StoresInv, TypeOK
<1>7. Empty \in [Key -> Value \cup {Deleted}]
  BY DEF Empty
<1>. QED  BY <1>2, <1>3, <1>4, <1>5, <1>6, <1>7, NoWritePartial DEF ShapeFacts

\* A running process is executing a block or has committed one.
LEMMA FloorFacts ==
    ASSUME StoresInv, phase # "down"
    PROVE  /\ Floor \in Int /\ Floor =< version /\ version =< Floor + 1
           /\ vdbLatest > 0 => Floor =< vdbLatest
<1>1. Executing \/ Committed
  BY DEF StoresInv, TypeOK, Executing, Committed
<1>2. ~(Executing /\ Committed)
  BY DEF Executing, Committed
<1>. QED  BY <1>1, <1>2, Shape DEF Floor, StoresInv, DistanceInv, ShapeFacts

-----------------------------------------------------------------------------
\* Init establishes the invariant.
LEMMA InitKeeps ==
    ASSUME Init
    PROVE  StoresInv
<1>. USE StoresAssumption DEF Init
<1>1. <<>> \in Seq(ChangeSets) /\ <<>> \in Seq(Partial) /\ Len(<<>>) = 0
  BY EmptySeq
<1>2. NoWrite \in Partial
  BY NoWritePartial
<1>3. Empty \in [Key -> Value \cup {Deleted}]
  BY DEF Empty
<1>4. TypeOK
  <2>1. DOMAIN vdb = {}
    OBVIOUS
  <2>2. {pending, buffer, listener} \subseteq Partial
    BY <1>2
  <2>3. /\ snaps \subseteq 0 .. MaxHeight /\ current \in snaps /\ doomed \subseteq snaps /\ vdbLatest \in 0 .. MaxHeight
        /\ version \in 0 .. MaxHeight /\ rewriting \in 0 .. MaxHeight
        /\ last \in 0 .. MaxHeight /\ block \in 0 .. MaxHeight /\ crashes \in 0 .. MaxCrashes
    OBVIOUS
  <2>. QED  BY <1>1, <1>3, <2>1, <2>2, <2>3 DEF TypeOK
<1>5. LogInv
  BY <1>1 DEF LogInv
<1>6. BlockInv /\ TreeInv
  BY DEF BlockInv, TreeInv, Committed
<1>7. DistanceInv
  BY <1>1 DEF DistanceInv, Executing, Committed
<1>8. StampsInv
  BY <1>1 DEF StampsInv
<1>9. SnapshotsInv /\ UpgradeInv
  BY <1>1 DEF SnapshotsInv, UpgradeInv
<1>. QED  BY <1>4, <1>5, <1>6, <1>7, <1>8, <1>9 DEF StoresInv

\* The snapshot that a load starts from.
LEMMA LoadBaseFacts ==
    ASSUME StoresInv, SnapshotFound
    PROVE  /\ LoadBase \in snaps /\ LoadBase \in 0 .. Len(chain)
           /\ Target # 0 => LoadBase =< Target
           /\ Target = 0 => LoadBase = current
<1>0. ShapeFacts
  BY Shape
<1>1. current \in snaps /\ \A s \in snaps : s \in 0 .. Len(chain)
  BY DEF StoresInv, SnapshotsInv
<1>2. CASE Target = 0
  BY <1>1, <1>2 DEF LoadBase
<1>3. CASE Target # 0
  <2>. DEFINE S == {v \in snaps : v =< Target}
  <2>1. S # {} /\ S \in SUBSET Int /\ \A v \in S : v =< Target
    <3>1. \E v \in snaps : v =< Target
      BY <1>3 DEF SnapshotFound
    <3>2. \A v \in snaps : v \in Int
      BY <1>0 DEF ShapeFacts
    <3>. HIDE DEF Target
    <3>. QED  BY <3>1, <3>2
  <2>2. Target \in Int
    BY <1>0 DEF Target, ShapeFacts
  <2>3. \E m \in S : \A n \in S : n =< m
    <3>. HIDE DEF S
    <3>. QED  BY <2>1, <2>2, GreatestInteger
  <2>4. \E v \in snaps : v =< Target /\ \A w \in snaps : w =< Target => w =< v
    BY <2>3
  <2>5. LoadBase \in snaps /\ LoadBase =< Target
    BY <1>3, <2>4 DEF LoadBase
  <2>. QED  BY <1>1, <1>3, <2>5
<1>. QED  BY <1>2, <1>3

\* Opening the database: the version loaded is the one of the snapshot, the end
\* of the log or the latest version of versiondb, and the log is at most one
\* block ahead of it.
LEMMA LoadedFacts ==
    ASSUME StoresInv, SnapshotFound
    PROVE  /\ LoadedVersion \in 0 .. Len(chain)
           /\ LoadBase \in Nat /\ LoadBase =< LoadedVersion
           /\ ReplayEnd \in 0 .. Len(wal)
           /\ LoadedVersion = IF ReplayEnd < LoadBase THEN LoadBase ELSE ReplayEnd
           /\ Target # 0 => LoadedVersion =< Target
           /\ Len(wal) =< LoadedVersion + 1
<1>1. ShapeFacts
  BY Shape
<1>2. (vdbLatest > 0 => Len(wal) =< vdbLatest + 1) /\ Len(wal) =< Len(chain)
  BY DEF StoresInv, DistanceInv, LogInv
<1>3. Target = 0 \/ Target = vdbLatest
  BY DEF Target
<1>4. /\ ReplayEnd \in 0 .. Len(wal) /\ Len(wal) =< ReplayEnd + 1
      /\ Target # 0 => ReplayEnd =< Target
  BY <1>1, <1>2, <1>3 DEF ReplayEnd, Smaller, ShapeFacts
<1>5. LoadBase \in 0 .. Len(chain) /\ (Target # 0 => LoadBase =< Target)
  BY LoadBaseFacts
<1>. QED  BY <1>1, <1>2, <1>4, <1>5 DEF ShapeFacts, LoadedVersion

\* What the load finds is the state after the version it loads.
LEMMA LoadedTreeIs ==
    ASSUME StoresInv, SnapshotFound
    PROVE  LoadedTree = After(chain, LoadedVersion)
<1>0. /\ LoadBase \in Nat /\ ReplayEnd \in Nat /\ ReplayEnd =< Len(wal)
      /\ LoadedVersion = IF ReplayEnd < LoadBase THEN LoadBase ELSE ReplayEnd
  BY LoadedFacts, Shape DEF ShapeFacts
<1>1. \A i \in 1 .. ReplayEnd : wal[i] = chain[i]
  BY <1>0, Shape DEF StoresInv, LogInv, ShapeFacts
<1>2. ASSUME NEW k \in Key
      PROVE  LastWrite(chain, 1, LoadedVersion, k) =
                IF \E i \in LoadBase + 1 .. ReplayEnd : k \in DOMAIN wal[i]
                  THEN LastWrite(wal, LoadBase + 1, ReplayEnd, k)
                  ELSE LastWrite(chain, 1, LoadBase, k)
  <2>1. PICK b \in Nat, e \in Nat : b = LoadBase /\ e = ReplayEnd
    BY <1>0
  <2>2. AgreeTo(wal, chain, e)
    BY <1>1, <2>1 DEF AgreeTo
  <2>3. PICK n \in Nat : n = LoadedVersion /\ n = IF e < b THEN b ELSE e
    BY <1>0, <2>1
  <2>4. /\ Writes(wal, b, e, k) => LastWrite(chain, 1, n, k) = LastWrite(wal, b + 1, e, k)
        /\ ~Writes(wal, b, e, k) => LastWrite(chain, 1, n, k) = LastWrite(chain, 1, b, k)
    BY <1>2, <2>2, <2>3, ReplayIs
  <2>. QED  BY <2>1, <2>3, <2>4 DEF Writes
<1>3. \A k \in Key : After(chain, LoadBase)[k] = LastWrite(chain, 1, LoadBase, k)
  BY DEF After
<1>4. LoadedTree = [k \in Key |-> LastWrite(chain, 1, LoadedVersion, k)]
  BY <1>2, <1>3 DEF LoadedTree
<1>. QED  BY <1>4 DEF After

LEMMA StartKeeps ==
    ASSUME StoresInv, Start
    PROVE  StoresInv'
<1>. USE DEF diskVars, pruneVars, listenVars
<1>0. ShapeFacts
  BY Shape
<1>1. /\ SnapshotFound /\ version' = LoadedVersion
      /\ version' \in 0 .. Len(chain) /\ Len(wal) =< version' + 1
      /\ vdbLatest > 0 => version' =< vdbLatest
      /\ last' = version'
  <2>1. SnapshotFound /\ ~LagBehind
    BY DEF Start, CanStart
  <2>2. vdbLatest > 0 => LoadedVersion =< vdbLatest
    <3>1. LoadedVersion \in Nat
      BY <1>0, <2>1, LoadedFacts DEF ShapeFacts
    <3>. QED  BY <1>0, <2>1, <3>1 DEF LagBehind, ShapeFacts
  <2>. QED  BY <2>1, <2>2, LoadedFacts DEF Start
<1>2. tree' = After(chain, version')
  BY <1>1, LoadedTreeIs DEF Start
<1>3. tree' \in [Key -> Value \cup {Deleted}]
  <2>1. chain \in Seq(ChangeSets)
    BY DEF StoresInv, LogInv
  <2>. QED  BY <1>1, <1>2, <2>1, AfterType
<1>4. TypeOK'
  BY <1>0, <1>1, <1>3 DEF Start, StoresInv, TypeOK, LogInv, ShapeFacts
<1>5. LogInv'
  BY DEF Start, StoresInv, LogInv
<1>6. BlockInv'
  BY DEF Start, StoresInv, BlockInv, Committed
<1>7. TreeInv'
  BY <1>1, <1>2 DEF Start, StoresInv, TreeInv
<1>8. DistanceInv'
  BY <1>0, <1>1 DEF Start, StoresInv, DistanceInv, Executing, Committed, Height, ShapeFacts
<1>9. StampsInv'
  BY DEF Start, StoresInv, StampsInv
<1>10. SnapshotsInv'
  <2>1. LoadBase \in snaps /\ LoadBase =< version' /\ doomed = {} /\ pruner = "off"
    BY <1>1, LoadBaseFacts, LoadedFacts DEF Start, StoresInv, SnapshotsInv
  <2>2. Floor' = version'
    BY DEF Floor, Committed, Start
  <2>3. \E x \in snaps \ doomed : x =< Floor'
    BY <2>1, <2>2
  <2>. QED  BY <2>1, <2>3 DEF Start, StoresInv, SnapshotsInv
<1>11. UpgradeInv'
  BY DEF Start, StoresInv, UpgradeInv, Committed
<1>. QED  BY <1>4, <1>5, <1>6, <1>7, <1>8, <1>9, <1>10, <1>11 DEF StoresInv

LEMMA WriteKeeps ==
    ASSUME StoresInv, NEW cs \in ChangeSets, Write(cs)
    PROVE  StoresInv'
<1>. USE DEF diskVars, pruneVars
<1>0. ShapeFacts
  BY Shape
<1>1. Height \in 1 .. Len(chain) + 1 /\ Height =< MaxHeight /\ phase = "idle"
  BY <1>0 DEF Write, StoresInv, DistanceInv, LogInv, Height, ShapeFacts
<1>2. /\ chain' \in Seq(ChangeSets) /\ Len(chain') \in Nat
      /\ Len(chain) =< Len(chain') /\ Len(chain') =< MaxHeight
      /\ \A i \in 1 .. Len(chain) : chain'[i] = chain[i]
      /\ Height =< Len(chain') /\ chain'[Height] = cs
  <2>1. CASE Height =< Len(chain)
    BY <1>0, <1>1, <2>1 DEF Write, StoresInv, LogInv, ShapeFacts
  <2>2. CASE ~(Height =< Len(chain))
    <3>1. chain' = Append(chain, cs) /\ chain \in Seq(ChangeSets)
      BY <2>2 DEF Write, StoresInv, LogInv
    <3>2. Height = Len(chain) + 1
      BY <1>0, <1>1, <2>2 DEF ShapeFacts, Height
    <3>3. /\ chain' \in Seq(ChangeSets) /\ Len(chain') = Len(chain) + 1
          /\ \A i \in 1 .. Len(chain) : chain'[i] = chain[i]
          /\ chain'[Len(chain) + 1] = cs
      BY <3>1, AppendProperties
    <3>. QED  BY <1>0, <1>1, <3>2, <3>3 DEF ShapeFacts
  <2>. QED  BY <2>1, <2>2
<1>3. buffer' = cs /\ listener' = cs /\ cs \in Partial
  <2>1. buffer = NoWrite /\ listener = NoWrite
    BY <1>1 DEF StoresInv, BlockInv
  <2>. QED  BY <1>0, <2>1, OverNoWrite DEF Write, ShapeFacts
<1>4. TypeOK'
  <2>1. {pending', buffer', listener'} \subseteq Partial
    BY <1>0, <1>3 DEF StoresInv, TypeOK, Write
  <2>. QED  BY <1>2, <2>1 DEF Write, StoresInv, TypeOK
<1>5. LogInv'
  <2>1. \A i \in 1 .. Len(wal) : wal[i] = chain'[i]
    BY <1>0, <1>2 DEF StoresInv, LogInv, ShapeFacts
  <2>. QED  BY <1>0, <1>2, <2>1 DEF Write, StoresInv, LogInv, ShapeFacts
<1>6. BlockInv'
  BY <1>1, <1>2, <1>3 DEF Write, StoresInv, BlockInv, Committed, Height
<1>7. TreeInv'
  <2>1. \A i \in 1 .. version : chain[i] = chain'[i]
    BY <1>0, <1>1, <1>2 DEF ShapeFacts, Height
  <2>2. After(chain, version) = After(chain', version)
    BY <1>0, <2>1, AfterSame DEF ShapeFacts
  <2>. QED  BY <1>1, <2>2 DEF Write, StoresInv, TreeInv
<1>8. DistanceInv'
  BY <1>0, <1>1, <1>2 DEF Write, StoresInv, DistanceInv, Executing, Committed, Height, ShapeFacts
<1>9. StampsInv'
  <2>1. \A v \in DOMAIN vdb : v \in 1 .. Len(chain') /\ vdb[v] = chain'[v]
    BY <1>0, <1>2 DEF StoresInv, StampsInv, ShapeFacts
  <2>. QED  BY <2>1 DEF Write, StoresInv, StampsInv
<1>10. SnapshotsInv'
  <2>1. \A x \in snaps : x \in 0 .. Len(chain')
    BY <1>0, <1>2 DEF StoresInv, SnapshotsInv, ShapeFacts
  <2>2. Floor' = Floor
    BY <1>1 DEF Floor, Committed, Write
  <2>. QED  BY <1>1, <2>1, <2>2 DEF Write, StoresInv, SnapshotsInv
<1>11. UpgradeInv'
  BY <1>0 DEF Write, StoresInv, UpgradeInv, Committed, Height, ShapeFacts
<1>. QED  BY <1>4, <1>5, <1>6, <1>7, <1>8, <1>9, <1>10, <1>11 DEF StoresInv

\* The process goes and leaves a part of the log.
LEMMA ProcessGoneKeeps ==
    ASSUME StoresInv, ProcessGone, UNCHANGED <<chain, snaps, current, vdb, vdbLatest>>,
           wal' \in Seq(ChangeSets), Len(wal') =< Len(wal),
           \A i \in 1 .. Len(wal') : wal'[i] = wal[i],
           crashes' \in 0 .. MaxCrashes, upgraded' \in BOOLEAN,
           upgraded' => /\ UpgradeHeight >= 1
                        /\ vdbLatest = 0 \/ vdbLatest >= UpgradeHeight - 1
    PROVE  StoresInv'
<1>0. ShapeFacts
  BY Shape
<1>1. Len(wal') \in Nat
  BY LenProperties
<1>2. wal' \in Seq(Partial)
  <2>1. Seq(ChangeSets) \subseteq Seq(Partial)
    BY <1>0 DEF ShapeFacts
  <2>. QED  BY <2>1
<1>4. TypeOK'
  <2>1. {pending', buffer', listener'} \subseteq Partial
    BY <1>0 DEF ProcessGone, ShapeFacts
  <2>. QED  BY <1>0, <1>2, <2>1 DEF ProcessGone, StoresInv, TypeOK, ShapeFacts
<1>5. LogInv'
  BY <1>0, <1>1 DEF StoresInv, LogInv, ShapeFacts
<1>6. BlockInv'
  BY DEF ProcessGone, BlockInv, Committed
<1>7. TreeInv'
  BY DEF ProcessGone, TreeInv
<1>8. DistanceInv'
  BY <1>0, <1>1 DEF ProcessGone, StoresInv, DistanceInv, Executing, Committed, ShapeFacts
<1>9. StampsInv'
  BY DEF StoresInv, StampsInv
<1>10. SnapshotsInv'
  BY <1>1 DEF ProcessGone, StoresInv, SnapshotsInv
<1>11. UpgradeInv'
  BY DEF ProcessGone, UpgradeInv, Committed
<1>. QED  BY <1>4, <1>5, <1>6, <1>7, <1>8, <1>9, <1>10, <1>11 DEF StoresInv

LEMMA UpgradePanicKeeps ==
    ASSUME StoresInv, UpgradePanic
    PROVE  StoresInv'
<1>0. ShapeFacts
  BY Shape
<1>1. UpgradeHeight >= 1 /\ (vdbLatest = 0 \/ vdbLatest >= UpgradeHeight - 1)
  BY <1>0 DEF UpgradePanic, StoresInv, DistanceInv, Executing, Height, ShapeFacts
<1>2. /\ wal' \in Seq(ChangeSets) /\ Len(wal') =< Len(wal)
      /\ \A i \in 1 .. Len(wal') : wal'[i] = wal[i]
  BY <1>0 DEF UpgradePanic, StoresInv, LogInv, SnapshotsInv, ShapeFacts
<1>3. crashes' \in 0 .. MaxCrashes /\ upgraded' \in BOOLEAN
  BY DEF UpgradePanic, StoresInv, TypeOK
<1>4. ProcessGone /\ UNCHANGED <<chain, snaps, current, vdb, vdbLatest>>
  BY DEF UpgradePanic
<1>. QED  BY <1>1, <1>2, <1>3, <1>4, ProcessGoneKeeps

LEMMA CloseKeeps ==
    ASSUME StoresInv, Close
    PROVE  StoresInv'
<1>0. ShapeFacts
  BY Shape
<1>1. upgraded' => /\ UpgradeHeight >= 1
                   /\ vdbLatest = 0 \/ vdbLatest >= UpgradeHeight - 1
  BY DEF Close, diskVars, StoresInv, UpgradeInv
<1>2. /\ wal' \in Seq(ChangeSets) /\ Len(wal') =< Len(wal)
      /\ \A i \in 1 .. Len(wal') : wal'[i] = wal[i]
  BY <1>0 DEF Close, diskVars, StoresInv, LogInv, SnapshotsInv, ShapeFacts
<1>3. crashes' \in 0 .. MaxCrashes /\ upgraded' \in BOOLEAN
  BY DEF Close, diskVars, StoresInv, TypeOK
<1>4. ProcessGone /\ UNCHANGED <<chain, snaps, current, vdb, vdbLatest>>
  BY DEF Close, diskVars
<1>. QED  BY <1>1, <1>2, <1>3, <1>4, ProcessGoneKeeps

\* The panic of Commit.
LEMMA CommitFailsKeeps ==
    ASSUME StoresInv, CommitFails
    PROVE  StoresInv'
<1>0. ShapeFacts
  BY Shape
<1>1. upgraded' => /\ UpgradeHeight >= 1
                   /\ vdbLatest = 0 \/ vdbLatest >= UpgradeHeight - 1
  BY DEF CommitFails, diskVars, StoresInv, UpgradeInv
<1>2. /\ wal' \in Seq(ChangeSets) /\ Len(wal') =< Len(wal)
      /\ \A i \in 1 .. Len(wal') : wal'[i] = wal[i]
  BY <1>0 DEF CommitFails, diskVars, StoresInv, LogInv, ShapeFacts
<1>3. crashes' \in 0 .. MaxCrashes /\ upgraded' \in BOOLEAN
  BY DEF CommitFails, diskVars, StoresInv, TypeOK
<1>4. ProcessGone /\ UNCHANGED <<chain, snaps, current, vdb, vdbLatest>>
  BY DEF CommitFails, diskVars
<1>. QED  BY <1>1, <1>2, <1>3, <1>4, ProcessGoneKeeps

\* A crash keeps any part of the log.
LEMMA CrashKeeps ==
    ASSUME StoresInv, Crash
    PROVE  StoresInv'
<1>0. ShapeFacts
  BY Shape
<1>1. upgraded' => /\ UpgradeHeight >= 1
                   /\ vdbLatest = 0 \/ vdbLatest >= UpgradeHeight - 1
  BY DEF Crash, StoresInv, UpgradeInv
<1>2. PICK n \in 0 .. Len(wal) : wal' = SubSeq(wal, 1, n)
  BY DEF Crash
<1>3. wal' \in Seq(ChangeSets) /\ Len(wal') = n /\ \A i \in 1 .. n : wal'[i] = wal[i]
  <2>1. wal \in Seq(ChangeSets)
    BY DEF StoresInv, LogInv
  <2>2. \A i \in 1 .. n : wal[i] \in ChangeSets
    <3>1. \A i \in 1 .. n : i \in 1 .. Len(wal)
      BY <1>0 DEF ShapeFacts
    <3>. QED  BY <2>1, <3>1, ElementOfSeq
  <2>. QED  BY <1>0, <1>2, <2>1, <2>2, SubSeqProperties DEF ShapeFacts
<1>4. crashes' \in 0 .. MaxCrashes /\ upgraded' \in BOOLEAN
  <2>1. crashes \in 0 .. MaxCrashes /\ crashes < MaxCrashes /\ crashes' = crashes + 1
    BY DEF Crash, StoresInv, TypeOK
  <2>2. crashes' \in 0 .. MaxCrashes
    BY <2>1, StoresAssumption
  <2>3. upgraded' \in BOOLEAN
    BY DEF Crash, StoresInv, TypeOK
  <2>. QED  BY <2>2, <2>3
<1>5. ProcessGone /\ UNCHANGED <<chain, snaps, current, vdb, vdbLatest>>
  BY DEF Crash
<1>6. Len(wal') =< Len(wal)
  BY <1>0, <1>3 DEF ShapeFacts
<1>. QED  BY <1>1, <1>3, <1>4, <1>5, <1>6, ProcessGoneKeeps

LEMMA WorkingHashKeeps ==
    ASSUME StoresInv, WorkingHash
    PROVE  StoresInv'
<1>. USE DEF diskVars, pruneVars, listenVars
<1>0. ShapeFacts
  BY Shape
<1>1. /\ phase = "written" /\ Height \in 1 .. Len(chain) /\ Height = version + 1
      /\ buffer = chain[Height] /\ pending = NoWrite /\ chain[Height] \in Partial
  BY <1>0 DEF WorkingHash, StoresInv, BlockInv, Height, ShapeFacts
<1>2. buffer' = NoWrite /\ pending' = chain[Height]
  BY <1>1, OverNoWrite DEF WorkingHash, Flush
<1>3. tree' = After(chain, Height)
  <2>1. tree' = Over(chain[Height], After(chain, version))
    BY <1>1 DEF WorkingHash, Flush, StoresInv, TreeInv
  <2>2. DOMAIN chain[Height] \subseteq Key
    BY <1>1, PartialFacts
  <2>3. After(chain, version + 1) = Over(chain[version + 1], After(chain, version))
    BY <1>0, <1>1, <2>2, AfterStep DEF ShapeFacts
  <2>. QED  BY <1>1, <2>1, <2>3
<1>4. TypeOK'
  <2>1. tree' \in [Key -> Value \cup {Deleted}]
    <3>1. chain \in Seq(ChangeSets) /\ Height \in 0 .. Len(chain)
      BY <1>0, <1>1 DEF StoresInv, LogInv, ShapeFacts
    <3>. QED  BY <1>3, <3>1, AfterType
  <2>2. {pending', buffer', listener'} \subseteq Partial
    BY <1>0, <1>1, <1>2 DEF WorkingHash, StoresInv, TypeOK, ShapeFacts
  <2>. QED  BY <2>1, <2>2 DEF WorkingHash, StoresInv, TypeOK
<1>5. LogInv'
  BY DEF WorkingHash, StoresInv, LogInv
<1>6. BlockInv'
  BY <1>1, <1>2 DEF WorkingHash, StoresInv, BlockInv, Committed, Height
<1>7. TreeInv'
  BY <1>1, <1>3 DEF WorkingHash, StoresInv, TreeInv, Height
<1>8. DistanceInv'
  BY <1>1 DEF WorkingHash, StoresInv, DistanceInv, Executing, Committed, Height
<1>9. StampsInv'
  BY DEF WorkingHash, StoresInv, StampsInv
<1>10. SnapshotsInv'
  BY DEF WorkingHash, StoresInv, SnapshotsInv, Floor, Committed
<1>11. UpgradeInv'
  BY <1>1 DEF WorkingHash, StoresInv, UpgradeInv, Committed, Height
<1>. QED  BY <1>4, <1>5, <1>6, <1>7, <1>8, <1>9, <1>10, <1>11 DEF StoresInv

LEMMA ListenFinalizeBlockKeeps ==
    ASSUME StoresInv, ListenFinalizeBlock
    PROVE  StoresInv'
<1>. USE DEF diskVars, storeVars, pruneVars, ListenFinalizeBlock
<1>0. ShapeFacts
  BY Shape
<1>1. phase = "hashed" /\ Height \in 1 .. Len(chain) /\ Height = version + 1
  BY <1>0 DEF StoresInv, BlockInv, Height, ShapeFacts
<1>4. TypeOK'
  BY <1>0, <1>1 DEF StoresInv, TypeOK, LogInv, ShapeFacts
<1>5. LogInv'
  BY DEF StoresInv, LogInv
<1>6. BlockInv'
  BY <1>1 DEF StoresInv, BlockInv, Committed, Height
<1>7. TreeInv'
  BY <1>1 DEF StoresInv, TreeInv, Height
<1>8. DistanceInv'
  BY <1>1 DEF StoresInv, DistanceInv, Executing, Committed, Height
<1>9. StampsInv'
  BY DEF StoresInv, StampsInv
<1>10. SnapshotsInv'
  BY DEF StoresInv, SnapshotsInv, Floor, Committed
<1>11. UpgradeInv'
  BY <1>1 DEF StoresInv, UpgradeInv, Committed, Height
<1>. QED  BY <1>4, <1>5, <1>6, <1>7, <1>8, <1>9, <1>10, <1>11 DEF StoresInv

LEMMA CommitKeeps ==
    ASSUME StoresInv, Commit
    PROVE  StoresInv'
<1>. USE DEF listenVars
<1>0. ShapeFacts
  BY Shape
<1>1. /\ phase = "finalized" /\ Height \in 1 .. Len(chain) /\ Height = version + 1
      /\ buffer = NoWrite /\ pending = chain[Height] /\ chain[Height] \in ChangeSets
      /\ chain[Height] \in Partial /\ block = Height /\ listener = chain[Height]
      /\ tree = After(chain, Height) /\ attached
  BY <1>0 DEF Commit, StoresInv, BlockInv, TreeInv, Height, ShapeFacts
<1>2. Over(buffer, pending) = chain[Height]
  BY <1>1, OverNoWrite
<1>3. tree' = tree /\ buffer' = NoWrite /\ pending' = NoWrite /\ version' = Height
  <2>1. tree \in [Key -> Value \cup {Deleted}] /\ DOMAIN NoWrite = {}
    BY DEF StoresInv, TypeOK, NoWrite
  <2>2. Over(NoWrite, tree) = tree
    <3>. HIDE DEF NoWrite
    <3>. QED  BY <2>1 DEF Over
  <2>. QED  BY <1>1, <2>2 DEF Commit, Flush, CommitDB
<1>4. /\ wal' \in Seq(ChangeSets) /\ Len(wal') \in Nat /\ Len(wal') =< Height
      /\ \A i \in 1 .. Len(wal') : wal'[i] = chain[i]
  <2>1. wal' = IF Height = Len(wal) + 1 THEN Append(wal, chain[Height]) ELSE wal
    BY <1>2 DEF Commit, CommitDB, Logged
  <2>2. Len(wal) =< Height
    BY <1>1 DEF StoresInv, DistanceInv, Executing
  <2>3. wal \in Seq(ChangeSets) /\ \A i \in 1 .. Len(wal) : wal[i] = chain[i]
    BY DEF StoresInv, LogInv
  <2>4. CASE Height # Len(wal) + 1
    BY <1>0, <1>1, <2>1, <2>2, <2>3, <2>4 DEF ShapeFacts
  <2>5. CASE Height = Len(wal) + 1
    <3>1. /\ wal' \in Seq(ChangeSets) /\ Len(wal') = Len(wal) + 1
          /\ \A i \in 1 .. Len(wal) : wal'[i] = wal[i]
          /\ wal'[Len(wal) + 1] = chain[Height]
      BY <1>1, <2>1, <2>3, <2>5, AppendProperties
    <3>2. \A i \in 1 .. Height : i = Len(wal) + 1 \/ i \in 1 .. Len(wal)
      BY <1>0, <2>5 DEF ShapeFacts
    <3>3. \A i \in 1 .. Height : wal'[i] = chain[i]
      BY <2>3, <2>5, <3>1, <3>2
    <3>. QED  BY <1>0, <2>5, <3>1, <3>3 DEF ShapeFacts
  <2>. QED  BY <2>4, <2>5
<1>5. /\ doomed' = doomed
      /\ pruner' = pruner \/ (rewrite = "result" /\ pruner = "off" /\ pruner' = "launched")
  BY DEF Commit, CommitDB, pruneVars
<1>6. /\ rewrite' \in {"off", "write", "link"}
      /\ \/ rewrite' = "off"
         \/ rewrite' = "write" /\ rewriting' = Height
         \/ rewrite' = rewrite /\ rewriting' = rewriting
      /\ rewriting' \in {0, rewriting, Height}
  BY DEF Commit, CommitDB, StoresInv, TypeOK
<1>7. /\ phase' = "committed"
      /\ UNCHANGED <<chain, snaps, current, vdb, vdbLatest, upgraded, last, listener, block, crashes>>
      /\ attached' \in BOOLEAN
  BY DEF Commit, CommitDB, StoresInv, TypeOK
<1>8. TypeOK'
  <2>1. wal' \in Seq(Partial)
    BY <1>0, <1>4 DEF ShapeFacts
  <2>2. {pending', buffer', listener'} \subseteq Partial
    BY <1>0, <1>1, <1>3, <1>7 DEF ShapeFacts
  <2>3. Height \in 0 .. MaxHeight /\ rewriting' \in 0 .. MaxHeight
    BY <1>0, <1>1, <1>6 DEF StoresInv, LogInv, TypeOK, ShapeFacts
  <2>. QED  BY <1>3, <1>5, <1>6, <1>7, <2>1, <2>2, <2>3 DEF StoresInv, TypeOK
<1>9. LogInv'
  BY <1>0, <1>1, <1>4, <1>7 DEF StoresInv, LogInv, ShapeFacts
<1>10. BlockInv'
  BY <1>1, <1>3, <1>7 DEF BlockInv, Committed
<1>11. TreeInv'
  BY <1>1, <1>3, <1>7 DEF TreeInv
<1>12. DistanceInv'
  BY <1>0, <1>1, <1>3, <1>4, <1>7
     DEF StoresInv, DistanceInv, Executing, Committed, ShapeFacts
<1>13. StampsInv'
  BY <1>7 DEF StoresInv, StampsInv
<1>14. SnapshotsInv'
  <2>1. phase # "down" /\ Floor = version /\ Floor' = version
    BY <1>0, <1>1, <1>3, <1>7 DEF Floor, Committed, ShapeFacts
  <2>2. \E x \in snaps' \ doomed' : x =< Floor'
    BY <1>5, <1>7, <2>1 DEF StoresInv, SnapshotsInv
  <2>3. rewrite' # "off" => rewriting' =< version'
    BY <1>0, <1>1, <1>3, <1>6 DEF StoresInv, SnapshotsInv, ShapeFacts
  <2>4. pruner' # "off" => current' =< version' /\ (rewrite' # "off" => current' =< rewriting')
    <3>1. current =< version \/ pruner' = "off"
      BY <1>0, <1>5 DEF StoresInv, SnapshotsInv, ShapeFacts
    <3>2. rewrite' # "write" /\ rewrite' # "off" => rewriting' = rewriting /\ rewrite' = rewrite
      BY <1>6
    <3>3. ASSUME pruner' # "off", rewrite' # "off" PROVE current =< rewriting'
      <4>1. CASE rewriting' = Height
        BY <1>0, <1>1, <3>1, <3>3, <4>1 DEF ShapeFacts
      <4>2. CASE rewrite' = rewrite /\ rewriting' = rewriting
        BY <1>0, <1>5, <1>6, <3>3, <4>2 DEF StoresInv, SnapshotsInv, ShapeFacts
      <4>. QED  BY <1>6, <3>3, <4>1, <4>2
    <3>. QED  BY <1>0, <1>1, <1>3, <1>7, <3>1, <3>3 DEF ShapeFacts
  <2>5. (rewrite' = "link" => rewriting' \in snaps') /\ rewrite' # "result"
    BY <1>6, <1>7 DEF StoresInv, SnapshotsInv
  <2>6. pruner' # "removing" => doomed' = {}
    BY <1>5 DEF StoresInv, SnapshotsInv
  <2>. QED  BY <1>5, <1>7, <2>2, <2>3, <2>4, <2>5, <2>6 DEF StoresInv, SnapshotsInv
<1>15. UpgradeInv'
  BY <1>1, <1>3, <1>7 DEF StoresInv, UpgradeInv, Committed
<1>. QED  BY <1>8, <1>9, <1>10, <1>11, <1>12, <1>13, <1>14, <1>15 DEF StoresInv

LEMMA UpdateTreesKeeps ==
    ASSUME StoresInv, UpdateTrees
    PROVE  StoresInv'
<1>. USE DEF diskVars, pruneVars, listenVars, UpdateTrees
<1>4. TypeOK'
  BY DEF StoresInv, TypeOK
<1>5. LogInv'
  BY DEF StoresInv, LogInv
<1>6. BlockInv'
  BY DEF StoresInv, BlockInv, Committed, Height
<1>7. TreeInv'
  BY DEF StoresInv, TreeInv
<1>8. DistanceInv'
  BY DEF StoresInv, DistanceInv, Executing, Committed
<1>9. StampsInv'
  BY DEF StoresInv, StampsInv
<1>10. SnapshotsInv'
  BY DEF StoresInv, SnapshotsInv, Floor, Committed
<1>11. UpgradeInv'
  BY DEF StoresInv, UpgradeInv, Committed
<1>. QED  BY <1>4, <1>5, <1>6, <1>7, <1>8, <1>9, <1>10, <1>11 DEF StoresInv

\* versiondb gets the block of its number, which follows the latest one or was
\* there already.
LEMMA ListenCommitKeeps ==
    ASSUME StoresInv, ListenCommit
    PROVE  StoresInv'
<1>. USE DEF storeVars, pruneVars
<1>0. ShapeFacts
  BY Shape
<1>1. /\ phase = "updated" /\ block = version /\ version \in 1 .. Len(chain)
      /\ listener = chain[version] /\ chain[version] \in Partial /\ Len(wal) =< version
  BY <1>0 DEF ListenCommit, StoresInv, BlockInv, DistanceInv, LogInv, Committed, ShapeFacts
<1>2. /\ phase' = "idle" /\ vdbLatest' = version /\ listener' = NoWrite
      /\ UNCHANGED <<chain, wal, snaps, current, upgraded, tree, version, pending, rewrite,
                     rewriting, pruner, doomed, buffer, attached, last, block, crashes>>
  BY <1>1 DEF ListenCommit
<1>3. /\ DOMAIN vdb' = DOMAIN vdb \cup {version}
      /\ \A v \in DOMAIN vdb' : vdb'[v] = IF v = version THEN chain[version] ELSE vdb[v]
  <2>. DEFINE old == IF block \in DOMAIN vdb THEN vdb[block] ELSE NoWrite
  <2>1. Over(listener, old) = chain[version]
    <3>1. old \in {chain[version], NoWrite}
      BY <1>1 DEF StoresInv, StampsInv
    <3>. HIDE DEF old
    <3>. QED  BY <1>1, <3>1, OverNoWrite
  <2>2. vdb' = Over([v \in {version} |-> chain[version]], vdb)
    BY <1>1, <2>1 DEF ListenCommit
  <2>. QED  BY <2>2 DEF Over
<1>4. TypeOK'
  <2>1. {pending', buffer', listener'} \subseteq Partial
    BY <1>0, <1>2 DEF StoresInv, TypeOK, ShapeFacts
  <2>2. version \in 1 .. MaxHeight
    BY <1>0, <1>1 DEF StoresInv, LogInv, ShapeFacts
  <2>3. \A v \in DOMAIN vdb' : v \in 1 .. MaxHeight /\ vdb'[v] \in Partial
    BY <1>1, <1>3, <2>2 DEF StoresInv, TypeOK
  <2>. QED  BY <1>0, <1>2, <2>1, <2>2, <2>3 DEF StoresInv, TypeOK, ShapeFacts
<1>5. LogInv'
  BY <1>2 DEF StoresInv, LogInv
<1>6. BlockInv'
  BY <1>1, <1>2 DEF StoresInv, BlockInv, Committed
<1>7. TreeInv'
  BY <1>1, <1>2 DEF StoresInv, TreeInv
<1>8. DistanceInv'
  BY <1>0, <1>1, <1>2 DEF StoresInv, DistanceInv, Executing, Committed, Height, ShapeFacts
<1>9. StampsInv'
  <2>1. \A v \in DOMAIN vdb' : v \in 1 .. Len(chain) /\ vdb'[v] = chain[v]
    BY <1>1, <1>3 DEF StoresInv, StampsInv
  <2>2. ASSUME NEW v \in DOMAIN vdb', NEW w \in 1 .. version, v =< w
        PROVE  w \in DOMAIN vdb'
    <3>1. CASE w = version
      BY <1>3, <3>1
    <3>2. CASE w # version
      <4>1. v \in DOMAIN vdb /\ vdbLatest > 0 /\ w \in 1 .. vdbLatest
        BY <1>0, <1>1, <1>3, <2>2, <3>2
           DEF StoresInv, StampsInv, DistanceInv, Committed, ShapeFacts
      <4>. QED  BY <1>3, <2>2, <4>1 DEF StoresInv, StampsInv
    <3>. QED  BY <3>1, <3>2
  <2>. QED  BY <1>1, <1>2, <1>3, <2>1, <2>2 DEF StampsInv
<1>10. SnapshotsInv'
  <2>1. phase # "down" /\ Floor =< version /\ Floor \in Int
    BY <1>1, FloorFacts
  <2>2. Floor' = version /\ \A x \in snaps : x \in Int
    BY <1>0, <1>2 DEF Floor, Committed, ShapeFacts
  <2>3. PICK x \in snaps \ doomed : x =< Floor
    BY <2>1 DEF StoresInv, SnapshotsInv
  <2>4. x =< version
    BY <1>0, <2>1, <2>2, <2>3 DEF ShapeFacts
  <2>5. /\ \E y \in snaps' \ doomed' : y =< Floor'
        /\ \E y \in snaps' : y =< vdbLatest'
    BY <1>2, <2>2, <2>3, <2>4
  <2>. QED  BY <1>1, <1>2, <2>5 DEF StoresInv, SnapshotsInv
<1>11. UpgradeInv'
  BY <1>0, <1>1, <1>2 DEF StoresInv, UpgradeInv, Committed, ShapeFacts
<1>. QED  BY <1>4, <1>5, <1>6, <1>7, <1>8, <1>9, <1>10, <1>11 DEF StoresInv

LEMMA RewriteRenameKeeps ==
    ASSUME StoresInv, RewriteRename
    PROVE  StoresInv'
<1>. USE DEF pruneVars, listenVars, RewriteRename
<1>0. ShapeFacts
  BY Shape
<1>1. /\ phase # "down" /\ rewriting \in 0 .. Len(chain) /\ rewriting =< version
      /\ Len(chain) =< MaxHeight
  BY <1>0 DEF StoresInv, SnapshotsInv, DistanceInv, LogInv, ShapeFacts
<1>2. /\ snaps \subseteq snaps' /\ snaps' \subseteq snaps \cup {rewriting}
      /\ rewrite' \in {"off", "link"} /\ (rewrite' = "link" => rewriting \in snaps')
  OBVIOUS
<1>4. TypeOK'
  <2>1. snaps' \subseteq 0 .. MaxHeight
    BY <1>0, <1>1, <1>2 DEF StoresInv, TypeOK, ShapeFacts
  <2>. QED  BY <1>2, <2>1 DEF StoresInv, TypeOK
<1>5. LogInv'
  BY DEF StoresInv, LogInv
<1>6. BlockInv'
  BY DEF StoresInv, BlockInv, Committed, Height
<1>7. TreeInv'
  BY DEF StoresInv, TreeInv, Height
<1>8. DistanceInv'
  BY DEF StoresInv, DistanceInv, Executing, Committed, Height
<1>9. StampsInv'
  BY DEF StoresInv, StampsInv
<1>10. SnapshotsInv'
  <2>1. Floor' = Floor
    BY DEF Floor, Committed
  <2>2. PICK x \in snaps \ doomed : x =< Floor
    BY <1>1 DEF StoresInv, SnapshotsInv
  <2>3. \E y \in snaps' \ doomed' : y =< Floor'
    BY <1>2, <2>1, <2>2
  <2>4. \A s \in snaps' : s \in 0 .. Len(chain)
    BY <1>1, <1>2 DEF StoresInv, SnapshotsInv
  <2>5. vdbLatest > 0 => \E s \in snaps' : s =< vdbLatest
    BY <1>2 DEF StoresInv, SnapshotsInv
  <2>6. doomed' \subseteq {s \in snaps' : s < current'} /\ current' \in snaps'
    BY <1>2 DEF StoresInv, SnapshotsInv
  <2>. QED  BY <1>1, <1>2, <2>3, <2>4, <2>5, <2>6 DEF StoresInv, SnapshotsInv
<1>11. UpgradeInv'
  BY DEF StoresInv, UpgradeInv, Committed, Height
<1>. QED  BY <1>4, <1>5, <1>6, <1>7, <1>8, <1>9, <1>10, <1>11 DEF StoresInv

LEMMA RewriteLinkKeeps ==
    ASSUME StoresInv, RewriteLink
    PROVE  StoresInv'
<1>. USE DEF pruneVars, listenVars, RewriteLink
<1>0. ShapeFacts
  BY Shape
<1>1. rewriting \in snaps /\ rewriting =< version /\ phase # "down"
  BY DEF StoresInv, SnapshotsInv
<1>4. TypeOK'
  BY <1>1 DEF StoresInv, TypeOK
<1>5. LogInv'
  BY DEF StoresInv, LogInv
<1>6. BlockInv'
  BY DEF StoresInv, BlockInv, Committed, Height
<1>7. TreeInv'
  BY DEF StoresInv, TreeInv, Height
<1>8. DistanceInv'
  BY DEF StoresInv, DistanceInv, Executing, Committed, Height
<1>9. StampsInv'
  BY DEF StoresInv, StampsInv
<1>10. SnapshotsInv'
  <2>1. Floor' = Floor
    BY DEF Floor, Committed
  <2>2. doomed \subseteq {s \in snaps : s < rewriting}
    <3>1. CASE pruner = "off"
      BY <3>1 DEF StoresInv, SnapshotsInv
    <3>2. CASE pruner # "off"
      <4>1. current =< rewriting /\ doomed \subseteq {s \in snaps : s < current}
        BY <3>2 DEF StoresInv, SnapshotsInv
      <4>. QED  BY <1>0, <4>1 DEF ShapeFacts
    <3>. QED  BY <3>1, <3>2
  <2>3. rewriting =< rewriting
    BY <1>0 DEF ShapeFacts
  <2>4. /\ \A s \in snaps' : s \in 0 .. Len(chain')
        /\ vdbLatest' > 0 => \E s \in snaps' : s =< vdbLatest'
        /\ pruner' # "removing" => doomed' = {}
    BY DEF StoresInv, SnapshotsInv
  <2>5. phase' # "down" => \E s \in snaps' \ doomed' : s =< Floor'
    BY <2>1 DEF StoresInv, SnapshotsInv
  <2>. QED  BY <1>1, <2>2, <2>3, <2>4, <2>5 DEF SnapshotsInv
<1>11. UpgradeInv'
  BY DEF StoresInv, UpgradeInv, Committed, Height
<1>. QED  BY <1>4, <1>5, <1>6, <1>7, <1>8, <1>9, <1>10, <1>11 DEF StoresInv

\* Pruning keeps the newest snapshot before the link, and so one that is not newer
\* than versiondb, although the link may be ahead of it.
LEMMA PrunedKeepsOne ==
    ASSUME StoresInv, phase # "down", pruner # "off", doomed = {}
    PROVE  \E s \in snaps \ Pruned(current) : s =< Floor
<1>0. ShapeFacts
  BY Shape
<1>1. current \in snaps /\ current =< version /\ \E s \in snaps : s =< Floor
  BY DEF StoresInv, SnapshotsInv
<1>2. Floor \in Int /\ version =< Floor + 1
  BY FloorFacts
<1>3. current \notin Pruned(current)
  BY <1>0 DEF Pruned, ShapeFacts
<1>4. CASE current =< Floor
  BY <1>1, <1>3, <1>4
<1>5. CASE ~(current =< Floor)
  <2>. DEFINE S == {s \in snaps : s < current}
  <2>0. current \in Int /\ \A s \in snaps : s \in Int
    BY <1>0 DEF ShapeFacts
  <2>1. S # {} /\ S \in SUBSET Int /\ \A s \in S : s =< current
    <3>1. PICK s \in snaps : s =< Floor
      BY <1>1
    <3>2. s < current
      BY <1>2, <1>5, <2>0, <3>1
    <3>3. S # {}
      BY <3>2
    <3>. QED  BY <2>0, <3>3
  <2>2. PICK m \in S : \A n \in S : n =< m
    <3>1. current \in Int
      BY <1>0 DEF ShapeFacts
    <3>. HIDE DEF S
    <3>. QED  BY <2>1, <3>1, GreatestInteger
  <2>3. {u \in snaps : m < u /\ u < current} = {}
    <3>1. ASSUME NEW u \in snaps, m < u, u < current  PROVE  FALSE
      <4>1. u \in S
        BY <3>1
      <4>. QED  BY <2>0, <2>2, <3>1, <4>1
    <3>. QED  BY <3>1
  <2>4. m \notin Pruned(current)
    <3>1. Cardinality({u \in snaps : m < u /\ u < current}) = 0
      BY <2>3, FS_EmptySet
    <3>2. SnapshotKeepRecent \in Nat /\ ~(0 >= SnapshotKeepRecent)
      BY StoresAssumption
    <3>. QED  BY <3>1, <3>2 DEF Pruned
  <2>5. m \in snaps /\ m =< Floor
    BY <1>0, <1>1, <1>2, <2>2 DEF ShapeFacts
  <2>. QED  BY <2>4, <2>5
<1>. QED  BY <1>4, <1>5

LEMMA PruneCurrentKeeps ==
    ASSUME StoresInv, PruneCurrent
    PROVE  StoresInv'
<1>. USE DEF diskVars, listenVars, PruneCurrent
<1>0. ShapeFacts
  BY Shape
<1>1. /\ phase # "down" /\ pruner = "launched" /\ doomed = {}
      /\ pruner' \in {"off", "removing"} /\ (pruner' = "off" => doomed' = {})
  BY DEF StoresInv, SnapshotsInv
<1>2. doomed' \subseteq {s \in snaps : s < current} /\ doomed' = Pruned(current)
  BY DEF Pruned
<1>3. \E s \in snaps \ Pruned(current) : s =< Floor
  BY <1>1, PrunedKeepsOne
<1>4. TypeOK'
  BY <1>1, <1>2 DEF StoresInv, TypeOK
<1>5. LogInv'
  BY DEF StoresInv, LogInv
<1>6. BlockInv'
  BY DEF StoresInv, BlockInv, Committed, Height
<1>7. TreeInv'
  BY DEF StoresInv, TreeInv, Height
<1>8. DistanceInv'
  BY DEF StoresInv, DistanceInv, Executing, Committed, Height
<1>9. StampsInv'
  BY DEF StoresInv, StampsInv
<1>10. SnapshotsInv'
  <2>1. Floor' = Floor
    BY DEF Floor, Committed
  <2>2. \E s \in snaps' \ doomed' : s =< Floor'
    BY <1>2, <1>3, <2>1
  <2>. QED  BY <1>1, <1>2, <2>2 DEF StoresInv, SnapshotsInv
<1>11. UpgradeInv'
  BY DEF StoresInv, UpgradeInv, Committed, Height
<1>. QED  BY <1>4, <1>5, <1>6, <1>7, <1>8, <1>9, <1>10, <1>11 DEF StoresInv

LEMMA PruneRemoveKeeps ==
    ASSUME StoresInv, PruneRemove
    PROVE  StoresInv'
<1>. USE DEF listenVars
<1>0. ShapeFacts
  BY Shape
<1>1. PICK w \in doomed : snaps' = snaps \ {w} /\ doomed' = doomed \ {w}
  BY DEF PruneRemove
<1>2. /\ phase # "down" /\ pruner = "removing" /\ w < current /\ w \in Nat
      /\ pruner' \in {"off", "removing"} /\ (pruner' = "off" => doomed' = {})
      /\ UNCHANGED <<chain, wal, current, vdb, vdbLatest, upgraded, phase, tree, version, pending,
                     rewrite, rewriting, buffer, attached, last, listener, block, crashes>>
  BY <1>0 DEF PruneRemove, StoresInv, SnapshotsInv, ShapeFacts
<1>3. current \in snaps' /\ doomed' \subseteq {s \in snaps' : s < current}
  BY <1>0, <1>1, <1>2 DEF StoresInv, SnapshotsInv, ShapeFacts
<1>4. TypeOK'
  BY <1>1, <1>2, <1>3 DEF StoresInv, TypeOK
<1>5. LogInv'
  BY <1>2 DEF StoresInv, LogInv
<1>6. BlockInv'
  BY <1>2 DEF StoresInv, BlockInv, Committed, Height
<1>7. TreeInv'
  BY <1>2 DEF StoresInv, TreeInv, Height
<1>8. DistanceInv'
  BY <1>2 DEF StoresInv, DistanceInv, Executing, Committed, Height
<1>9. StampsInv'
  BY <1>2 DEF StoresInv, StampsInv
<1>10. SnapshotsInv'
  <2>1. Floor' = Floor /\ Floor \in Int /\ (vdbLatest > 0 => Floor =< vdbLatest)
    BY <1>2, FloorFacts DEF Floor, Committed
  <2>2. PICK x \in snaps \ doomed : x =< Floor
    BY <1>2 DEF StoresInv, SnapshotsInv
  <2>3. x \in snaps' \ doomed' /\ x \in Nat
    BY <1>0, <1>1, <2>2 DEF ShapeFacts
  <2>4. vdbLatest > 0 => x =< vdbLatest
    BY <1>0, <2>1, <2>2, <2>3 DEF ShapeFacts
  <2>5. rewrite = "link" => rewriting \in snaps'
    BY <1>0, <1>1, <1>2 DEF StoresInv, SnapshotsInv, ShapeFacts
  <2>6. \A s \in snaps' : s \in 0 .. Len(chain)
    BY <1>1 DEF StoresInv, SnapshotsInv
  <2>. QED  BY <1>2, <1>3, <2>1, <2>2, <2>3, <2>4, <2>5, <2>6 DEF StoresInv, SnapshotsInv
<1>11. UpgradeInv'
  BY <1>2 DEF StoresInv, UpgradeInv, Committed, Height
<1>. QED  BY <1>4, <1>5, <1>6, <1>7, <1>8, <1>9, <1>10, <1>11 DEF StoresInv

-----------------------------------------------------------------------------
\* StoresInv holds in every reachable state of the node, with any number of
\* blocks, rewrites, crashes at any point and the store upgrade.
THEOREM StoresInvariance == Spec => []StoresInv
<1>1. Init => StoresInv
  BY InitKeeps
<1>2. StoresInv /\ [Next]_vars => StoresInv'
  <2>. SUFFICES ASSUME StoresInv, [Next]_vars PROVE StoresInv'
    OBVIOUS
  <2>1. CASE Start
    BY <2>1, StartKeeps
  <2>2. CASE \E cs \in ChangeSets : Write(cs)
    BY <2>2, WriteKeeps
  <2>3. CASE UpgradePanic
    BY <2>3, UpgradePanicKeeps
  <2>4. CASE WorkingHash
    BY <2>4, WorkingHashKeeps
  <2>5. CASE ListenFinalizeBlock
    BY <2>5, ListenFinalizeBlockKeeps
  <2>6. CASE Commit
    BY <2>6, CommitKeeps
  <2>7. CASE UpdateTrees
    BY <2>7, UpdateTreesKeeps
  <2>8. CASE ListenCommit
    BY <2>8, ListenCommitKeeps
  <2>9. CASE RewriteRename
    BY <2>9, RewriteRenameKeeps
  <2>10. CASE RewriteLink
    BY <2>10, RewriteLinkKeeps
  <2>11. CASE PruneCurrent
    BY <2>11, PruneCurrentKeeps
  <2>13. CASE PruneRemove
    BY <2>13, PruneRemoveKeeps
  <2>14. CASE CommitFails
    BY <2>14, CommitFailsKeeps
  <2>15. CASE Close
    BY <2>15, CloseKeeps
  <2>16. CASE Crash
    BY <2>16, CrashKeeps
  <2>12. CASE UNCHANGED vars
    <3>1. TypeOK' /\ LogInv'
      BY <2>12 DEF vars, StoresInv, TypeOK, LogInv
    <3>2. BlockInv' /\ TreeInv'
      BY <2>12 DEF vars, StoresInv, BlockInv, TreeInv, Committed, Height
    <3>3. DistanceInv' /\ StampsInv'
      BY <2>12 DEF vars, StoresInv, DistanceInv, StampsInv, Executing, Committed, Height
    <3>4. SnapshotsInv' /\ UpgradeInv'
      BY <2>12 DEF vars, StoresInv, SnapshotsInv, UpgradeInv, Committed, Height, Floor
    <3>. QED  BY <3>1, <3>2, <3>3, <3>4 DEF StoresInv
  <2>. QED  BY <2>1, <2>2, <2>3, <2>4, <2>5, <2>6, <2>7, <2>8, <2>9, <2>10, <2>11, <2>12,
               <2>13, <2>14, <2>15, <2>16 DEF Next
<1>. QED  BY <1>1, <1>2, PTL DEF Spec

\* The state of the stores, of memiavl and of versiondb keeps its type.
THEOREM StoresTypeCorrect == Spec => []TypeOK
<1>1. StoresInv => TypeOK
  BY DEF StoresInv
<1>. QED  BY <1>1, StoresInvariance, PTL

\* Whatever the stores of rootmulti read between two calls of BaseApp is the state
\* after one block, also when a snapshot ahead of the log was loaded, and the
\* trees they point to are open: Commit replaces them after a switch before
\* anything is read.
THEOREM OneBlockRead == Spec => []StoresReadOneBlock
<1>1. StoresInv => StoresReadOneBlock
  <2>. SUFFICES ASSUME StoresInv PROVE StoresReadOneBlock
    OBVIOUS
  <2>1. ASSUME NEW n \in 0 .. Len(wal) PROVE After(wal, n) = After(chain, n)
    <3>1. \A i \in 1 .. n : wal[i] = chain[i]
      BY Shape DEF ShapeFacts, StoresInv, LogInv
    <3>. QED  BY <3>1, AfterSame
  <2>2. phase \in {"idle", "written", "updated"} =>
           attached /\ last = version /\ tree = After(chain, version)
    BY DEF StoresInv, TreeInv
  <2>3. phase \in {"hashed", "finalized"} =>
           attached /\ tree \in {After(chain, last), After(chain, last + 1)}
    BY DEF StoresInv, TreeInv, Height
  <2>. QED  BY <2>1, <2>2, <2>3 DEF StoresReadOneBlock
<1>. QED  BY <1>1, StoresInvariance, PTL

\* The first stamp of versiondb is the least one.
LEMMA FirstVersionFacts ==
    ASSUME StoresInv, vdbLatest > 0
    PROVE  FirstVersion \in DOMAIN vdb /\ \A w \in DOMAIN vdb : FirstVersion =< w
<1>1. DOMAIN vdb # {} /\ DOMAIN vdb \in SUBSET Nat
  BY Shape DEF StoresInv, StampsInv, ShapeFacts
<1>2. \E v \in DOMAIN vdb : \A w \in DOMAIN vdb : v =< w
  BY <1>1, LeastNatural
<1>. QED  BY <1>1, <1>2 DEF FirstVersion

\* A query of versiondb at a past version from its first one on returns the value
\* after that block: GetAtVersion, applied to what replays, lost logs and capped
\* loads have left, has neither a gap nor a pair of another block.
THEOREM VersiondbCorrect == Spec => []VersiondbExact
<1>1. StoresInv => VersiondbExact
  <2>. SUFFICES ASSUME StoresInv, NEW v \in FirstVersion .. vdbLatest
                PROVE  /\ v \in DOMAIN vdb
                       /\ \A k \in Key : GetAtVersion(k, v) = LastWrite(chain, FirstVersion, v, k)
    BY DEF VersiondbExact
  <2>0. ShapeFacts
    BY Shape
  <2>1. vdbLatest > 0
    <3>1. CASE vdbLatest = 0
      BY <2>0, <3>1 DEF StoresInv, StampsInv, FirstVersion, ShapeFacts
    <3>. QED  BY <2>0, <3>1 DEF ShapeFacts
  <2>2. FirstVersion \in DOMAIN vdb /\ \A w \in DOMAIN vdb : FirstVersion =< w
    BY <2>1, FirstVersionFacts
  <2>3. /\ FirstVersion \in 1 .. Len(chain) /\ v \in Int /\ FirstVersion \in Int
        /\ \A w \in DOMAIN vdb : w \in Nat /\ vdb[w] = chain[w]
    BY <2>0, <2>2 DEF StoresInv, StampsInv, ShapeFacts
  <2>4. \A w \in FirstVersion .. v : w \in DOMAIN vdb
    BY <2>0, <2>2, <2>3 DEF StoresInv, StampsInv, ShapeFacts
  <2>5. v \in DOMAIN vdb
    BY <2>3, <2>4
  <2>6. ASSUME NEW k \in Key
        PROVE  GetAtVersion(k, v) = LastWrite(chain, FirstVersion, v, k)
    <3>. DEFINE stamps == {t \in DOMAIN vdb : t =< v /\ k \in DOMAIN vdb[t]}
    <3>1. \A t : t \in stamps <=> t \in FirstVersion .. v /\ k \in DOMAIN chain[t]
      BY <2>2, <2>3, <2>4
    <3>2. CASE \A j \in FirstVersion .. v : k \notin DOMAIN chain[j]
      <4>1. stamps = {}
        BY <3>1, <3>2
      <4>2. GetAtVersion(k, v) = Deleted
        BY <4>1, Zenon DEF GetAtVersion
      <4>. QED  BY <2>3, <3>2, <4>2, LastWriteNone
    <3>3. ASSUME NEW m \in FirstVersion .. v, k \in DOMAIN chain[m],
                 \A j \in FirstVersion .. v : k \in DOMAIN chain[j] => j =< m
          PROVE  GetAtVersion(k, v) = LastWrite(chain, FirstVersion, v, k)
      <4>0. k \in DOMAIN chain[m] /\ \A j \in FirstVersion .. v : k \in DOMAIN chain[j] => j =< m
        BY <3>3
      <4>1. LastWrite(chain, FirstVersion, v, k) = chain[m][k]
        BY <2>3, <4>0, LastWriteIs
      <4>2. m \in stamps /\ \A u \in stamps : u =< m
        BY <3>1, <4>0
      <4>3. \A t \in stamps : (\A u \in stamps : u =< t) => t = m
        <5>1. \A t \in stamps : t \in Nat
          BY <2>3
        <5>. HIDE DEF stamps
        <5>. QED  BY <4>2, <5>1
      <4>4. (CHOOSE t \in stamps : \A u \in stamps : u =< t) = m
        <5>. HIDE DEF stamps
        <5>. QED  BY <4>2, <4>3
      <4>5. stamps # {}
        BY <4>2
      <4>6. GetAtVersion(k, v) = vdb[CHOOSE t \in stamps : \A u \in stamps : u =< t][k]
        BY <4>5, Zenon DEF GetAtVersion
      <4>7. vdb[m] = chain[m]
        BY <2>3, <4>2
      <4>. QED  BY <4>1, <4>4, <4>6, <4>7
    <3>. QED  BY <2>3, <3>2, <3>3, LastWriteCases
  <2>. QED  BY <2>5, <2>6
<1>. QED  BY <1>1, StoresInvariance, PTL

\* No load that finds its snapshot and its stores is ahead of versiondb.
LEMMA StoresNeverLag == StoresInv => NeverLagsBehind
<1>. SUFFICES ASSUME StoresInv, SnapshotFound, StoresFound PROVE ~LagBehind
  BY DEF NeverLagsBehind
<1>1. ShapeFacts
  BY Shape
<1>2. LoadedVersion \in Nat /\ (Target # 0 => LoadedVersion =< Target)
  BY <1>1, LoadedFacts DEF ShapeFacts
<1>3. CASE LoadForUpgrade
  <2>1. upgraded /\ LoadedVersion < UpgradeHeight
    BY <1>3 DEF LoadForUpgrade, StoresFound
  <2>2. vdbLatest = 0 \/ vdbLatest >= UpgradeHeight - 1
    BY <2>1 DEF StoresInv, UpgradeInv
  <2>. QED  BY <1>1, <1>2, <2>1, <2>2 DEF LagBehind, ShapeFacts
<1>4. CASE ~LoadForUpgrade
  <2>1. Target = vdbLatest
    BY <1>4 DEF Target
  <2>. QED  BY <1>1, <1>2, <2>1 DEF LagBehind, ShapeFacts
<1>. QED  BY <1>3, <1>4

\* The check of New for a versiondb that lags behind never fires: not when the load
\* is capped, and not when the new binary loads the latest version for the
\* upgrade, for which a snapshot beyond versiondb is refused before the check.
THEOREM VersiondbNeverLags == Spec => []NeverLagsBehind
  BY StoresNeverLag, StoresInvariance, PTL

\* A node that is down starts again, however it was stopped and whatever a crash
\* has left of the log: pruning has left a snapshot for the version it has to
\* load.  For the new binary the upgrade must be in the log and in versiondb, or
\* the log at the block before it.
THEOREM NodeStarts == Spec => []StartsAgain
<1>1. StoresInv => StartsAgain
  <2>. SUFFICES ASSUME StoresInv, phase = "down",
                       upgraded =>
                          \/ LastCommitVersion >= UpgradeHeight /\ vdbLatest >= UpgradeHeight
                          \/ LastCommitVersion = UpgradeHeight - 1 /\ current < UpgradeHeight
                PROVE  CanStart
    BY DEF StartsAgain
  <2>0. ShapeFacts
    BY Shape
  <2>1. SnapshotFound
    BY <2>0 DEF SnapshotFound, Target, StoresInv, SnapshotsInv, ShapeFacts
  <2>2. /\ LoadBase \in Nat /\ ReplayEnd \in Nat
        /\ LoadedVersion = IF ReplayEnd < LoadBase THEN LoadBase ELSE ReplayEnd
    BY <2>0, <2>1, LoadedFacts DEF ShapeFacts
  <2>3. StoresFound
    <3>1. CASE ~upgraded
      BY <3>1 DEF StoresFound
    <3>2. CASE upgraded /\ LastCommitVersion >= UpgradeHeight /\ vdbLatest >= UpgradeHeight
      <4>1. ~LoadForUpgrade /\ Len(wal) >= UpgradeHeight
        BY <2>0, <3>2 DEF LoadForUpgrade, LastCommitVersion, ShapeFacts
      <4>2. ReplayEnd >= UpgradeHeight
        BY <2>0, <3>2, <4>1 DEF ReplayEnd, Target, Smaller, ShapeFacts
      <4>3. LoadedVersion >= UpgradeHeight
        BY <2>0, <2>2, <4>2 DEF ShapeFacts
      <4>. QED  BY <4>1, <4>3 DEF StoresFound
    <3>3. CASE upgraded /\ LastCommitVersion = UpgradeHeight - 1 /\ current < UpgradeHeight
      <4>1. LoadForUpgrade /\ Len(wal) < UpgradeHeight
        BY <2>0, <3>3 DEF LoadForUpgrade, LastCommitVersion, ShapeFacts
      <4>2. Target = 0
        BY <4>1 DEF Target
      <4>3. LoadBase = current /\ ReplayEnd = Len(wal)
        BY <4>2 DEF LoadBase, ReplayEnd
      <4>4. LoadedVersion < UpgradeHeight
        BY <2>0, <2>2, <3>3, <4>1, <4>3 DEF ShapeFacts
      <4>. QED  BY <4>1, <4>4 DEF StoresFound
    <3>. QED  BY <3>1, <3>2, <3>3
  <2>4. ~LagBehind
    <3>1. NeverLagsBehind
      BY StoresNeverLag
    <3>. QED  BY <2>1, <2>3, <3>1 DEF NeverLagsBehind
  <2>. QED  BY <2>1, <2>3, <2>4 DEF CanStart
<1>. QED  BY <1>1, StoresInvariance, PTL

\* Commit never meets a rewritten snapshot while the log is ahead of the block it
\* commits, which is where its wait for the log would not end.
THEOREM CommitNeverSpins == Spec => []NeverSpins
<1>1. StoresInv => NeverSpins
  BY Shape DEF NeverSpins, StoresInv, DistanceInv, Executing, Height, ShapeFacts
<1>. QED  BY <1>1, StoresInvariance, PTL

=============================================================================
