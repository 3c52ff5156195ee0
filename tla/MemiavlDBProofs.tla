-------------------------- MODULE MemiavlDBProofs --------------------------
(***************************************************************************)
(* Proofs about the life cycle of a memiavl database, for every number of  *)
(* versions and crashes, every initial version, snapshot interval and      *)
(* channel size.  The state invariant IInv of MemiavlDB is shown inductive *)
(* with one lemma per action; the theorems at the end follow from it.      *)
(***************************************************************************)
EXTENDS MemiavlDB, SequenceTheorems, TLAPS

\* The version of a tree of n blocks and the WAL index of its next block: walIndex
\* undoes walVersion, and replay starts at entry n + 1, whatever the initial version.
LEMMA VersionLemma ==
    ASSUME NEW t \in Seq(Data), Len(t) =< MaxVersion
    PROVE  /\ Version(t) \in Nat
           /\ CatchupFirst(t) = Len(t) + 1
           /\ Len(t) > 0 => walIndex(Version(t)) = Len(t)
           /\ Len(t) > 0 => Version(t) >= InitialVersion /\ Version(t) >= 1
           /\ walIndex(nextVersion(Version(t))) = Len(t) + 1
  BY ConstantsAssumption
     DEF Version, CatchupFirst, walIndex, walVersion, nextVersion

\* Versions are ordered as the lengths of the trees.
LEMMA VersionOrder ==
    ASSUME NEW t \in Seq(Data), NEW u \in Seq(Data)
    PROVE  /\ Version(t) =< Version(u) <=> Len(t) =< Len(u)
           /\ Version(t) = Version(u) <=> Len(t) = Len(u)
  BY ConstantsAssumption DEF Version, walVersion

\* The index the prune goroutine truncates the WAL at is not above the entry that
\* follows a tree that is at least as new as the earliest snapshot.
LEMMA TruncateIndex ==
    ASSUME NEW e \in Nat, NEW t \in Seq(Data), Len(t) =< MaxVersion,
           e =< Version(t), e = 0 \/ e >= InitialVersion,
           walIndex(e + 1) =< MaxVersion
    PROVE  walIndex(e + 1) =< Len(t) + 1
  BY ConstantsAssumption DEF Version, walIndex, walVersion

\* What a section of a log contains.
LEMMA SubSeqOfLog ==
    ASSUME NEW S, NEW s \in Seq(S), NEW m \in Nat \ {0}, NEW n \in Int, n =< Len(s)
    PROVE  /\ SubSeq(s, m, n) \in Seq(S)
           /\ Len(SubSeq(s, m, n)) = IF m =< n THEN n - m + 1 ELSE 0
           /\ \A i \in 1 .. n - m + 1 : SubSeq(s, m, n)[i] = s[m + i - 1]
<1>1. Len(s) \in Nat
  BY LenProperties
<1>2. ASSUME NEW i \in m .. n PROVE s[i] \in S
  <2>1. i \in 1 .. Len(s)
    BY <1>1
  <2>. QED  BY <2>1, ElementOfSeq
<1>. QED  BY <1>2, SubSeqProperties

\* What a tree contains after a section of a log was replayed on it.
LEMMA ConcatTail ==
    ASSUME NEW S, NEW t \in Seq(S), NEW log \in Seq(S),
           NEW a \in 1 .. Len(log), NEW b \in a .. Len(log)
    PROVE  LET c == t \o SubSeq(log, a, b) IN
           /\ c \in Seq(S)
           /\ Len(c) = Len(t) + b - a + 1
           /\ \A i \in 1 .. Len(t) : c[i] = t[i]
           /\ \A i \in Len(t) + 1 .. Len(t) + b - a + 1 : c[i] = log[a + i - Len(t) - 1]
<1>. DEFINE w == SubSeq(log, a, b)
<1>1. Len(t) \in Nat /\ Len(log) \in Nat
  BY LenProperties
<1>2. /\ w \in Seq(S) /\ Len(w) = b - a + 1
      /\ \A i \in 1 .. b - a + 1 : w[i] = log[a + i - 1]
  BY <1>1, SubSeqOfLog
<1>. HIDE DEF w
<1>3. /\ t \o w \in Seq(S) /\ Len(t \o w) = Len(t) + Len(w)
      /\ \A i \in 1 .. Len(t) + Len(w) :
            (t \o w)[i] = IF i <= Len(t) THEN t[i] ELSE w[i - Len(t)]
  BY <1>2, ConcatProperties
<1>4. ASSUME NEW i \in Len(t) + 1 .. Len(t) + b - a + 1
      PROVE  (t \o w)[i] = log[a + i - Len(t) - 1]
  <2>1. i - Len(t) \in 1 .. b - a + 1 /\ i \in 1 .. Len(t) + Len(w) /\ ~(i <= Len(t))
    BY <1>1, <1>2
  <2>2. a + (i - Len(t)) - 1 = a + i - Len(t) - 1
    BY <1>1
  <2>. QED  BY <1>2, <1>3, <2>1, <2>2
<1>5. \A i \in 1 .. Len(t) : (t \o w)[i] = t[i]
  BY <1>1, <1>2, <1>3
<1>. QED  BY <1>1, <1>2, <1>3, <1>4, <1>5 DEF w

\* MultiTree.CatchupWAL on a tree that agrees with the chain yields such a tree, and
\* the length of the result is the length of the tree or the last index replayed.
LEMMA CatchupAgrees ==
    ASSUME TypeOK, LogAgrees, QueueAgrees,
           NEW t \in Seq(Data), Agrees(t), NEW e \in Nat, CanCatchup(t, e)
    PROVE  /\ Catchup(t, e) \in Seq(Data)
           /\ Agrees(Catchup(t, e))
           /\ Len(t) =< Len(Catchup(t, e))
           /\ Len(Catchup(t, e)) = IF Len(t) + 1 > LastIndex THEN Len(t) ELSE CatchupLast(e)
<1>1. /\ CatchupFirst(t) = Len(t) + 1 /\ walLog \in Seq(Data)
      /\ Len(t) \in Nat /\ Len(walLog) \in Nat /\ Len(chain) \in Nat
      /\ walFirst \in Nat \ {0} /\ LastIndex \in Nat
      /\ LastIndex = walFirst + Len(walLog) - 1
  BY VersionLemma, ConstantsAssumption, LenProperties
     DEF TypeOK, QueueAgrees, Agrees, LastIndex
<1>2. CASE Len(t) + 1 > LastIndex
  BY <1>1, <1>2 DEF Catchup
<1>3. CASE Len(t) + 1 =< LastIndex
  <2>. DEFINE a == (Len(t) + 1) - walFirst + 1
              b == CatchupLast(e) - walFirst + 1
              c == t \o SubSeq(walLog, a, b)
  <2>1. /\ CatchupLast(e) \in Int /\ Len(t) + 1 =< CatchupLast(e)
        /\ CatchupLast(e) =< LastIndex /\ walFirst =< Len(t) + 1
    BY <1>1, <1>3, ConstantsAssumption DEF CanCatchup, CatchupLast, walIndex
  <2>2. a \in 1 .. Len(walLog) /\ b \in a .. Len(walLog) /\ Len(t) + b - a + 1 = CatchupLast(e)
    <3>1. a \in Int /\ b \in Int /\ 1 =< a /\ a =< b
      BY <1>1, <2>1
    <3>2. b =< Len(walLog)
      BY <1>1, <2>1
    <3>3. Len(t) + b - a + 1 = CatchupLast(e)
      BY <1>1, <2>1
    <3>. HIDE DEF a, b
    <3>. QED  BY <1>1, <3>1, <3>2, <3>3
  <2>3. Catchup(t, e) = c
    <3>1. ~(CatchupFirst(t) > LastIndex)
      BY <1>1, <1>3
    <3>2. Catchup(t, e) = t \o SubSeq(walLog, CatchupFirst(t) - walFirst + 1,
                                     CatchupLast(e) - walFirst + 1)
      BY <3>1, Zenon DEF Catchup
    <3>3. CatchupFirst(t) = Len(t) + 1
      BY <1>1
    <3>. QED  BY <3>2, <3>3
  <2>4. /\ c \in Seq(Data)
        /\ Len(c) = CatchupLast(e)
        /\ \A i \in 1 .. Len(t) : c[i] = t[i]
        /\ \A i \in Len(t) + 1 .. CatchupLast(e) : c[i] = walLog[a + i - Len(t) - 1]
    <3>. HIDE DEF a, b
    <3>. QED  BY <1>1, <2>2, ConcatTail
  <2>5. \A i \in Len(t) + 1 .. CatchupLast(e) :
           i =< Len(chain) /\ walLog[i - walFirst + 1] = chain[i]
    <3>. TAKE i \in Len(t) + 1 .. CatchupLast(e)
    <3>1. i - walFirst + 1 \in 1 .. Len(walLog) /\ walFirst + (i - walFirst + 1) - 1 = i
      BY <1>1, <2>1
    <3>. QED  BY <3>1 DEF LogAgrees
  <2>6. CatchupLast(e) =< Len(chain)
    BY <1>1, <2>1, <2>5
  <2>7. ASSUME NEW i \in 1 .. CatchupLast(e) PROVE c[i] = chain[i]
    <3>1. CASE i =< Len(t)
      BY <1>1, <2>1, <2>4, <3>1 DEF Agrees
    <3>2. CASE i > Len(t)
      <4>1. a + i - Len(t) - 1 = i - walFirst + 1 /\ i \in Len(t) + 1 .. CatchupLast(e)
        BY <1>1, <2>1, <3>2
      <4>2. c[i] = walLog[a + i - Len(t) - 1]
        <5>. HIDE DEF a, c
        <5>. QED  BY <2>4, <4>1, Zenon
      <4>3. walLog[i - walFirst + 1] = chain[i]
        BY <2>5, <4>1, Zenon
      <4>. HIDE DEF c
      <4>. QED  BY <1>1, <2>1, <4>1, <4>2, <4>3
    <3>. HIDE DEF c
    <3>. QED  BY <1>1, <2>1, <3>1, <3>2
  <2>. HIDE DEF c
  <2>8. Agrees(c)
    BY <2>4, <2>6, <2>7 DEF Agrees
  <2>. QED  BY <1>1, <2>1, <2>3, <2>4, <2>8
<1>. QED  BY <1>1, <1>2, <1>3

-----------------------------------------------------------------------------
\* Facts about the current state that every step below uses.
ShapeFacts ==
           /\ Len(tree) \in Nat /\ Len(mtree) \in Nat /\ Len(chain) \in Nat
           /\ Len(walLog) \in Nat /\ LastIndex \in Nat
           /\ Len(walChan) \in Nat /\ Len(batch) \in Nat
           /\ Version(tree) \in Nat /\ Version(mtree) \in Nat
           /\ Len(chain) =< MaxVersion
           /\ Len(tree) =< Len(chain) /\ Len(mtree) =< Len(chain)
           /\ LastIndex =< Len(chain) \/ Len(walLog) = 0
           /\ CatchupFirst(tree) = Len(tree) + 1
           /\ CatchupFirst(mtree) = Len(mtree) + 1
           /\ Len(tree) > 0 => walIndex(Version(tree)) = Len(tree)
           /\ NoChange \in Data
           /\ <<>> \in Seq(Data) /\ <<>> \in Seq(WalEntry)

\* What the typed sequences and the agreement with the chain say about lengths,
\* versions and indexes.
LEMMA CoreShape ==
    ASSUME CoreInv
    PROVE  ShapeFacts
<1>1. /\ tree \in Seq(Data) /\ mtree \in Seq(Data) /\ chain \in Seq(Data)
      /\ walLog \in Seq(Data) /\ walChan \in Seq(WalEntry) /\ batch \in Seq(WalEntry)
      /\ walFirst \in Nat \ {0} /\ MaxVersion \in Nat
  BY ConstantsAssumption DEF CoreInv, TypeOK
<1>2. /\ Len(tree) \in Nat /\ Len(mtree) \in Nat /\ Len(chain) \in Nat
      /\ Len(walLog) \in Nat /\ Len(walChan) \in Nat /\ Len(batch) \in Nat
  BY <1>1, LenProperties
<1>3. Len(chain) =< MaxVersion /\ Len(tree) =< Len(chain) /\ Len(mtree) =< Len(chain)
  BY DEF CoreInv, QueueAgrees, CoreAgrees, Agrees
<1>4. Len(tree) =< MaxVersion /\ Len(mtree) =< MaxVersion
  BY <1>1, <1>2, <1>3
<1>5. LastIndex =< Len(chain) \/ Len(walLog) = 0
  BY <1>1, <1>2 DEF CoreInv, CoreAgrees, LogAgrees, LastIndex
<1>6. LastIndex \in Nat
  BY <1>1, <1>2 DEF LastIndex
<1>7. NoChange \in Data
  BY DEF Data
<1>8. <<>> \in Seq(Data) /\ <<>> \in Seq(WalEntry)
  BY EmptySeq
<1>. QED  BY <1>1, <1>2, <1>3, <1>4, <1>5, <1>6, <1>7, <1>8, VersionLemma DEF ShapeFacts

\* A snapshot directory holds a tree of its version.
LEMMA CoreSnapShape ==
    ASSUME CoreInv, NEW v \in DOMAIN snaps
    PROVE  /\ snaps[v] \in Seq(Data) /\ Len(snaps[v]) \in Nat
           /\ Len(snaps[v]) =< MaxVersion
           /\ Version(snaps[v]) = v /\ v \in Nat
  BY LenProperties DEF CoreInv, TypeOK, CoreAgrees, Agrees

\* The log after wal.WriteBatch of the entries from m + 1 on.
LEMMA LogGrows ==
    ASSUME NEW log \in Seq(Data), NEW es \in Seq(WalEntry), NEW m \in 0 .. Len(es)
    PROVE  LET l == log \o [k \in 1 .. Len(es) - m |-> es[m + k].data] IN
           /\ l \in Seq(Data)
           /\ Len(l) = Len(log) + (Len(es) - m)
           /\ \A k \in 1 .. Len(log) : l[k] = log[k]
           /\ \A k \in 1 .. Len(es) - m : l[Len(log) + k] = es[m + k].data
<1>. DEFINE n == Len(es) - m
            d == [k \in 1 .. n |-> es[m + k].data]
<1>1. Len(es) \in Nat /\ Len(log) \in Nat /\ n \in Nat
  BY LenProperties
<1>2. ASSUME NEW k \in 1 .. n PROVE es[m + k].data \in Data
  <2>1. m + k \in 1 .. Len(es)
    BY <1>1
  <2>2. es[m + k] \in WalEntry
    BY <2>1, ElementOfSeq
  <2>. QED  BY <2>2 DEF WalEntry
<1>3. d \in [1 .. n -> Data]
  BY <1>2
<1>. HIDE DEF d
<1>4. d \in Seq(Data)
  BY <1>1, <1>3, SeqDef
<1>5. Len(d) = n
  <2>1. Len(d) \in Nat /\ 1 .. Len(d) = 1 .. n
    BY <1>3, <1>4, LenProperties
  <2>. QED  BY <1>1, <2>1
<1>6. \A k \in 1 .. n : d[k] = es[m + k].data
  BY DEF d
<1>. HIDE DEF n
<1>7. /\ log \o d \in Seq(Data) /\ Len(log \o d) = Len(log) + n
      /\ \A k \in 1 .. Len(log) + n :
            (log \o d)[k] = IF k <= Len(log) THEN log[k] ELSE d[k - Len(log)]
  BY <1>4, <1>5, ConcatProperties
<1>8. ASSUME NEW k \in 1 .. n PROVE (log \o d)[Len(log) + k] = es[m + k].data
  <2>1. /\ Len(log) + k \in 1 .. Len(log) + n /\ ~(Len(log) + k <= Len(log))
        /\ (Len(log) + k) - Len(log) = k
    BY <1>1
  <2>. QED  BY <1>6, <1>7, <2>1
<1>9. \A k \in 1 .. Len(log) : (log \o d)[k] = log[k]
  BY <1>1, <1>7
<1>. QED  BY <1>7, <1>8, <1>9 DEF d, n

\* SaveVersion extends the tree and the chain by the pending block and nothing else.
LEMMA CoreSaveVersion ==
    ASSUME CoreInv, SaveVersion
    PROVE  /\ tree' \in Seq(Data) /\ chain' \in Seq(Data)
           /\ Len(tree') = Len(tree) + 1 /\ tree'[Len(tree) + 1] = pending
           /\ Len(chain) =< Len(chain') /\ Len(chain') =< MaxVersion
           /\ Len(tree) + 1 =< Len(chain') /\ chain'[Len(tree) + 1] = pending
           /\ \A i \in 1 .. Len(chain) : chain'[i] = chain[i]
           /\ \A i \in 1 .. Len(tree) + 1 : tree'[i] = chain'[i]
           /\ walIndex(nextVersion(Version(tree))) = Len(tree) + 1
           /\ Len(chain') \in Nat
<1>0. ShapeFacts
  BY CoreShape
<1>1. tree \in Seq(Data) /\ chain \in Seq(Data) /\ pending \in Data
  BY DEF CoreInv, TypeOK
<1>2. /\ tree' \in Seq(Data) /\ Len(tree') = Len(tree) + 1
      /\ \A i \in 1 .. Len(tree) : tree'[i] = tree[i]
      /\ tree'[Len(tree) + 1] = pending
  BY <1>1, AppendProperties DEF SaveVersion
<1>3. walIndex(nextVersion(Version(tree))) = Len(tree) + 1
  BY <1>0 DEF ShapeFacts, CatchupFirst
<1>4. Len(tree) + 1 =< MaxVersion
  BY <1>0, ConstantsAssumption DEF ShapeFacts, SaveVersion, nextVersion, Version, walVersion
<1>5. /\ chain' \in Seq(Data) /\ Len(chain) =< Len(chain') /\ Len(chain') =< MaxVersion
      /\ Len(tree) + 1 =< Len(chain') /\ chain'[Len(tree) + 1] = pending
      /\ \A i \in 1 .. Len(chain) : chain'[i] = chain[i]
      /\ Len(chain') \in Nat
  <2>1. CASE NextHeight =< Len(chain)
    BY <1>0, <1>1, <2>1 DEF ShapeFacts, SaveVersion, NextHeight
  <2>2. CASE ~(NextHeight =< Len(chain))
    <3>1. chain' = Append(chain, pending)
      BY <2>2 DEF SaveVersion
    <3>2. Len(chain) = Len(tree)
      BY <1>0, <2>2 DEF ShapeFacts, NextHeight
    <3>3. /\ chain' \in Seq(Data) /\ Len(chain') = Len(chain) + 1
          /\ \A i \in 1 .. Len(chain) : chain'[i] = chain[i]
          /\ chain'[Len(chain) + 1] = pending
      BY <1>1, <3>1, AppendProperties
    <3>. QED  BY <1>0, <1>4, <3>2, <3>3 DEF ShapeFacts
  <2>. QED  BY <2>1, <2>2
<1>6. \A i \in 1 .. Len(tree) : tree[i] = chain[i] /\ i \in 1 .. Len(chain)
  BY <1>0 DEF ShapeFacts, CoreInv, CoreAgrees, Agrees
<1>7. ASSUME NEW i \in 1 .. Len(tree) + 1 PROVE tree'[i] = chain'[i]
  <2>1. CASE i = Len(tree) + 1
    BY <2>1, <1>2, <1>5
  <2>2. CASE i # Len(tree) + 1
    <3>1. i \in 1 .. Len(tree)
      BY <1>0, <2>2 DEF ShapeFacts
    <3>. QED  BY <3>1, <1>2, <1>5, <1>6
  <2>. QED  BY <2>1, <2>2
<1>. QED  BY <1>2, <1>3, <1>5, <1>7

\* What replaying the WAL on the current snapshot, or on another one that agrees
\* with the chain, gives.
LEMMA CoreReplay ==
    ASSUME CoreInv, NEW v \in DOMAIN snaps, Agrees(snaps[v])
    PROVE  /\ CanCatchup(snaps[v], 0)
           /\ Catchup(snaps[v], 0) \in Seq(Data) /\ Agrees(Catchup(snaps[v], 0))
           /\ Len(Catchup(snaps[v], 0)) = IF Len(snaps[v]) + 1 > LastIndex
                                           THEN Len(snaps[v]) ELSE LastIndex
<1>1. snaps[v] \in Seq(Data) /\ Len(snaps[v]) \in Nat /\ Len(snaps[v]) =< MaxVersion
  BY CoreSnapShape
<1>2. TypeOK /\ LogAgrees /\ QueueAgrees /\ LastIndex \in Nat /\ walFirst \in Nat
  BY CoreShape DEF CoreInv, CoreAgrees, ShapeFacts, TypeOK
<1>3. CatchupFirst(snaps[v]) = Len(snaps[v]) + 1
  BY <1>1, VersionLemma
<1>4. walFirst =< Len(snaps[v]) + 1
  BY DEF CoreInv, WalCoversSnapshots
<1>5. CatchupLast(0) = LastIndex
  BY DEF CatchupLast
<1>6. CanCatchup(snaps[v], 0)
  BY <1>1, <1>2, <1>3, <1>4, <1>5 DEF CanCatchup
<1>. QED  BY <1>1, <1>2, <1>5, <1>6, CatchupAgrees

LEMMA CoreRecovered ==
    ASSUME CoreInv
    PROVE  /\ Recovered \in Seq(Data) /\ Agrees(Recovered)
           /\ CanCatchup(snaps[current], 0)
           /\ Len(Recovered) \in Nat
           /\ LastIndex =< Len(Recovered) /\ Len(snaps[current]) =< Len(Recovered)
           /\ Len(Recovered) = LastIndex \/ Len(Recovered) = Len(snaps[current])
<1>1. current \in DOMAIN snaps /\ Agrees(snaps[current])
  BY DEF CoreInv, CoreAgrees, CurrentNeverDangles
<1>2. Len(snaps[current]) \in Nat /\ LastIndex \in Nat
  BY <1>1, CoreSnapShape, CoreShape DEF ShapeFacts
<1>3. /\ Recovered \in Seq(Data) /\ Agrees(Recovered)
      /\ CanCatchup(snaps[current], 0)
      /\ Len(Recovered) = IF Len(snaps[current]) + 1 > LastIndex
                           THEN Len(snaps[current]) ELSE LastIndex
  BY <1>1, CoreReplay DEF Recovered
<1>. QED  BY <1>2, <1>3

\* Load from a snapshot and the WAL yields a tree that agrees with the chain.
LEMMA LoadStep ==
    ASSUME CoreInv, NEW target \in LoadTargets, Load(target),
           target = 0 \/ \A v \in DOMAIN snaps : Agrees(snaps[v])
    PROVE  CoreInv'
<1>0. ShapeFacts
  BY CoreShape
<1>. USE DEF walVars, linkVars, mainVars, writerVars, rewriterVars, prunerVars, envVars, vars, Load
<1>a. PICK v \in DOMAIN snaps :
          /\ target = 0 => v = current
          /\ base' = v
          /\ IF target = 0 \/ target > Version(snaps[v])
               THEN CanCatchup(snaps[v], target) /\ tree' = Catchup(snaps[v], target)
               ELSE tree' = snaps[v]
  OBVIOUS
<1>b. /\ snaps[v] \in Seq(Data) /\ Agrees(snaps[v]) /\ Len(snaps[v]) \in Nat
      /\ walFirst =< Len(snaps[v]) + 1 /\ v \in Nat /\ target \in Nat
  BY <1>a, CoreSnapShape, ConstantsAssumption DEF CoreInv, CoreAgrees, WalCoversSnapshots
<1>c. tree' \in Seq(Data) /\ Agrees(tree') /\ Len(snaps[v]) =< Len(tree')
  <2>1. CASE target = 0 \/ target > Version(snaps[v])
    <3>1. CanCatchup(snaps[v], target) /\ tree' = Catchup(snaps[v], target)
      BY <1>a, <2>1
    <3>2. TypeOK /\ LogAgrees /\ QueueAgrees
      BY DEF CoreInv, CoreAgrees
    <3>. HIDE DEF Load
    <3>. QED  BY <1>b, <3>1, <3>2, CatchupAgrees
  <2>2. CASE ~(target = 0 \/ target > Version(snaps[v]))
    <3>1. tree' = snaps[v]
      BY <1>a, <2>2
    <3>. QED  BY <1>b, <3>1
  <2>. QED  BY <2>1, <2>2
<1>d. Len(tree') \in Nat /\ walFirst =< Len(tree') + 1
  <2>1. Len(tree') \in Nat /\ walFirst \in Nat
    BY <1>c, LenProperties DEF CoreInv, TypeOK
  <2>. QED  BY <1>b, <1>c, <2>1
<1>e. /\ UNCHANGED <<snaps, current, curTmp, walFirst, walLog, pending, err,
                     writerVars, rewriterVars, prunerVars, envVars>>
      /\ main = "down" /\ main' = "idle" /\ tmps' = {} /\ walChanSize' \in Int
  BY ConstantsAssumption
<1>. HIDE DEF Load
<1>1. TypeOK'
  BY <1>a, <1>b, <1>c, <1>e DEF CoreInv, TypeOK
<1>2. CoreAgrees'
  BY <1>c, <1>e DEF CoreInv, CoreAgrees, LogAgrees, Agrees, Version
<1>3. QueueAgrees'
  BY <1>e DEF CoreInv, QueueAgrees, EntryAgrees
<1>4. CurrentNeverDangles' /\ WalCoversSnapshots'
  BY <1>e DEF CoreInv, CurrentNeverDangles, WalCoversSnapshots
<1>5. RewriteInv'
  BY <1>d, <1>e DEF CoreInv, RewriteInv, Version
<1>6. PruneInv'
  BY <1>e DEF CoreInv, PruneInv, RewriteInv, Version
<1>7. SwitchInv'
  <2>1. rewriter' = "off"
    BY <1>e DEF CoreInv, RewriteInv
  <2>2. Version(snaps[v]) = v /\ v =< Version(tree')
    BY <1>b, <1>c, VersionOrder DEF CoreInv, CoreAgrees
  <2>3. base' = v /\ Version(tree)' = Version(tree')
    BY <1>a DEF Version
  <2>. QED  BY <1>e, <2>1, <2>2, <2>3 DEF SwitchInv
<1>. QED  BY <1>1, <1>2, <1>3, <1>4, <1>5, <1>6, <1>7 DEF CoreInv

\* Taking the change sets of a block into pendingLog keeps the invariant.
LEMMA ApplyChangeSetsStep ==
    ASSUME CoreInv, NEW b \in Block, ApplyChangeSets(b)
    PROVE  CoreInv'
<1>0. ShapeFacts
  BY CoreShape
<1>. USE DEF walVars, linkVars, mainVars, writerVars, rewriterVars, prunerVars, envVars, vars, ApplyChangeSets
<1>a. b \in Data
  BY DEF Data
<1>1. TypeOK'
  BY <1>0, <1>a DEF CoreInv, TypeOK, ShapeFacts
<1>2. CoreAgrees'
  BY DEF CoreInv, CoreAgrees, LogAgrees, Agrees, Version
<1>3. QueueAgrees'
  BY DEF CoreInv, QueueAgrees, EntryAgrees
<1>4. CurrentNeverDangles' /\ WalCoversSnapshots'
  BY DEF CoreInv, CurrentNeverDangles, WalCoversSnapshots, RewriteInv
<1>5. RewriteInv'
  BY <1>0 DEF ShapeFacts, CoreInv, TypeOK, RewriteInv, CurrentNeverDangles, PruneInv, Version
<1>6. PruneInv'
  BY <1>0 DEF ShapeFacts, CoreInv, TypeOK, PruneInv, RewriteInv, CurrentNeverDangles, Version
<1>7. SwitchInv'
  BY <1>0 DEF ShapeFacts, CoreInv, TypeOK, SwitchInv, LastIndex, Version
<1>. QED  BY <1>1, <1>2, <1>3, <1>4, <1>5, <1>6, <1>7 DEF CoreInv

\* A commit with an asynchronous WAL keeps the invariant: the tree grows by a
\* decided block and its entry waits in the hand of the caller.
LEMMA CommitAsyncStep ==
    ASSUME CoreInv, CommitAsync
    PROVE  CoreInv'
<1>0. ShapeFacts
  BY CoreShape
<1>. USE DEF walVars, linkVars, mainVars, writerVars, rewriterVars, prunerVars, envVars, vars, CommitAsync
<1>a. /\ tree' \in Seq(Data) /\ chain' \in Seq(Data)
      /\ Len(tree') = Len(tree) + 1 /\ tree'[Len(tree) + 1] = pending
      /\ Len(chain) =< Len(chain') /\ Len(chain') =< MaxVersion
      /\ Len(tree) + 1 =< Len(chain') /\ chain'[Len(tree) + 1] = pending
      /\ \A i \in 1 .. Len(chain) : chain'[i] = chain[i]
      /\ \A i \in 1 .. Len(tree) + 1 : tree'[i] = chain'[i]
      /\ walIndex(nextVersion(Version(tree))) = Len(tree) + 1
      /\ Len(chain') \in Nat
  BY CoreSaveVersion
<1>b. /\ UNCHANGED <<linkVars, walVars, base, pending, err, walChan, batch, rewriterVars,
                     prunerVars, crashes, walChanSize>>
      /\ main = "idle" /\ main' = "send"
      /\ writer' \in {"off", "recv", "write", "quit", "done"}
  BY DEF CoreInv, TypeOK
<1>. HIDE DEF CommitAsync
<1>c. ASSUME NEW t \in Seq(Data), Agrees(t)
      PROVE  Len(t) =< Len(chain') /\ \A i \in 1 .. Len(t) : t[i] = chain'[i]
  <2>1. Len(t) \in Nat /\ Len(chain) \in Nat /\ Len(t) =< Len(chain)
    BY <1>0, <1>c, LenProperties DEF ShapeFacts, Agrees
  <2>2. Len(chain') \in Nat /\ Len(chain) =< Len(chain')
    BY <1>a
  <2>3. ASSUME NEW i \in 1 .. Len(t) PROVE t[i] = chain'[i]
    <3>1. i \in 1 .. Len(chain)
      BY <2>1
    <3>2. t[i] = chain[i]
      BY <1>c DEF Agrees
    <3>. QED  BY <1>a, <3>1, <3>2
  <2>. QED  BY <2>1, <2>2, <2>3
<1>d. ASSUME NEW x, EntryAgrees(x)
      PROVE  x.index \in 1 .. Len(chain') /\ x.data = chain'[x.index]
  <2>1. /\ x.index \in 1 .. Len(chain) /\ x.data = chain[x.index]
        /\ Len(chain) \in Nat
    BY <1>0, <1>d DEF ShapeFacts, EntryAgrees
  <2>2. chain'[x.index] = chain[x.index] /\ Len(chain') \in Nat /\ Len(chain) =< Len(chain')
    BY <1>a, <2>1
  <2>. QED  BY <2>1, <2>2
<1>e. Version(tree) =< Version(tree') /\ Version(tree') \in Nat
  BY <1>0, <1>a, ConstantsAssumption DEF ShapeFacts, Version, walVersion
<1>f. Version(tree)' = Version(tree')
  BY DEF Version
<1>1. TypeOK'
  BY <1>a, <1>b DEF CoreInv, TypeOK
<1>2. CoreAgrees'
  <2>1. Agrees(tree)'
    BY <1>a DEF Agrees
  <2>2. Agrees(mtree)'
    BY <1>b, <1>c DEF CoreInv, TypeOK, CoreAgrees, Agrees
  <2>3. ASSUME NEW v \in DOMAIN snaps, Agrees(snaps[v]) PROVE Agrees(snaps[v])'
    <3>1. snaps[v] \in Seq(Data) /\ snaps'[v] = snaps[v]
      BY <1>b, CoreSnapShape
    <3>. QED  BY <1>c, <2>3, <3>1 DEF Agrees
  <2>5. /\ current \in DOMAIN snaps /\ Agrees(snaps[current])
        /\ rewriter \in {"symlink", "link"} =>
              Version(mtree) \in DOMAIN snaps /\ Agrees(snaps[Version(mtree)])
    BY DEF CoreInv, CoreAgrees, CurrentNeverDangles, RewriteInv
  <2>6. Agrees(snaps[current])'
    <3>1. ASSUME NEW v \in DOMAIN snaps, v = current', Agrees(snaps[v])
          PROVE  Agrees(snaps[current])'
      BY <2>3, <3>1 DEF Agrees
    <3>. QED  BY <1>b, <2>5, <3>1
  <2>7. rewriter' \in {"symlink", "link"} => Agrees(snaps[Version(mtree)])'
    <3>1. rewriter' = rewriter /\ Version(mtree)' = Version(mtree)
      BY <1>b DEF Version
    <3>2. ASSUME NEW v \in DOMAIN snaps, v = Version(mtree)', Agrees(snaps[v])
          PROVE  Agrees(snaps[Version(mtree)])'
      BY <2>3, <3>2 DEF Agrees
    <3>. QED  BY <2>5, <3>1, <3>2
  <2>8. \A v \in DOMAIN snaps' : Version(snaps[v])' = v /\ Len(snaps'[v]) =< MaxVersion
    BY <1>b DEF CoreInv, CoreAgrees, Version
  <2>4. ASSUME NEW k \in 1 .. Len(walLog)
        PROVE  walFirst + k - 1 =< Len(chain') /\ walLog[k] = chain'[walFirst + k - 1]
    <3>1. walFirst + k - 1 =< Len(chain) /\ walLog[k] = chain[walFirst + k - 1]
      BY DEF CoreInv, CoreAgrees, LogAgrees
    <3>2. walFirst + k - 1 \in 1 .. Len(chain)
      BY <1>0, <3>1 DEF ShapeFacts, CoreInv, TypeOK
    <3>3. chain'[walFirst + k - 1] = chain[walFirst + k - 1]
      BY <1>a, <3>2
    <3>4. Len(chain) \in Nat /\ Len(chain') \in Nat /\ Len(chain) =< Len(chain')
      BY <1>0, <1>a DEF ShapeFacts
    <3>. QED  BY <3>1, <3>2, <3>3, <3>4
  <2>. QED  BY <1>b, <2>1, <2>2, <2>4, <2>6, <2>7, <2>8 DEF CoreAgrees, LogAgrees
<1>3. QueueAgrees'
  <2>1. Len(chain') =< MaxVersion
    BY <1>a
  <2>2. \A k \in 1 .. Len(walChan) : walChan[k].index \in 1 .. Len(chain') /\ walChan[k].data = chain'[walChan[k].index]
    BY <1>d DEF CoreInv, QueueAgrees
  <2>3. \A k \in 1 .. Len(batch) : batch[k].index \in 1 .. Len(chain') /\ batch[k].data = chain'[batch[k].index]
    BY <1>d DEF CoreInv, QueueAgrees
  <2>4. Len(tree') > 0 /\ tree'[Len(tree')] = pending
    <3>1. Len(tree) \in Nat
      BY <1>0 DEF ShapeFacts
    <3>. QED  BY <1>a, <3>1
  <2>. QED  BY <1>b, <2>1, <2>2, <2>3, <2>4 DEF QueueAgrees, EntryAgrees
<1>4. CurrentNeverDangles' /\ WalCoversSnapshots'
  BY <1>b DEF CoreInv, CurrentNeverDangles, WalCoversSnapshots
<1>5. RewriteInv'
  <2>1. Version(mtree)' = Version(mtree) /\ current' = current
    BY <1>b DEF Version
  <2>2. walFirst =< Len(tree) + 1 /\ walFirst \in Nat /\ current \in Nat
    BY <1>b DEF CoreInv, TypeOK, RewriteInv
  <2>3. walFirst =< Len(tree') + 1 /\ (Len(mtree) =< Len(tree) => Len(mtree) =< Len(tree'))
    BY <1>0, <1>a, <2>2 DEF ShapeFacts
  <2>. QED  BY <1>b, <2>1, <2>2, <2>3 DEF CoreInv, RewriteInv
<1>6. PruneInv'
  <2>1. Version(mtree)' = Version(mtree) /\ current' = current
    BY <1>b DEF Version
  <2>2. current \in Nat /\ (current =< Version(tree) => current =< Version(tree'))
    BY <1>0, <1>e DEF ShapeFacts, CoreInv, TypeOK
  <2>. QED  BY <1>b, <1>f, <2>1, <2>2 DEF CoreInv, PruneInv
<1>7. SwitchInv'
  <2>1. LastIndex' = LastIndex
    BY <1>b DEF LastIndex
  <2>2. Version(mtree)' = Version(mtree)
    BY <1>b DEF Version
  <2>3. base \in Nat /\ Len(tree) \in Nat /\ Len(mtree) \in Nat /\ base =< Version(tree')
    <3>1. base =< Version(tree) /\ base \in Nat
      BY <1>b DEF CoreInv, TypeOK, SwitchInv
    <3>. QED  BY <1>0, <1>e, <3>1 DEF ShapeFacts
  <2>4. Len(mtree) =< Len(tree) => Len(mtree) =< Len(tree')
    BY <1>a, <2>3
  <2>. QED  BY <1>b, <1>f, <2>1, <2>2, <2>3, <2>4 DEF CoreInv, SwitchInv
<1>. QED  BY <1>1, <1>2, <1>3, <1>4, <1>5, <1>6, <1>7 DEF CoreInv

\* A commit with a synchronous WAL keeps the invariant, whether the entry is
\* appended, skipped because a replay already wrote it, or lost to an error.
LEMMA CommitSyncStep ==
    ASSUME CoreInv, CommitSync
    PROVE  CoreInv'
<1>0. ShapeFacts
  BY CoreShape
<1>. USE DEF walVars, linkVars, mainVars, writerVars, rewriterVars, prunerVars, envVars, vars, CommitSync
<1>a. /\ tree' \in Seq(Data) /\ chain' \in Seq(Data)
      /\ Len(tree') = Len(tree) + 1 /\ tree'[Len(tree) + 1] = pending
      /\ Len(chain) =< Len(chain') /\ Len(chain') =< MaxVersion
      /\ Len(tree) + 1 =< Len(chain') /\ chain'[Len(tree) + 1] = pending
      /\ \A i \in 1 .. Len(chain) : chain'[i] = chain[i]
      /\ \A i \in 1 .. Len(tree) + 1 : tree'[i] = chain'[i]
      /\ walIndex(nextVersion(Version(tree))) = Len(tree) + 1
      /\ Len(chain') \in Nat
  BY CoreSaveVersion
<1>. DEFINE es == <<Entry(nextVersion(Version(tree)))>>
<1>b. /\ UNCHANGED <<linkVars, walFirst, base, err, writerVars, rewriterVars,
                     prunerVars, crashes, walChanSize>>
      /\ main = "idle" /\ main' \in {"check", "failed"}
  OBVIOUS
<1>g. \/ \E m \in 0 .. 1 : /\ Contiguous(es, m) /\ AppendToWal(es, m)
                           /\ pending' = NoChange
      \/ walLog' = walLog /\ pending' = pending
  OBVIOUS
<1>h. /\ es \in Seq(WalEntry) /\ Len(es) = 1
      /\ es[1].index = Len(tree) + 1 /\ es[1].data = pending
  <2>1. Entry(nextVersion(Version(tree))) \in WalEntry
    BY <1>0, <1>a DEF ShapeFacts, CoreInv, TypeOK, Entry, WalEntry
  <2>. QED  BY <1>a, <2>1 DEF Entry
<1>. HIDE DEF CommitSync, es
<1>c. ASSUME NEW t \in Seq(Data), Agrees(t)
      PROVE  Len(t) =< Len(chain') /\ \A i \in 1 .. Len(t) : t[i] = chain'[i]
  <2>1. Len(t) \in Nat /\ Len(chain) \in Nat /\ Len(t) =< Len(chain)
    BY <1>0, <1>c, LenProperties DEF ShapeFacts, Agrees
  <2>2. Len(chain') \in Nat /\ Len(chain) =< Len(chain')
    BY <1>a
  <2>3. ASSUME NEW i \in 1 .. Len(t) PROVE t[i] = chain'[i]
    <3>1. i \in 1 .. Len(chain)
      BY <2>1
    <3>2. t[i] = chain[i]
      BY <1>c DEF Agrees
    <3>. QED  BY <1>a, <3>1, <3>2
  <2>. QED  BY <2>1, <2>2, <2>3
<1>d. ASSUME NEW x, EntryAgrees(x)
      PROVE  x.index \in 1 .. Len(chain') /\ x.data = chain'[x.index]
  <2>1. /\ x.index \in 1 .. Len(chain) /\ x.data = chain[x.index]
        /\ Len(chain) \in Nat
    BY <1>0, <1>d DEF ShapeFacts, EntryAgrees
  <2>2. chain'[x.index] = chain[x.index] /\ Len(chain') \in Nat /\ Len(chain) =< Len(chain')
    BY <1>a, <2>1
  <2>. QED  BY <2>1, <2>2
<1>e. Version(tree) =< Version(tree') /\ Version(tree') \in Nat
  BY <1>0, <1>a, ConstantsAssumption DEF ShapeFacts, Version, walVersion
<1>f. Version(tree)' = Version(tree')
  BY DEF Version
<1>j. Len(walLog') \in Nat /\ Len(walLog) =< Len(walLog')
  <2>1. walLog \in Seq(Data) /\ Len(walLog) \in Nat
    BY <1>0 DEF ShapeFacts, CoreInv, TypeOK
  <2>2. ASSUME NEW m \in 0 .. 1, AppendToWal(es, m)
        PROVE  Len(walLog') \in Nat /\ Len(walLog) =< Len(walLog')
    <3>1. m \in 0 .. Len(es)
      BY <1>h
    <3>2. Len(walLog') = Len(walLog) + (Len(es) - m)
      BY <1>h, <2>1, <2>2, <3>1, LogGrows DEF AppendToWal
    <3>. QED  BY <1>h, <2>1, <3>2
  <2>. QED  BY <1>g, <2>1, <2>2
<1>i. /\ walLog' \in Seq(Data) /\ pending' \in Data
      /\ \A k \in 1 .. Len(walLog') :
            walFirst + k - 1 =< Len(chain') /\ walLog'[k] = chain'[walFirst + k - 1]
  <2>0. /\ walLog \in Seq(Data) /\ pending \in Data /\ NoChange \in Data
        /\ walFirst \in Nat \ {0} /\ Len(walLog) \in Nat
    BY <1>0 DEF ShapeFacts, CoreInv, TypeOK
  <2>1. ASSUME NEW k \in 1 .. Len(walLog)
        PROVE  walFirst + k - 1 =< Len(chain') /\ walLog[k] = chain'[walFirst + k - 1]
    <3>1. walFirst + k - 1 =< Len(chain) /\ walLog[k] = chain[walFirst + k - 1]
      BY DEF CoreInv, CoreAgrees, LogAgrees
    <3>2. walFirst + k - 1 \in 1 .. Len(chain)
      <4>1. Len(chain) \in Nat
        BY <1>0 DEF ShapeFacts
      <4>2. walFirst + k - 1 =< Len(chain)
        BY <3>1
      <4>. QED  BY <2>0, <4>1, <4>2
    <3>3. walFirst + k - 1 =< Len(chain')
      <4>1. Len(chain') \in Nat /\ Len(chain) \in Nat /\ Len(chain) =< Len(chain')
        BY <1>0, <1>a DEF ShapeFacts
      <4>. QED  BY <2>0, <3>2, <4>1
    <3>. QED  BY <1>a, <3>1, <3>2, <3>3
  <2>2. CASE walLog' = walLog /\ pending' = pending
    BY <2>0, <2>1, <2>2
  <2>3. ASSUME NEW m \in 0 .. 1, Contiguous(es, m), AppendToWal(es, m), pending' = NoChange
        PROVE  /\ walLog' \in Seq(Data) /\ pending' \in Data
               /\ \A k \in 1 .. Len(walLog') :
                     walFirst + k - 1 =< Len(chain') /\ walLog'[k] = chain'[walFirst + k - 1]
    <3>1. m \in 0 .. Len(es)
      BY <1>h
    <3>2. /\ walLog' \in Seq(Data)
          /\ Len(walLog') = Len(walLog) + (Len(es) - m)
          /\ \A k \in 1 .. Len(walLog) : walLog'[k] = walLog[k]
          /\ \A k \in 1 .. Len(es) - m : walLog'[Len(walLog) + k] = es[m + k].data
      BY <1>h, <2>0, <2>3, <3>1, LogGrows DEF AppendToWal
    <3>3. CASE m = 1
      <4>1. Len(walLog') = Len(walLog)
        BY <1>h, <2>0, <3>2, <3>3
      <4>. QED  BY <2>0, <2>1, <2>3, <3>2, <4>1
    <3>4. CASE m = 0
      <4>1. Len(walLog') = Len(walLog) + 1 /\ walLog'[Len(walLog) + 1] = pending
        BY <1>h, <2>0, <3>2, <3>4
      <4>2. es[1].index = LastIndex + 1
        BY <1>h, <2>3, <3>4 DEF Contiguous
      <4>3. walFirst + (Len(walLog) + 1) - 1 = Len(tree) + 1
        BY <1>h, <2>0, <4>2 DEF LastIndex
      <4>4. ASSUME NEW k \in 1 .. Len(walLog')
            PROVE  walFirst + k - 1 =< Len(chain') /\ walLog'[k] = chain'[walFirst + k - 1]
        <5>1. CASE k = Len(walLog) + 1
          BY <1>a, <4>1, <4>3, <5>1
        <5>2. CASE k # Len(walLog) + 1
          <6>1. k \in 1 .. Len(walLog)
            BY <2>0, <4>1, <5>2
          <6>. QED  BY <2>1, <3>2, <6>1
        <5>. QED  BY <5>1, <5>2
      <4>. QED  BY <2>0, <2>3, <3>2, <4>4
    <3>5. m = 0 \/ m = 1
      OBVIOUS
    <3>. QED  BY <3>3, <3>4, <3>5
  <2>. QED  BY <1>g, <2>2, <2>3
<1>1. TypeOK'
  BY <1>a, <1>b, <1>i DEF CoreInv, TypeOK
<1>2. CoreAgrees'
  <2>1. Agrees(tree)'
    BY <1>a DEF Agrees
  <2>2. Agrees(mtree)'
    BY <1>b, <1>c DEF CoreInv, TypeOK, CoreAgrees, Agrees
  <2>3. ASSUME NEW v \in DOMAIN snaps, Agrees(snaps[v]) PROVE Agrees(snaps[v])'
    <3>1. snaps[v] \in Seq(Data) /\ snaps'[v] = snaps[v]
      BY <1>b, CoreSnapShape
    <3>. QED  BY <1>c, <2>3, <3>1 DEF Agrees
  <2>5. /\ current \in DOMAIN snaps /\ Agrees(snaps[current])
        /\ rewriter \in {"symlink", "link"} =>
              Version(mtree) \in DOMAIN snaps /\ Agrees(snaps[Version(mtree)])
    BY DEF CoreInv, CoreAgrees, CurrentNeverDangles, RewriteInv
  <2>6. Agrees(snaps[current])'
    <3>1. ASSUME NEW v \in DOMAIN snaps, v = current', Agrees(snaps[v])
          PROVE  Agrees(snaps[current])'
      BY <2>3, <3>1 DEF Agrees
    <3>. QED  BY <1>b, <2>5, <3>1
  <2>7. rewriter' \in {"symlink", "link"} => Agrees(snaps[Version(mtree)])'
    <3>1. rewriter' = rewriter /\ Version(mtree)' = Version(mtree)
      BY <1>b DEF Version
    <3>2. ASSUME NEW v \in DOMAIN snaps, v = Version(mtree)', Agrees(snaps[v])
          PROVE  Agrees(snaps[Version(mtree)])'
      BY <2>3, <3>2 DEF Agrees
    <3>. QED  BY <2>5, <3>1, <3>2
  <2>8. \A v \in DOMAIN snaps' : Version(snaps[v])' = v /\ Len(snaps'[v]) =< MaxVersion
    BY <1>b DEF CoreInv, CoreAgrees, Version
  <2>. QED  BY <1>b, <1>i, <2>1, <2>2, <2>6, <2>7, <2>8 DEF CoreAgrees, LogAgrees
<1>3. QueueAgrees'
  <2>1. Len(chain') =< MaxVersion
    BY <1>a
  <2>2. \A k \in 1 .. Len(walChan) : walChan[k].index \in 1 .. Len(chain') /\ walChan[k].data = chain'[walChan[k].index]
    BY <1>d DEF CoreInv, QueueAgrees
  <2>3. \A k \in 1 .. Len(batch) : batch[k].index \in 1 .. Len(chain') /\ batch[k].data = chain'[batch[k].index]
    BY <1>d DEF CoreInv, QueueAgrees
  <2>. QED  BY <1>b, <2>1, <2>2, <2>3 DEF QueueAgrees, EntryAgrees
<1>4. CurrentNeverDangles' /\ WalCoversSnapshots'
  BY <1>b DEF CoreInv, CurrentNeverDangles, WalCoversSnapshots
<1>5. RewriteInv'
  <2>1. Version(mtree)' = Version(mtree) /\ current' = current
    BY <1>b DEF Version
  <2>2. walFirst =< Len(tree) + 1 /\ walFirst \in Nat /\ current \in Nat
    BY <1>b DEF CoreInv, TypeOK, RewriteInv
  <2>3. walFirst =< Len(tree') + 1 /\ (Len(mtree) =< Len(tree) => Len(mtree) =< Len(tree'))
    BY <1>0, <1>a, <2>2 DEF ShapeFacts
  <2>. QED  BY <1>b, <2>1, <2>2, <2>3 DEF CoreInv, RewriteInv
<1>6. PruneInv'
  <2>1. Version(mtree)' = Version(mtree) /\ current' = current
    BY <1>b DEF Version
  <2>2. current \in Nat /\ (current =< Version(tree) => current =< Version(tree'))
    BY <1>0, <1>e DEF ShapeFacts, CoreInv, TypeOK
  <2>. QED  BY <1>b, <1>f, <2>1, <2>2 DEF CoreInv, PruneInv
<1>7. SwitchInv'
  <2>1. LastIndex \in Nat /\ LastIndex' \in Nat /\ LastIndex =< LastIndex'
    <3>1. Len(walLog) \in Nat /\ walFirst \in Nat \ {0}
      BY <1>0 DEF ShapeFacts, CoreInv, TypeOK
    <3>. QED  BY <1>b, <1>j, <3>1 DEF LastIndex
  <2>2. Version(mtree)' = Version(mtree)
    BY <1>b DEF Version
  <2>3. base \in Nat /\ Len(tree) \in Nat /\ Len(mtree) \in Nat /\ base =< Version(tree')
    <3>1. base =< Version(tree) /\ base \in Nat
      BY <1>b DEF CoreInv, TypeOK, SwitchInv
    <3>. QED  BY <1>0, <1>e, <3>1 DEF ShapeFacts
  <2>4. Len(mtree) =< Len(tree) => Len(mtree) =< Len(tree')
    BY <1>a, <2>3
  <2>5. catchEnd \in Nat
    BY DEF CoreInv, TypeOK
  <2>6. (Len(mtree) =< LastIndex => Len(mtree) =< LastIndex') /\ (catchEnd =< LastIndex => catchEnd =< LastIndex')
    BY <2>1, <2>3, <2>5
  <2>. QED  BY <1>b, <1>f, <2>6, <2>2, <2>3, <2>4 DEF CoreInv, SwitchInv
<1>. QED  BY <1>1, <1>2, <1>3, <1>4, <1>5, <1>6, <1>7 DEF CoreInv

\* Handing the entry to the WAL writer keeps the invariant.
LEMMA SendStep ==
    ASSUME CoreInv, Send
    PROVE  CoreInv'
<1>0. ShapeFacts
  BY CoreShape
<1>. USE DEF walVars, linkVars, mainVars, writerVars, rewriterVars, prunerVars, envVars, vars, Send
<1>a. /\ Len(tree) \in 1 .. Len(chain) /\ pending = chain[Len(tree)]
      /\ walIndex(Version(tree)) = Len(tree) /\ pending \in Data
      /\ walChan \in Seq(WalEntry) /\ batch \in Seq(WalEntry)
  BY <1>0 DEF ShapeFacts, CoreInv, QueueAgrees, CoreAgrees, Agrees, TypeOK
<1>. DEFINE en == Entry(Version(tree))
<1>b. en \in WalEntry /\ EntryAgrees(en)
  BY <1>0, <1>a DEF ShapeFacts, Entry, WalEntry, EntryAgrees
<1>c. /\ UNCHANGED <<linkVars, walVars, tree, base, err, rewriterVars, prunerVars,
                     envVars, walChanSize>>
      /\ pending' = NoChange /\ main' = "check"
      /\ writer' \in {"off", "recv", "write", "quit", "done"}
  BY DEF CoreInv, TypeOK
<1>d. \/ batch' = <<en>> /\ walChan' = walChan
      \/ walChan' = Append(walChan, en) /\ batch' = batch
  OBVIOUS
<1>. HIDE DEF Send, en
<1>e. /\ walChan' \in Seq(WalEntry)
      /\ batch' \in Seq(WalEntry)
      /\ \A k \in 1 .. Len(walChan') : EntryAgrees(walChan'[k])
      /\ \A k \in 1 .. Len(batch') : EntryAgrees(batch'[k])
  <2>0. /\ \A k \in 1 .. Len(walChan) : EntryAgrees(walChan[k])
        /\ \A k \in 1 .. Len(batch) : EntryAgrees(batch[k])
    BY DEF CoreInv, QueueAgrees
  <2>1. CASE batch' = <<en>> /\ walChan' = walChan
    <3>1. <<en>> \in Seq(WalEntry) /\ Len(<<en>>) = 1 /\ <<en>>[1] = en
      BY <1>b
    <3>. QED  BY <1>a, <1>b, <2>0, <2>1, <3>1
  <2>2. CASE walChan' = Append(walChan, en) /\ batch' = batch
    <3>1. /\ walChan' \in Seq(WalEntry) /\ Len(walChan') = Len(walChan) + 1
          /\ \A k \in 1 .. Len(walChan) : walChan'[k] = walChan[k]
          /\ walChan'[Len(walChan) + 1] = en
      BY <1>a, <1>b, <2>2, AppendProperties
    <3>2. ASSUME NEW k \in 1 .. Len(walChan') PROVE EntryAgrees(walChan'[k])
      <4>1. k \in 1 .. Len(walChan) \/ k = Len(walChan) + 1
        BY <1>0, <3>1 DEF ShapeFacts
      <4>. QED  BY <1>b, <2>0, <3>1, <4>1
    <3>. QED  BY <1>a, <2>0, <2>2, <3>1, <3>2
  <2>. QED  BY <1>d, <2>1, <2>2
<1>1. TypeOK'
  BY <1>0, <1>c, <1>e DEF ShapeFacts, CoreInv, TypeOK
<1>2. CoreAgrees'
  BY <1>c DEF CoreInv, CoreAgrees, LogAgrees, Agrees, Version
<1>3. QueueAgrees'
  BY <1>c, <1>e DEF CoreInv, QueueAgrees, EntryAgrees
<1>4. CurrentNeverDangles' /\ WalCoversSnapshots'
  BY <1>c DEF CoreInv, CurrentNeverDangles, WalCoversSnapshots
<1>5. RewriteInv'
  BY <1>c DEF CoreInv, RewriteInv, Version, Send
<1>6. PruneInv'
  BY <1>c DEF CoreInv, PruneInv, Version
<1>7. SwitchInv'
  <2>1. main = "send"
    BY DEF Send
  <2>. QED  BY <1>c, <2>1 DEF CoreInv, SwitchInv, Version, LastIndex
<1>. QED  BY <1>1, <1>2, <1>3, <1>4, <1>5, <1>6, <1>7 DEF CoreInv

\* Polling the WAL writer for an error keeps the invariant.
LEMMA CheckAsyncCommitStep ==
    ASSUME CoreInv, CheckAsyncCommit
    PROVE  CoreInv'
<1>0. ShapeFacts
  BY CoreShape
<1>. USE DEF walVars, linkVars, mainVars, writerVars, rewriterVars, prunerVars, envVars, vars, CheckAsyncCommit
<1>1. TypeOK'
  <2>1. err' \in BOOLEAN
    <3>1. err' = (writer \in {"quit", "done"})
      OBVIOUS
    <3>. HIDE DEF CheckAsyncCommit
    <3>. QED  BY <3>1
  <2>2. writer' \in {"off", "recv", "write", "quit", "done"}
    BY DEF CoreInv, TypeOK
  <2>3. /\ main' = "background"
        /\ UNCHANGED <<linkVars, walVars, tree, base, pending, walChan, batch,
                       rewriterVars, prunerVars, envVars, walChanSize>>
    OBVIOUS
  <2>. HIDE DEF CheckAsyncCommit
  <2>. QED  BY <2>1, <2>2, <2>3 DEF CoreInv, TypeOK
<1>2. CoreAgrees'
  BY DEF CoreInv, CoreAgrees, LogAgrees, Agrees, Version
<1>3. QueueAgrees'
  BY DEF CoreInv, QueueAgrees, EntryAgrees
<1>4. CurrentNeverDangles' /\ WalCoversSnapshots'
  BY DEF CoreInv, CurrentNeverDangles, WalCoversSnapshots, RewriteInv
<1>5. RewriteInv'
  BY <1>0 DEF ShapeFacts, CoreInv, TypeOK, RewriteInv, CurrentNeverDangles, PruneInv, Version
<1>6. PruneInv'
  BY <1>0 DEF ShapeFacts, CoreInv, TypeOK, PruneInv, RewriteInv, CurrentNeverDangles, Version
<1>7. SwitchInv'
  BY <1>0 DEF ShapeFacts, CoreInv, TypeOK, SwitchInv, LastIndex, Version
<1>. QED  BY <1>1, <1>2, <1>3, <1>4, <1>5, <1>6, <1>7 DEF CoreInv

\* Polling for a finished rewrite, and starting one, keeps the invariant.
LEMMA CheckBackgroundNoneStep ==
    ASSUME CoreInv, CheckBackgroundNone
    PROVE  CoreInv'
<1>0. ShapeFacts
  BY CoreShape
<1>. USE DEF walVars, linkVars, mainVars, writerVars, rewriterVars, prunerVars, envVars, vars, CheckBackgroundNone, FinishCommit
<1>a. \/ rewriter' = rewriter /\ mtree' = mtree
      \/ rewriter' = "write" /\ mtree' = tree
      \/ rewriter' = "off" /\ mtree' = <<>>
  OBVIOUS
<1>b. /\ UNCHANGED <<linkVars, walVars, tree, base, pending, err, writerVars,
                   catchEnd, prunerVars, envVars, walChanSize>>
      /\ main = "background" /\ main' \in {"failed", "idle"}
  OBVIOUS
<1>1. TypeOK'
  <2>. HIDE DEF CheckBackgroundNone, FinishCommit
  <2>1. TypeOK /\ <<>> \in Seq(Data)
    BY <1>0 DEF CoreInv, ShapeFacts
  <2>2. mtree' \in Seq(Data) /\ rewriter' \in {"off", "write", "rename", "symlink", "link",
                                "load", "catchup", "result", "error", "closed"}
    BY <1>a, <1>b, <2>1 DEF TypeOK
  <2>. QED  BY <1>b, <2>1, <2>2 DEF TypeOK
<1>2. CoreAgrees'
  <2>. HIDE DEF CheckBackgroundNone, FinishCommit
  <2>0. Agrees(<<>>) /\ Agrees(tree) /\ Agrees(mtree)
    BY <1>0, EmptySeq DEF ShapeFacts, CoreInv, CoreAgrees, Agrees
  <2>1. Agrees(tree)' /\ Agrees(mtree)'
    BY <1>a, <1>b, <2>0 DEF Agrees
  <2>2. Agrees(snaps[current])'
    BY <1>b DEF CoreInv, CoreAgrees, Agrees
  <2>3. rewriter' \in {"symlink", "link"} => Agrees(snaps[Version(mtree)])'
    BY <1>a, <1>b DEF CoreInv, CoreAgrees, Agrees, Version
  <2>4. /\ \A v \in DOMAIN snaps' : Version(snaps[v])' = v /\ Len(snaps'[v]) =< MaxVersion
        /\ LogAgrees'
    BY <1>b DEF CoreInv, CoreAgrees, LogAgrees, Version
  <2>. QED  BY <2>1, <2>2, <2>3, <2>4 DEF CoreAgrees
<1>3. QueueAgrees'
  BY DEF CoreInv, QueueAgrees, EntryAgrees
<1>4. CurrentNeverDangles' /\ WalCoversSnapshots'
  BY DEF CoreInv, CurrentNeverDangles, WalCoversSnapshots, RewriteInv
<1>5. RewriteInv'
  <2>. HIDE DEF CheckBackgroundNone, FinishCommit
  <2>1. Len(tree) =< Len(tree)
    BY <1>0 DEF ShapeFacts
  <2>. QED  BY <1>a, <1>b, <2>1 DEF CoreInv, RewriteInv, Version
<1>6. PruneInv'
  BY <1>0 DEF ShapeFacts, CoreInv, TypeOK, PruneInv, RewriteInv, CurrentNeverDangles, Version
<1>7. SwitchInv'
  BY <1>0 DEF ShapeFacts, CoreInv, TypeOK, SwitchInv, LastIndex, Version
<1>. QED  BY <1>1, <1>2, <1>3, <1>4, <1>5, <1>6, <1>7 DEF CoreInv

\* Receiving the result of a rewrite keeps the invariant.
LEMMA CheckBackgroundResultStep ==
    ASSUME CoreInv, CheckBackgroundResult
    PROVE  CoreInv'
<1>0. ShapeFacts
  BY CoreShape
<1>. USE DEF walVars, linkVars, mainVars, writerVars, rewriterVars, prunerVars, envVars, vars, CheckBackgroundResult
<1>1. TypeOK'
  BY <1>0, ConstantsAssumption DEF CoreInv, TypeOK, ShapeFacts
<1>2. CoreAgrees'
  BY DEF CoreInv, CoreAgrees, LogAgrees, Agrees, Version
<1>3. QueueAgrees'
  BY DEF CoreInv, QueueAgrees, EntryAgrees
<1>4. CurrentNeverDangles' /\ WalCoversSnapshots'
  BY DEF CoreInv, CurrentNeverDangles, WalCoversSnapshots, RewriteInv
<1>5. RewriteInv'
  BY <1>0 DEF ShapeFacts, CoreInv, TypeOK, RewriteInv, CurrentNeverDangles, PruneInv, Version
<1>6. PruneInv'
  BY <1>0 DEF ShapeFacts, CoreInv, TypeOK, PruneInv, RewriteInv, CurrentNeverDangles, Version
<1>7. SwitchInv'
  BY <1>0 DEF ShapeFacts, CoreInv, TypeOK, SwitchInv, LastIndex, Version
<1>. QED  BY <1>1, <1>2, <1>3, <1>4, <1>5, <1>6, <1>7 DEF CoreInv

\* The switch to the rewritten tree keeps the invariant.
LEMMA SwitchStep ==
    ASSUME CoreInv, Switch
    PROVE  CoreInv'
<1>0. ShapeFacts
  BY CoreShape
<1>. USE DEF walVars, linkVars, mainVars, writerVars, rewriterVars, prunerVars, envVars, vars, Switch
<1>a. /\ tree \in Seq(Data) /\ mtree \in Seq(Data) /\ Agrees(tree) /\ Agrees(mtree)
      /\ walFirst \in Nat /\ current \in Nat /\ current =< Version(mtree)
      /\ rewriter = "off" /\ walFirst =< Len(tree) + 1 /\ main = "spin"
  BY DEF CoreInv, TypeOK, CoreAgrees, RewriteInv
<1>b. CASE ~CanCatchup(mtree, 0)
  <2>1. /\ UNCHANGED <<linkVars, walVars, tree, base, pending, err, writerVars, rewriter,
                       catchEnd, prunerVars, envVars, walChanSize>>
        /\ main' = "failed" /\ mtree' = <<>>
    BY <1>b
  <2>. HIDE DEF Switch
  <2>2. Agrees(<<>>) /\ Len(<<>>) = 0
    BY <1>0, EmptySeq DEF ShapeFacts, Agrees
  <2>3. TypeOK'
    BY <1>0, <2>1 DEF ShapeFacts, CoreInv, TypeOK
  <2>4. CoreAgrees'
    <3>1. Agrees(tree)' /\ Agrees(mtree)'
      BY <2>1, <2>2 DEF CoreInv, CoreAgrees, Agrees
    <3>2. Agrees(snaps[current])' /\ rewriter' \notin {"symlink", "link"}
      BY <1>a, <2>1 DEF CoreInv, CoreAgrees, Agrees
    <3>3. /\ \A v \in DOMAIN snaps' : Version(snaps[v])' = v /\ Len(snaps'[v]) =< MaxVersion
        /\ LogAgrees'
      BY <2>1 DEF CoreInv, CoreAgrees, LogAgrees, Version
    <3>. QED  BY <3>1, <3>2, <3>3 DEF CoreAgrees
  <2>5. QueueAgrees' /\ CurrentNeverDangles' /\ WalCoversSnapshots'
    BY <2>1 DEF CoreInv, QueueAgrees, EntryAgrees, CurrentNeverDangles, WalCoversSnapshots
  <2>6. RewriteInv' /\ PruneInv'
    BY <1>a, <2>1 DEF CoreInv, RewriteInv, PruneInv, Version
  <2>7. SwitchInv'
    BY <1>a, <2>1 DEF CoreInv, SwitchInv, Version, LastIndex
  <2>. QED  BY <2>3, <2>4, <2>5, <2>6, <2>7 DEF CoreInv
<1>. SUFFICES ASSUME CanCatchup(mtree, 0) PROVE CoreInv'
  BY <1>b
<1>c. tree' \in Seq(Data) /\ Agrees(tree') /\ Len(mtree) =< Len(tree')
  <2>1. TypeOK /\ LogAgrees /\ QueueAgrees /\ tree' = Catchup(mtree, 0)
    BY DEF CoreInv, CoreAgrees
  <2>. HIDE DEF Switch
  <2>. QED  BY <1>a, <2>1, CatchupAgrees
<1>d. Len(tree') \in Nat /\ walFirst =< Len(tree') + 1
  <2>1. Len(tree') \in Nat
    BY <1>c, LenProperties
  <2>2. walFirst =< Len(mtree) + 1
    BY <1>0, <1>a DEF ShapeFacts, CanCatchup, LastIndex
  <2>. QED  BY <1>0, <1>a, <1>c, <2>1, <2>2 DEF ShapeFacts
<1>e. current =< Version(tree') /\ Version(tree') \in Nat
  <2>1. Version(mtree) =< Version(tree')
    BY <1>a, <1>c, VersionOrder
  <2>2. Version(tree') \in Nat
    BY <1>d, ConstantsAssumption DEF Version, walVersion
  <2>. QED  BY <1>0, <1>a, <2>1, <2>2 DEF ShapeFacts
<1>f. /\ UNCHANGED <<linkVars, walVars, pending, err, writerVars, rewriter,
                     catchEnd, prunerVars, envVars, walChanSize>>
      /\ main' = "prune" /\ mtree' = <<>> /\ base' = current
  OBVIOUS
<1>g. Agrees(<<>>) /\ Len(<<>>) = 0
  BY <1>0, EmptySeq DEF ShapeFacts, Agrees
<1>. HIDE DEF Switch
<1>1. TypeOK'
  BY <1>0, <1>a, <1>c, <1>f DEF ShapeFacts, CoreInv, TypeOK
<1>2. CoreAgrees'
  <2>1. Agrees(tree)' /\ Agrees(mtree)'
    BY <1>c, <1>f, <1>g DEF CoreInv, CoreAgrees, Agrees
  <2>2. Agrees(snaps[current])' /\ rewriter' \notin {"symlink", "link"}
    BY <1>a, <1>f DEF CoreInv, CoreAgrees, Agrees
  <2>3. /\ \A v \in DOMAIN snaps' : Version(snaps[v])' = v /\ Len(snaps'[v]) =< MaxVersion
      /\ LogAgrees'
    BY <1>f DEF CoreInv, CoreAgrees, LogAgrees, Version
  <2>. QED  BY <2>1, <2>2, <2>3 DEF CoreAgrees
<1>3. QueueAgrees'
  BY <1>f DEF CoreInv, QueueAgrees, EntryAgrees
<1>4. CurrentNeverDangles' /\ WalCoversSnapshots'
  BY <1>f DEF CoreInv, CurrentNeverDangles, WalCoversSnapshots
<1>5. RewriteInv'
  BY <1>a, <1>d, <1>e, <1>f DEF CoreInv, RewriteInv, Version
<1>6. PruneInv'
  BY <1>a, <1>e, <1>f DEF CoreInv, PruneInv, Version
<1>7. SwitchInv'
  <2>1. Version(tree)' = Version(tree') /\ LastIndex' = LastIndex
    BY <1>f DEF Version, LastIndex
  <2>. QED  BY <1>a, <1>e, <1>f, <2>1 DEF CoreInv, SwitchInv
<1>. QED  BY <1>1, <1>2, <1>3, <1>4, <1>5, <1>6, <1>7 DEF CoreInv

\* Starting the prune goroutine keeps the invariant: the link it will read does
\* not name a version above the tree in use.
LEMMA PruneSnapshotsStep ==
    ASSUME CoreInv, PruneSnapshots
    PROVE  CoreInv'
<1>0. ShapeFacts
  BY CoreShape
<1>. USE DEF walVars, linkVars, mainVars, writerVars, rewriterVars, prunerVars, envVars, vars, PruneSnapshots, FinishCommit
<1>1. TypeOK'
  BY <1>0, ConstantsAssumption DEF CoreInv, TypeOK, ShapeFacts
<1>2. CoreAgrees'
  BY DEF CoreInv, CoreAgrees, LogAgrees, Agrees, Version
<1>3. QueueAgrees'
  BY DEF CoreInv, QueueAgrees, EntryAgrees
<1>4. CurrentNeverDangles' /\ WalCoversSnapshots'
  BY DEF CoreInv, CurrentNeverDangles, WalCoversSnapshots, RewriteInv
<1>5. RewriteInv'
  BY <1>0 DEF ShapeFacts, CoreInv, TypeOK, RewriteInv, CurrentNeverDangles, PruneInv, Version
<1>6. PruneInv'
  BY <1>0 DEF ShapeFacts, CoreInv, TypeOK, PruneInv, RewriteInv, CurrentNeverDangles, Version
<1>7. SwitchInv'
  BY <1>0 DEF ShapeFacts, CoreInv, TypeOK, SwitchInv, LastIndex, Version
<1>. QED  BY <1>1, <1>2, <1>3, <1>4, <1>5, <1>6, <1>7 DEF CoreInv

\* Taking a batch from the channel keeps the invariant.
LEMMA WriterRecvStep ==
    ASSUME CoreInv, WriterRecv
    PROVE  CoreInv'
<1>0. ShapeFacts
  BY CoreShape
<1>. USE DEF walVars, linkVars, mainVars, writerVars, rewriterVars, prunerVars, envVars, vars, WriterRecv
<1>1. TypeOK'
  BY DEF CoreInv, TypeOK
<1>2. CoreAgrees'
  BY DEF CoreInv, CoreAgrees, LogAgrees, Agrees, Version
<1>3. QueueAgrees'
  BY DEF CoreInv, QueueAgrees, EntryAgrees
<1>4. CurrentNeverDangles' /\ WalCoversSnapshots'
  BY DEF CoreInv, CurrentNeverDangles, WalCoversSnapshots, RewriteInv
<1>5. RewriteInv'
  BY <1>0 DEF ShapeFacts, CoreInv, TypeOK, RewriteInv, CurrentNeverDangles, PruneInv, Version
<1>6. PruneInv'
  BY <1>0 DEF ShapeFacts, CoreInv, TypeOK, PruneInv, RewriteInv, CurrentNeverDangles, Version
<1>7. SwitchInv'
  BY <1>0 DEF ShapeFacts, CoreInv, TypeOK, SwitchInv, LastIndex, Version
<1>. QED  BY <1>1, <1>2, <1>3, <1>4, <1>5, <1>6, <1>7 DEF CoreInv

\* Writing a batch appends exactly the decided blocks that follow the log.
LEMMA WriterWriteStep ==
    ASSUME CoreInv, WriterWrite
    PROVE  CoreInv'
<1>0. ShapeFacts
  BY CoreShape
<1>. USE DEF walVars, linkVars, mainVars, writerVars, rewriterVars, prunerVars, envVars, vars, WriterWrite
<1>a. PICK m \in 0 .. Len(batch) : Contiguous(batch, m) /\ AppendToWal(batch, m)
  OBVIOUS
<1>b. walLog \in Seq(Data) /\ batch \in Seq(WalEntry)
  BY DEF CoreInv, TypeOK
<1>c. /\ walLog' \in Seq(Data)
      /\ Len(walLog') = Len(walLog) + (Len(batch) - m)
      /\ \A k \in 1 .. Len(walLog) : walLog'[k] = walLog[k]
      /\ \A k \in 1 .. Len(batch) - m : walLog'[Len(walLog) + k] = batch[m + k].data
  BY <1>a, <1>b, LogGrows DEF AppendToWal
<1>d. /\ UNCHANGED <<linkVars, walFirst, mainVars, walChan, rewriterVars, prunerVars, envVars>>
      /\ writer' = "recv" /\ batch' = <<>>
  OBVIOUS
<1>. HIDE DEF WriterWrite
<1>e. ASSUME NEW k \in 1 .. Len(walLog')
      PROVE  walFirst + k - 1 =< Len(chain) /\ walLog'[k] = chain[walFirst + k - 1]
  <2>1. CASE k =< Len(walLog)
    BY <1>0, <1>c, <2>1 DEF ShapeFacts, CoreInv, CoreAgrees, LogAgrees
  <2>2. CASE k > Len(walLog)
    <3>. DEFINE j == k - Len(walLog)
    <3>1. /\ j \in 1 .. Len(batch) - m /\ m + j \in 1 .. Len(batch)
          /\ k = Len(walLog) + j
      <4>1. Len(walLog) \in Nat /\ Len(batch) \in Nat
        BY <1>0 DEF ShapeFacts
      <4>. QED  BY <1>c, <2>2, <4>1
    <3>6. walFirst \in Nat
      BY DEF CoreInv, TypeOK
    <3>2. batch[m + j].index = LastIndex + j /\ EntryAgrees(batch[m + j])
      BY <1>a, <3>1 DEF Contiguous, CoreInv, QueueAgrees
    <3>3. LastIndex + j = walFirst + k - 1
      BY <1>0, <3>1, <3>6 DEF ShapeFacts, LastIndex
    <3>4. walLog'[k] = batch[m + j].data
      <4>. HIDE DEF j
      <4>. QED  BY <1>c, <3>1
    <3>5. LastIndex + j \in 1 .. Len(chain) /\ batch[m + j].data = chain[LastIndex + j]
      BY <3>2 DEF EntryAgrees
    <3>. HIDE DEF j
    <3>. QED  BY <1>0, <3>3, <3>4, <3>5 DEF ShapeFacts
  <2>. QED  BY <1>0, <1>c, <2>1, <2>2 DEF ShapeFacts
<1>1. TypeOK'
  BY <1>0, <1>c, <1>d DEF ShapeFacts, CoreInv, TypeOK
<1>2. CoreAgrees'
  BY <1>d, <1>e DEF CoreInv, CoreAgrees, LogAgrees, Agrees, Version
<1>3. QueueAgrees'
  BY <1>d DEF CoreInv, QueueAgrees, EntryAgrees
<1>4. CurrentNeverDangles' /\ WalCoversSnapshots'
  BY <1>d DEF CoreInv, CurrentNeverDangles, WalCoversSnapshots
<1>5. RewriteInv'
  BY <1>d DEF CoreInv, RewriteInv, Version
<1>6. PruneInv'
  BY <1>d DEF CoreInv, PruneInv, Version
<1>7. SwitchInv'
  <2>1. LastIndex \in Nat /\ LastIndex' \in Nat /\ LastIndex =< LastIndex'
    <3>1. Len(walLog) \in Nat /\ Len(batch) \in Nat /\ walFirst \in Nat \ {0}
      BY <1>0 DEF ShapeFacts, CoreInv, TypeOK
    <3>. QED  BY <1>c, <1>d, <3>1 DEF LastIndex
  <2>2. Len(mtree) \in Nat /\ catchEnd \in Nat
    BY <1>0 DEF ShapeFacts, CoreInv, TypeOK
  <2>3. (Len(mtree) =< LastIndex => Len(mtree) =< LastIndex') /\ (catchEnd =< LastIndex => catchEnd =< LastIndex')
    BY <2>1, <2>2
  <2>. QED  BY <1>d, <2>3 DEF CoreInv, SwitchInv, Version
<1>. QED  BY <1>1, <1>2, <1>3, <1>4, <1>5, <1>6, <1>7 DEF CoreInv

\* A failed batch write keeps the invariant.
LEMMA WriterFailStep ==
    ASSUME CoreInv, WriterFail
    PROVE  CoreInv'
<1>0. ShapeFacts
  BY CoreShape
<1>. USE DEF walVars, linkVars, mainVars, writerVars, rewriterVars, prunerVars, envVars, vars, WriterFail
<1>1. TypeOK'
  BY <1>0, ConstantsAssumption DEF CoreInv, TypeOK, ShapeFacts
<1>2. CoreAgrees'
  BY DEF CoreInv, CoreAgrees, LogAgrees, Agrees, Version
<1>3. QueueAgrees'
  BY DEF CoreInv, QueueAgrees, EntryAgrees
<1>4. CurrentNeverDangles' /\ WalCoversSnapshots'
  BY DEF CoreInv, CurrentNeverDangles, WalCoversSnapshots, RewriteInv
<1>5. RewriteInv'
  BY <1>0 DEF ShapeFacts, CoreInv, TypeOK, RewriteInv, CurrentNeverDangles, PruneInv, Version
<1>6. PruneInv'
  BY <1>0 DEF ShapeFacts, CoreInv, TypeOK, PruneInv, RewriteInv, CurrentNeverDangles, Version
<1>7. SwitchInv'
  BY <1>0 DEF ShapeFacts, CoreInv, TypeOK, SwitchInv, LastIndex, Version
<1>. QED  BY <1>1, <1>2, <1>3, <1>4, <1>5, <1>6, <1>7 DEF CoreInv

\* The end of the WAL writer keeps the invariant.
LEMMA WriterEndStep ==
    ASSUME CoreInv, WriterEnd
    PROVE  CoreInv'
<1>0. ShapeFacts
  BY CoreShape
<1>. USE DEF walVars, linkVars, mainVars, writerVars, rewriterVars, prunerVars, envVars, vars, WriterEnd
<1>1. TypeOK'
  BY <1>0, ConstantsAssumption DEF CoreInv, TypeOK, ShapeFacts
<1>2. CoreAgrees'
  BY DEF CoreInv, CoreAgrees, LogAgrees, Agrees, Version
<1>3. QueueAgrees'
  BY DEF CoreInv, QueueAgrees, EntryAgrees
<1>4. CurrentNeverDangles' /\ WalCoversSnapshots'
  BY DEF CoreInv, CurrentNeverDangles, WalCoversSnapshots, RewriteInv
<1>5. RewriteInv'
  BY <1>0 DEF ShapeFacts, CoreInv, TypeOK, RewriteInv, CurrentNeverDangles, PruneInv, Version
<1>6. PruneInv'
  BY <1>0 DEF ShapeFacts, CoreInv, TypeOK, PruneInv, RewriteInv, CurrentNeverDangles, Version
<1>7. SwitchInv'
  BY <1>0 DEF ShapeFacts, CoreInv, TypeOK, SwitchInv, LastIndex, Version
<1>. QED  BY <1>1, <1>2, <1>3, <1>4, <1>5, <1>6, <1>7 DEF CoreInv

\* Writing the temporary snapshot directory keeps the invariant.
LEMMA RewriteWriteStep ==
    ASSUME CoreInv, RewriteWrite
    PROVE  CoreInv'
<1>0. ShapeFacts
  BY CoreShape
<1>. USE DEF walVars, linkVars, mainVars, writerVars, rewriterVars, prunerVars, envVars, vars, RewriteWrite, RewriterUnchanged
<1>a. tmps' \subseteq Nat
  BY <1>0 DEF ShapeFacts, CoreInv, TypeOK
<1>1. TypeOK'
  BY <1>a DEF CoreInv, TypeOK
<1>2. CoreAgrees'
  BY DEF CoreInv, CoreAgrees, LogAgrees, Agrees, Version
<1>3. QueueAgrees'
  BY DEF CoreInv, QueueAgrees, EntryAgrees
<1>4. CurrentNeverDangles' /\ WalCoversSnapshots'
  BY DEF CoreInv, CurrentNeverDangles, WalCoversSnapshots, RewriteInv
<1>5. RewriteInv'
  BY <1>0 DEF ShapeFacts, CoreInv, TypeOK, RewriteInv, CurrentNeverDangles, PruneInv, Version
<1>6. PruneInv'
  BY <1>0 DEF ShapeFacts, CoreInv, TypeOK, PruneInv, RewriteInv, CurrentNeverDangles, Version
<1>7. SwitchInv'
  BY <1>0 DEF ShapeFacts, CoreInv, TypeOK, SwitchInv, LastIndex, Version
<1>. QED  BY <1>1, <1>2, <1>3, <1>4, <1>5, <1>6, <1>7 DEF CoreInv

\* Publishing the snapshot directory keeps the invariant, also while the prune
\* goroutine is about to truncate the WAL.
LEMMA RewriteRenameStep ==
    ASSUME CoreInv, RewriteRename
    PROVE  CoreInv'
<1>0. ShapeFacts
  BY CoreShape
<1>. USE DEF walVars, linkVars, mainVars, writerVars, rewriterVars, prunerVars, envVars, vars, RewriteRename, RewriterUnchanged
<1>a. Version(mtree) \in Nat /\ mtree \in Seq(Data)
  BY <1>0 DEF ShapeFacts, CoreInv, TypeOK
<1>1. TypeOK'
  <2>1. TypeOK /\ tmps' \subseteq Nat /\ rewriter' \in {"closed", "symlink"}
    BY DEF CoreInv, TypeOK
  <2>2. /\ DOMAIN snaps' \subseteq Nat
        /\ \A v \in DOMAIN snaps' : snaps'[v] \in Seq(Data)
    <3>1. CASE Version(mtree) \in DOMAIN snaps
      BY <2>1, <3>1 DEF TypeOK
    <3>2. CASE Version(mtree) \notin DOMAIN snaps
      <4>1. /\ DOMAIN snaps' = DOMAIN snaps \cup {Version(mtree)}
            /\ \A v \in DOMAIN snaps' : snaps'[v] = IF v = Version(mtree) THEN mtree ELSE snaps[v]
        BY <3>2
      <4>. HIDE DEF RewriteRename
      <4>. QED  BY <1>a, <2>1, <4>1 DEF TypeOK
    <3>. QED  BY <3>1, <3>2
  <2>3. UNCHANGED <<current, curTmp, mtree, catchEnd, walVars, mainVars, writerVars,
                    prunerVars, envVars>>
    OBVIOUS
  <2>. HIDE DEF RewriteRename
  <2>. QED  BY <2>1, <2>2, <2>3 DEF TypeOK
<1>b. Len(mtree) =< MaxVersion
  <2>. HIDE DEF RewriteRename
  <2>1. Len(mtree) =< Len(chain) /\ Len(chain) =< MaxVersion
    BY <1>0 DEF ShapeFacts
  <2>2. Len(mtree) \in Nat /\ Len(chain) \in Nat /\ MaxVersion \in Nat
    BY <1>0, ConstantsAssumption DEF ShapeFacts
  <2>. QED  BY <2>1, <2>2
<1>2. CoreAgrees'
  BY <1>b DEF CoreInv, CoreAgrees, LogAgrees, Agrees, Version, CurrentNeverDangles
<1>3. QueueAgrees'
  BY DEF CoreInv, QueueAgrees, EntryAgrees
<1>4. CurrentNeverDangles' /\ WalCoversSnapshots'
  BY DEF CoreInv, CurrentNeverDangles, WalCoversSnapshots, RewriteInv
<1>5. RewriteInv'
  BY <1>0 DEF ShapeFacts, CoreInv, TypeOK, RewriteInv, CurrentNeverDangles, PruneInv, Version
<1>6. PruneInv'
  <2>1. current \in Nat /\ earliest \in Nat /\ current \in DOMAIN snaps
    BY DEF CoreInv, TypeOK, CurrentNeverDangles
  <2>2. pruner # "off" => current =< Version(mtree)
    BY DEF CoreInv, PruneInv
  <2>3. pruner = "truncate" => earliest =< Version(mtree)
    BY <1>a, <2>1, <2>2 DEF CoreInv, PruneInv
  <2>. QED  BY <2>2, <2>3 DEF CoreInv, PruneInv
<1>7. SwitchInv'
  BY <1>0 DEF ShapeFacts, CoreInv, TypeOK, SwitchInv, LastIndex, Version
<1>. QED  BY <1>1, <1>2, <1>3, <1>4, <1>5, <1>6, <1>7 DEF CoreInv

\* Creating the temporary link keeps the invariant.
LEMMA RewriteSymlinkStep ==
    ASSUME CoreInv, RewriteSymlink
    PROVE  CoreInv'
<1>0. ShapeFacts
  BY CoreShape
<1>. USE DEF walVars, linkVars, mainVars, writerVars, rewriterVars, prunerVars, envVars, vars, RewriteSymlink, RewriterUnchanged
<1>1. TypeOK'
  BY DEF CoreInv, TypeOK
<1>2. CoreAgrees'
  BY DEF CoreInv, CoreAgrees, LogAgrees, Agrees, Version
<1>3. QueueAgrees'
  BY DEF CoreInv, QueueAgrees, EntryAgrees
<1>4. CurrentNeverDangles' /\ WalCoversSnapshots'
  BY DEF CoreInv, CurrentNeverDangles, WalCoversSnapshots, RewriteInv
<1>5. RewriteInv'
  BY <1>0 DEF ShapeFacts, CoreInv, TypeOK, RewriteInv, CurrentNeverDangles, PruneInv, Version
<1>6. PruneInv'
  BY <1>0 DEF ShapeFacts, CoreInv, TypeOK, PruneInv, RewriteInv, CurrentNeverDangles, Version
<1>7. SwitchInv'
  BY <1>0 DEF ShapeFacts, CoreInv, TypeOK, SwitchInv, LastIndex, Version
<1>. QED  BY <1>1, <1>2, <1>3, <1>4, <1>5, <1>6, <1>7 DEF CoreInv

\* Moving the current link keeps the invariant: it never moves back below what
\* the prune goroutine has read.
LEMMA RewriteLinkStep ==
    ASSUME CoreInv, RewriteLink
    PROVE  CoreInv'
<1>0. ShapeFacts
  BY CoreShape
<1>. USE DEF walVars, linkVars, mainVars, writerVars, rewriterVars, prunerVars, envVars, vars, RewriteLink, RewriterUnchanged
<1>a. curTmp' \in BOOLEAN
  BY Zenon
<1>b. Version(mtree) \in Nat
  BY <1>0 DEF ShapeFacts
<1>1. TypeOK'
  BY <1>a, <1>b DEF CoreInv, TypeOK
<1>2. CoreAgrees'
  BY DEF CoreInv, CoreAgrees, LogAgrees, Agrees, Version
<1>3. QueueAgrees'
  BY DEF CoreInv, QueueAgrees, EntryAgrees
<1>4. CurrentNeverDangles' /\ WalCoversSnapshots'
  BY DEF CoreInv, CurrentNeverDangles, WalCoversSnapshots, RewriteInv
<1>5. RewriteInv'
  BY <1>0 DEF ShapeFacts, CoreInv, TypeOK, RewriteInv, CurrentNeverDangles, PruneInv, Version
<1>6. PruneInv'
  <2>1. current \in Nat /\ cutoff \in Nat /\ Version(mtree) \in Nat /\ Version(tree) \in Nat
    BY <1>0 DEF ShapeFacts, CoreInv, TypeOK
  <2>2. pruner # "off" => current =< Version(mtree)
    BY DEF CoreInv, PruneInv
  <2>3. Version(mtree) =< Version(tree)
    BY VersionOrder DEF CoreInv, TypeOK, RewriteInv
  <2>. QED  BY <2>1, <2>2, <2>3 DEF CoreInv, PruneInv
<1>7. SwitchInv'
  BY <1>0 DEF ShapeFacts, CoreInv, TypeOK, SwitchInv, LastIndex, Version
<1>. QED  BY <1>1, <1>2, <1>3, <1>4, <1>5, <1>6, <1>7 DEF CoreInv

\* Loading the new snapshot back keeps the invariant.
LEMMA RewriteLoadStep ==
    ASSUME CoreInv, RewriteLoad
    PROVE  CoreInv'
<1>0. ShapeFacts
  BY CoreShape
<1>. USE DEF walVars, linkVars, mainVars, writerVars, rewriterVars, prunerVars, envVars, vars, RewriteLoad, RewriterUnchanged
<1>a. /\ current \in DOMAIN snaps /\ snaps[current] \in Seq(Data)
      /\ Version(snaps[current]) = current /\ current \in Nat
  BY CoreSnapShape DEF CoreInv, CurrentNeverDangles
<1>b. mtree' = snaps[current] /\ catchEnd' \in Nat
  BY <1>0 DEF ShapeFacts
<1>1. TypeOK'
  BY <1>a, <1>b DEF CoreInv, TypeOK
<1>2. CoreAgrees'
  BY <1>a, <1>b DEF CoreInv, CoreAgrees, LogAgrees, Agrees, Version
<1>3. QueueAgrees'
  BY DEF CoreInv, QueueAgrees, EntryAgrees
<1>4. CurrentNeverDangles' /\ WalCoversSnapshots'
  BY DEF CoreInv, CurrentNeverDangles, WalCoversSnapshots, RewriteInv
<1>5. RewriteInv'
  BY <1>a, <1>b DEF CoreInv, RewriteInv, Version
<1>6. PruneInv'
  BY <1>0 DEF ShapeFacts, CoreInv, TypeOK, PruneInv, RewriteInv, CurrentNeverDangles, Version
<1>7. SwitchInv'
  <2>1. current = Version(mtree) /\ mtree \in Seq(Data)
    BY DEF CoreInv, TypeOK, RewriteInv
  <2>2. Len(mtree') = Len(mtree)
    BY <1>a, <1>b, <2>1, VersionOrder
  <2>3. Version(mtree)' = Version(mtree) /\ LastIndex' = LastIndex /\ Version(tree)' = Version(tree)
    BY <2>2 DEF Version, LastIndex
  <2>4. LastIndex =< LastIndex
    BY <1>0 DEF ShapeFacts
  <2>. QED  BY <2>2, <2>3, <2>4 DEF CoreInv, SwitchInv
<1>. QED  BY <1>1, <1>2, <1>3, <1>4, <1>5, <1>6, <1>7 DEF CoreInv

\* One step of the best-effort catch-up keeps the invariant.
LEMMA RewriteCatchupStep ==
    ASSUME CoreInv, RewriteCatchup
    PROVE  CoreInv'
<1>0. ShapeFacts
  BY CoreShape
<1>. USE DEF walVars, linkVars, mainVars, writerVars, rewriterVars, prunerVars, envVars, vars, RewriteCatchup, RewriterUnchanged
<1>a. mtree \in Seq(Data) /\ walFirst \in Nat \ {0} /\ walLog \in Seq(Data)
  BY DEF CoreInv, TypeOK
<1>b. mtree' \in Seq(Data) /\ Agrees(mtree') /\ Len(mtree) =< Len(mtree')
  <2>1. CASE mtree' = mtree
    BY <1>0, <1>a, <2>1 DEF ShapeFacts, CoreInv, CoreAgrees
  <2>2. CASE mtree' # mtree
    <3>. DEFINE j == CatchupFirst(mtree) - walFirst + 1
    <3>1. Readable(CatchupFirst(mtree)) /\ mtree' = Append(mtree, walLog[j])
      BY <2>2
    <3>2. j \in 1 .. Len(walLog) /\ walFirst + j - 1 = Len(mtree) + 1
      BY <1>0, <1>a, <3>1 DEF ShapeFacts, Readable, LastIndex
    <3>3. walLog[j] \in Data
      BY <1>a, <3>2, ElementOfSeq
    <3>4. walLog[j] = chain[Len(mtree) + 1] /\ Len(mtree) + 1 =< Len(chain)
      <4>1. walFirst + j - 1 =< Len(chain) /\ walLog[j] = chain[walFirst + j - 1]
        BY <3>2 DEF CoreInv, CoreAgrees, LogAgrees
      <4>. QED  BY <3>2, <4>1
    <3>. HIDE DEF j
    <3>5. /\ mtree' \in Seq(Data) /\ Len(mtree') = Len(mtree) + 1
          /\ \A i \in 1 .. Len(mtree) : mtree'[i] = mtree[i]
          /\ mtree'[Len(mtree) + 1] = walLog[j]
      BY <1>a, <3>1, <3>3, AppendProperties
    <3>6. ASSUME NEW i \in 1 .. Len(mtree) + 1 PROVE mtree'[i] = chain[i]
      <4>1. i \in 1 .. Len(mtree) \/ i = Len(mtree) + 1
        BY <1>0 DEF ShapeFacts
      <4>. QED  BY <3>4, <3>5, <4>1 DEF CoreInv, CoreAgrees, Agrees
    <3>. HIDE DEF RewriteCatchup
    <3>. QED  BY <1>0, <3>4, <3>5, <3>6 DEF ShapeFacts, Agrees
  <2>. QED  BY <2>1, <2>2
<1>c. /\ UNCHANGED <<linkVars, walVars, mainVars, writerVars, prunerVars, envVars>>
      /\ rewriter = "catchup" /\ rewriter' \in {"result", "catchup", "error"}
      /\ catchEnd' \in Nat
  BY DEF CoreInv, TypeOK
<1>f. mtree' = mtree \/ Len(mtree') =< LastIndex
  <2>. SUFFICES ASSUME mtree' # mtree PROVE Len(mtree') =< LastIndex
    OBVIOUS
  <2>1. Readable(CatchupFirst(mtree)) /\ Len(mtree') = Len(mtree) + 1
    BY <1>a
  <2>. QED  BY <1>0, <1>a, <2>1 DEF ShapeFacts, Readable
<1>g. rewriter' = "catchup" => catchEnd' = catchEnd
  OBVIOUS
<1>. HIDE DEF RewriteCatchup
<1>d. Version(mtree) =< Version(mtree') /\ Version(mtree') \in Nat
  <2>1. Len(mtree') \in Nat
    BY <1>b, LenProperties
  <2>. QED  BY <1>a, <1>b, <2>1, VersionOrder, ConstantsAssumption DEF Version, walVersion
<1>e. current =< Version(mtree')
  <2>1. current =< Version(mtree) /\ current \in Nat
    BY <1>c DEF CoreInv, TypeOK, RewriteInv
  <2>. QED  BY <1>0, <1>d, <2>1 DEF ShapeFacts
<1>1. TypeOK'
  BY <1>b, <1>c DEF CoreInv, TypeOK
<1>2. CoreAgrees'
  BY <1>b, <1>c DEF CoreInv, CoreAgrees, LogAgrees, Agrees, Version
<1>3. QueueAgrees'
  BY <1>c DEF CoreInv, QueueAgrees, EntryAgrees
<1>4. CurrentNeverDangles' /\ WalCoversSnapshots'
  BY <1>c DEF CoreInv, CurrentNeverDangles, WalCoversSnapshots
<1>5. RewriteInv'
  <2>. HIDE DEF Version
  <2>1. Version(tree)' = Version(tree) /\ Version(mtree)' = Version(mtree')
    BY <1>c DEF Version
  <2>. QED  BY <1>c, <1>e, <2>1 DEF CoreInv, RewriteInv
<1>6. PruneInv'
  BY <1>c DEF CoreInv, PruneInv, Version
<1>7. SwitchInv'
  <2>1. /\ base \in Nat /\ base =< Version(mtree) /\ catchEnd =< LastIndex
        /\ Len(mtree) =< Len(tree) \/ Len(mtree) =< LastIndex
    BY <1>c DEF CoreInv, TypeOK, SwitchInv
  <2>2. base =< Version(mtree')
    BY <1>0, <1>d, <2>1 DEF ShapeFacts
  <2>3. Len(mtree') =< Len(tree) \/ Len(mtree') =< LastIndex
    BY <1>f, <2>1
  <2>4. /\ Version(mtree)' = Version(mtree') /\ Version(tree)' = Version(tree)
        /\ LastIndex' = LastIndex
    BY <1>c DEF Version, LastIndex
  <2>. HIDE DEF Version
  <2>. QED  BY <1>c, <1>g, <2>1, <2>2, <2>3, <2>4 DEF CoreInv, SwitchInv
<1>. QED  BY <1>1, <1>2, <1>3, <1>4, <1>5, <1>6, <1>7 DEF CoreInv

\* Reading the current link keeps the invariant.
LEMMA PruneCurrentStep ==
    ASSUME CoreInv, PruneCurrent
    PROVE  CoreInv'
<1>0. ShapeFacts
  BY CoreShape
<1>. USE DEF walVars, linkVars, mainVars, writerVars, rewriterVars, prunerVars, envVars, vars, PruneCurrent
<1>1. TypeOK'
  BY <1>0, ConstantsAssumption DEF CoreInv, TypeOK, ShapeFacts
<1>2. CoreAgrees'
  BY DEF CoreInv, CoreAgrees, LogAgrees, Agrees, Version
<1>3. QueueAgrees'
  BY DEF CoreInv, QueueAgrees, EntryAgrees
<1>4. CurrentNeverDangles' /\ WalCoversSnapshots'
  BY DEF CoreInv, CurrentNeverDangles, WalCoversSnapshots, RewriteInv
<1>5. RewriteInv'
  BY <1>0 DEF ShapeFacts, CoreInv, TypeOK, RewriteInv, CurrentNeverDangles, PruneInv, Version
<1>6. PruneInv'
  BY <1>0 DEF ShapeFacts, CoreInv, TypeOK, PruneInv, RewriteInv, CurrentNeverDangles, Version
<1>7. SwitchInv'
  BY <1>0 DEF ShapeFacts, CoreInv, TypeOK, SwitchInv, LastIndex, Version
<1>. QED  BY <1>1, <1>2, <1>3, <1>4, <1>5, <1>6, <1>7 DEF CoreInv

\* Listing the snapshots to remove keeps the invariant.
LEMMA PruneListStep ==
    ASSUME CoreInv, PruneList
    PROVE  CoreInv'
<1>0. ShapeFacts
  BY CoreShape
<1>. USE DEF walVars, linkVars, mainVars, writerVars, rewriterVars, prunerVars, envVars, vars, PruneList, Victims
<1>1. TypeOK'
  BY <1>0, ConstantsAssumption DEF CoreInv, TypeOK, ShapeFacts
<1>2. CoreAgrees'
  BY DEF CoreInv, CoreAgrees, LogAgrees, Agrees, Version
<1>3. QueueAgrees'
  BY DEF CoreInv, QueueAgrees, EntryAgrees
<1>4. CurrentNeverDangles' /\ WalCoversSnapshots'
  BY DEF CoreInv, CurrentNeverDangles, WalCoversSnapshots, RewriteInv
<1>5. RewriteInv'
  BY <1>0 DEF ShapeFacts, CoreInv, TypeOK, RewriteInv, CurrentNeverDangles, PruneInv, Version
<1>6. PruneInv'
  BY <1>0 DEF ShapeFacts, CoreInv, TypeOK, PruneInv, RewriteInv, CurrentNeverDangles, Version
<1>7. SwitchInv'
  BY <1>0 DEF ShapeFacts, CoreInv, TypeOK, SwitchInv, LastIndex, Version
<1>. QED  BY <1>1, <1>2, <1>3, <1>4, <1>5, <1>6, <1>7 DEF CoreInv

\* Removing a snapshot keeps the invariant: it is neither the one the link names
\* nor the one the rewrite goroutine is about to link.
LEMMA PruneRemoveStep ==
    ASSUME CoreInv, PruneRemove
    PROVE  CoreInv'
<1>0. ShapeFacts
  BY CoreShape
<1>. USE DEF walVars, linkVars, mainVars, writerVars, rewriterVars, prunerVars, envVars, vars, PruneRemove
<1>a. PICK v \in todo :
          /\ todo' = todo \ {v}
          /\ snaps' = IF v \in tmps THEN snaps ELSE [w \in DOMAIN snaps \ {v} |-> snaps[w]]
  OBVIOUS
<1>b. /\ DOMAIN snaps' \subseteq DOMAIN snaps
      /\ \A w \in DOMAIN snaps' : snaps'[w] = snaps[w]
      /\ \A w \in DOMAIN snaps : w # v => w \in DOMAIN snaps'
  BY <1>a
<1>c. v < current /\ v \in Nat
  <2>1. v \in Nat /\ cutoff \in Nat /\ current \in Nat
    BY <1>a DEF CoreInv, TypeOK
  <2>2. v < cutoff /\ cutoff =< current
    BY <1>a DEF CoreInv, PruneInv
  <2>. QED  BY <2>1, <2>2
<1>d. rewriter \in {"symlink", "link"} => Version(mtree) # v
  <2>1. rewriter \in {"symlink", "link"} => current =< Version(mtree)
    BY DEF CoreInv, PruneInv
  <2>2. Version(mtree) \in Nat /\ current \in Nat
    BY <1>0 DEF ShapeFacts, CoreInv, TypeOK
  <2>. QED  BY <1>c, <2>1, <2>2
<1>1. TypeOK'
  <2>1. UNCHANGED <<current, curTmp, tmps, walVars, mainVars, writerVars,
                    rewriterVars, pruner, cutoff, earliest, envVars>>
    OBVIOUS
  <2>. HIDE DEF PruneRemove
  <2>2. /\ DOMAIN snaps' \subseteq Nat /\ todo' \subseteq Nat
        /\ \A w \in DOMAIN snaps' : snaps'[w] \in Seq(Data)
    BY <1>a, <1>b DEF CoreInv, TypeOK
  <2>. QED  BY <2>1, <2>2 DEF CoreInv, TypeOK
<1>2. CoreAgrees'
  <2>1. current \in DOMAIN snaps' /\ snaps'[current] = snaps[current]
    BY <1>b, <1>c DEF CoreInv, TypeOK, CurrentNeverDangles
  <2>2. rewriter \in {"symlink", "link"} =>
           snaps'[Version(mtree)] = snaps[Version(mtree)]
    BY <1>b, <1>d DEF CoreInv, RewriteInv
  <2>. QED  BY <1>b, <2>1, <2>2 DEF CoreInv, CoreAgrees, LogAgrees, Agrees, Version
<1>3. QueueAgrees'
  BY DEF CoreInv, QueueAgrees, EntryAgrees
<1>4. CurrentNeverDangles' /\ WalCoversSnapshots'
  <2>1. current' = current /\ walFirst' = walFirst /\ current \in Nat
    BY DEF CoreInv, TypeOK
  <2>. HIDE DEF PruneRemove
  <2>2. current # v
    BY <1>c, <2>1
  <2>3. CurrentNeverDangles'
    BY <1>b, <2>1, <2>2 DEF CoreInv, CurrentNeverDangles
  <2>4. WalCoversSnapshots'
    BY <1>b, <2>1 DEF CoreInv, WalCoversSnapshots
  <2>. QED  BY <2>3, <2>4
<1>5. RewriteInv'
  BY <1>b, <1>d DEF CoreInv, RewriteInv, Version
<1>6. PruneInv'
  BY <1>a, <1>b DEF CoreInv, PruneInv, Version
<1>7. SwitchInv'
  BY <1>0 DEF ShapeFacts, CoreInv, TypeOK, SwitchInv, LastIndex, Version
<1>. QED  BY <1>1, <1>2, <1>3, <1>4, <1>5, <1>6, <1>7 DEF CoreInv

\* Looking up the earliest snapshot keeps the invariant.
LEMMA PruneFirstStep ==
    ASSUME CoreInv, PruneFirst
    PROVE  CoreInv'
<1>0. ShapeFacts
  BY CoreShape
<1>. USE DEF walVars, linkVars, mainVars, writerVars, rewriterVars, prunerVars, envVars, vars, PruneFirst
<1>1. TypeOK'
  BY DEF CoreInv, TypeOK
<1>2. CoreAgrees'
  BY DEF CoreInv, CoreAgrees, LogAgrees, Agrees, Version
<1>3. QueueAgrees'
  BY DEF CoreInv, QueueAgrees, EntryAgrees
<1>4. CurrentNeverDangles' /\ WalCoversSnapshots'
  BY DEF CoreInv, CurrentNeverDangles, WalCoversSnapshots, RewriteInv
<1>5. RewriteInv'
  BY <1>0 DEF ShapeFacts, CoreInv, TypeOK, RewriteInv, CurrentNeverDangles, PruneInv, Version
<1>6. PruneInv'
  <2>1. PICK v \in DOMAIN snaps : earliest' = v /\ \A w \in DOMAIN snaps : v =< w
    OBVIOUS
  <2>2. v = 0 \/ v >= InitialVersion
    <3>1. Len(snaps[v]) \in Nat /\ Version(snaps[v]) = v
      BY CoreSnapShape
    <3>. QED  BY <3>1, ConstantsAssumption DEF Version, walVersion
  <2>. QED  BY <2>1, <2>2 DEF CoreInv, PruneInv
<1>7. SwitchInv'
  BY <1>0 DEF ShapeFacts, CoreInv, TypeOK, SwitchInv, LastIndex, Version
<1>. QED  BY <1>1, <1>2, <1>3, <1>4, <1>5, <1>6, <1>7 DEF CoreInv

\* Truncating the front of the WAL keeps the invariant: the entries after every
\* snapshot, and after the tree being written, stay.
LEMMA PruneTruncateStep ==
    ASSUME CoreInv, PruneTruncate
    PROVE  CoreInv'
<1>0. ShapeFacts
  BY CoreShape
<1>. USE DEF walVars, linkVars, mainVars, writerVars, rewriterVars, prunerVars, envVars, vars, PruneTruncate
<1>. DEFINE i == walIndex(earliest + 1)
<1>a. /\ UNCHANGED <<linkVars, mainVars, writerVars, rewriterVars, todo, envVars>>
      /\ pruner = "truncate" /\ pruner' = "off" /\ cutoff' = 0 /\ earliest' = 0
  OBVIOUS
<1>b. \/ UNCHANGED walVars
      \/ /\ Readable(i) /\ walFirst' = i
         /\ walLog' = SubSeq(walLog, i - walFirst + 1, Len(walLog))
  OBVIOUS
<1>. HIDE DEF PruneTruncate
<1>c. walFirst \in Nat \ {0} /\ walLog \in Seq(Data) /\ earliest \in Nat /\ current \in Nat
  BY DEF CoreInv, TypeOK
<1>d. /\ earliest = 0 \/ earliest >= InitialVersion
      /\ \A v \in DOMAIN snaps : earliest =< v
      /\ current =< Version(tree) /\ earliest =< current
      /\ rewriter \in {"write", "rename"} => current =< Version(mtree)
  BY <1>a DEF CoreInv, PruneInv, CurrentNeverDangles
<1>e. CASE UNCHANGED walVars
  <2>1. TypeOK' /\ CoreAgrees' /\ QueueAgrees'
    BY <1>a, <1>e DEF CoreInv, TypeOK, CoreAgrees, LogAgrees, QueueAgrees, EntryAgrees, Agrees, Version
  <2>2. CurrentNeverDangles' /\ WalCoversSnapshots' /\ RewriteInv' /\ PruneInv'
    BY <1>a, <1>e DEF CoreInv, CurrentNeverDangles, WalCoversSnapshots, RewriteInv, PruneInv, Version
  <2>3. SwitchInv'
    BY <1>a, <1>e DEF CoreInv, SwitchInv, Version, LastIndex
  <2>. QED  BY <2>1, <2>2, <2>3 DEF CoreInv
<1>. SUFFICES ASSUME Readable(i), walFirst' = i,
                     walLog' = SubSeq(walLog, i - walFirst + 1, Len(walLog))
              PROVE  CoreInv'
  BY <1>b, <1>e
<1>. HIDE DEF i
<1>f. /\ i \in Nat \ {0} /\ walFirst =< i /\ i =< LastIndex /\ LastIndex =< Len(chain)
      /\ i =< MaxVersion
  <2>1. /\ LastIndex \in Nat /\ Len(chain) \in Nat /\ Len(chain) =< MaxVersion
        /\ MaxVersion \in Nat /\ Len(walLog) \in Nat
        /\ LastIndex =< Len(chain) \/ Len(walLog) = 0
    BY <1>0, ConstantsAssumption DEF ShapeFacts
  <2>2. i \in walFirst .. LastIndex
    BY DEF Readable
  <2>3. Len(walLog) # 0
    BY <1>c, <2>1, <2>2 DEF LastIndex
  <2>. QED  BY <1>c, <2>1, <2>2, <2>3
<1>g. /\ walLog' \in Seq(Data) /\ Len(walLog') = Len(walLog) - (i - walFirst)
      /\ \A k \in 1 .. Len(walLog') : walLog'[k] = walLog[(i - walFirst) + k]
  <2>1. i - walFirst + 1 \in Nat \ {0} /\ i - walFirst + 1 =< Len(walLog) /\ Len(walLog) \in Int
    BY <1>0, <1>c, <1>f DEF ShapeFacts, LastIndex
  <2>. DEFINE a == i - walFirst + 1
  <2>2. /\ SubSeq(walLog, a, Len(walLog)) \in Seq(Data)
        /\ Len(SubSeq(walLog, a, Len(walLog))) = Len(walLog) - a + 1
        /\ \A k \in 1 .. Len(walLog) - a + 1 : SubSeq(walLog, a, Len(walLog))[k] = walLog[a + k - 1]
    <3>. HIDE DEF a
    <3>1. a \in Nat \ {0} /\ a =< Len(walLog)
      BY <2>1 DEF a
    <3>. QED  BY <1>c, <2>1, <3>1, SubSeqOfLog
  <2>3. walLog' \in Seq(Data) /\ Len(walLog') = Len(walLog) - a + 1
    BY <2>2
  <2>4. ASSUME NEW k \in 1 .. Len(walLog') PROVE walLog'[k] = walLog[(i - walFirst) + k]
    <3>1. k \in 1 .. Len(walLog) - a + 1
      BY <2>3
    <3>2. a + k - 1 = (i - walFirst) + k
      BY <1>c, <1>f, <2>1, <3>1
    <3>3. walLog'[k] = walLog[a + k - 1]
      BY <2>2, <3>1
    <3>. QED  BY <3>2, <3>3
  <2>. QED  BY <1>c, <1>f, <2>1, <2>3, <2>4
<1>h. ASSUME NEW t \in Seq(Data), Len(t) =< MaxVersion, earliest =< Version(t)
      PROVE  i =< Len(t) + 1
  BY <1>c, <1>d, <1>f, <1>h, TruncateIndex DEF i
<1>1. TypeOK'
  BY <1>a, <1>f, <1>g DEF CoreInv, TypeOK
<1>2. CoreAgrees'
  <2>1. ASSUME NEW k \in 1 .. Len(walLog')
        PROVE  i + k - 1 =< Len(chain) /\ walLog'[k] = chain[i + k - 1]
    <3>. DEFINE j == (i - walFirst) + k
    <3>1. j \in 1 .. Len(walLog) /\ walFirst + j - 1 = i + k - 1
      <4>1. Len(walLog) \in Nat /\ Len(walLog') = Len(walLog) - (i - walFirst)
        BY <1>0, <1>g DEF ShapeFacts
      <4>. QED  BY <1>c, <1>f, <4>1
    <3>2. walLog'[k] = walLog[j]
      BY <1>g
    <3>. HIDE DEF j
    <3>3. walFirst + j - 1 =< Len(chain) /\ walLog[j] = chain[walFirst + j - 1]
      BY <3>1 DEF CoreInv, CoreAgrees, LogAgrees
    <3>. QED  BY <3>1, <3>2, <3>3
  <2>. QED  BY <1>a, <2>1 DEF CoreInv, CoreAgrees, LogAgrees, Agrees, Version
<1>3. QueueAgrees'
  BY <1>a DEF CoreInv, QueueAgrees, EntryAgrees
<1>4. CurrentNeverDangles' /\ WalCoversSnapshots'
  <2>1. ASSUME NEW v \in DOMAIN snaps PROVE i =< Len(snaps[v]) + 1
    <3>1. /\ snaps[v] \in Seq(Data) /\ Len(snaps[v]) =< MaxVersion
          /\ Version(snaps[v]) = v
      BY CoreSnapShape
    <3>. QED  BY <1>d, <1>h, <3>1
  <2>. QED  BY <1>a, <2>1 DEF CoreInv, CurrentNeverDangles, WalCoversSnapshots
<1>5. RewriteInv'
  <2>1. /\ tree \in Seq(Data) /\ mtree \in Seq(Data)
        /\ Len(tree) =< MaxVersion /\ Len(mtree) =< MaxVersion
    BY <1>0, ConstantsAssumption DEF ShapeFacts, CoreInv, TypeOK
  <2>2. earliest =< Version(tree)
    BY <1>0, <1>c, <1>d DEF ShapeFacts
  <2>3. i =< Len(tree) + 1
    BY <1>0, <1>h, <2>1, <2>2 DEF ShapeFacts
  <2>4. rewriter \in {"write", "rename"} => earliest =< Version(mtree)
    BY <1>0, <1>c, <1>d DEF ShapeFacts
  <2>5. rewriter \in {"write", "rename"} => i =< Len(mtree) + 1
    BY <1>0, <1>h, <2>1, <2>4 DEF ShapeFacts
  <2>. QED  BY <1>a, <2>3, <2>5 DEF CoreInv, RewriteInv, Version
<1>6. PruneInv'
  BY <1>a DEF CoreInv, PruneInv, Version
<1>7. SwitchInv'
  <2>1. LastIndex' = LastIndex
    <3>1. Len(walLog) \in Nat
      BY <1>0 DEF ShapeFacts
    <3>. QED  BY <1>c, <1>f, <1>g, <3>1 DEF LastIndex
  <2>. QED  BY <1>a, <2>1 DEF CoreInv, SwitchInv, Version
<1>. QED  BY <1>1, <1>2, <1>3, <1>4, <1>5, <1>6, <1>7 DEF CoreInv

\* The start of WaitAsyncCommit keeps the invariant.
LEMMA WaitAsyncCommitStep ==
    ASSUME CoreInv, WaitAsyncCommit
    PROVE  CoreInv'
<1>0. ShapeFacts
  BY CoreShape
<1>. USE DEF walVars, linkVars, mainVars, writerVars, rewriterVars, prunerVars, envVars, vars, WaitAsyncCommit
<1>1. TypeOK'
  BY <1>0, ConstantsAssumption DEF CoreInv, TypeOK, ShapeFacts
<1>2. CoreAgrees'
  BY DEF CoreInv, CoreAgrees, LogAgrees, Agrees, Version
<1>3. QueueAgrees'
  BY DEF CoreInv, QueueAgrees, EntryAgrees
<1>4. CurrentNeverDangles' /\ WalCoversSnapshots'
  BY DEF CoreInv, CurrentNeverDangles, WalCoversSnapshots, RewriteInv
<1>5. RewriteInv'
  BY <1>0 DEF ShapeFacts, CoreInv, TypeOK, RewriteInv, CurrentNeverDangles, PruneInv, Version
<1>6. PruneInv'
  BY <1>0 DEF ShapeFacts, CoreInv, TypeOK, PruneInv, RewriteInv, CurrentNeverDangles, Version
<1>7. SwitchInv'
  BY <1>0 DEF ShapeFacts, CoreInv, TypeOK, SwitchInv, LastIndex, Version
<1>. QED  BY <1>1, <1>2, <1>3, <1>4, <1>5, <1>6, <1>7 DEF CoreInv

\* The end of WaitAsyncCommit keeps the invariant.
LEMMA WaitAsyncCommitDoneStep ==
    ASSUME CoreInv, WaitAsyncCommitDone
    PROVE  CoreInv'
<1>0. ShapeFacts
  BY CoreShape
<1>. USE DEF walVars, linkVars, mainVars, writerVars, rewriterVars, prunerVars, envVars, vars, WaitAsyncCommitDone
<1>1. TypeOK'
  BY <1>0, ConstantsAssumption DEF CoreInv, TypeOK, ShapeFacts
<1>2. CoreAgrees'
  BY DEF CoreInv, CoreAgrees, LogAgrees, Agrees, Version
<1>3. QueueAgrees'
  BY DEF CoreInv, QueueAgrees, EntryAgrees
<1>4. CurrentNeverDangles' /\ WalCoversSnapshots'
  BY DEF CoreInv, CurrentNeverDangles, WalCoversSnapshots, RewriteInv
<1>5. RewriteInv'
  BY <1>0 DEF ShapeFacts, CoreInv, TypeOK, RewriteInv, CurrentNeverDangles, PruneInv, Version
<1>6. PruneInv'
  BY <1>0 DEF ShapeFacts, CoreInv, TypeOK, PruneInv, RewriteInv, CurrentNeverDangles, Version
<1>7. SwitchInv'
  BY <1>0 DEF ShapeFacts, CoreInv, TypeOK, SwitchInv, LastIndex, Version
<1>. QED  BY <1>1, <1>2, <1>3, <1>4, <1>5, <1>6, <1>7 DEF CoreInv

\* The start of Close keeps the invariant.
LEMMA CloseStep ==
    ASSUME CoreInv, Close
    PROVE  CoreInv'
<1>0. ShapeFacts
  BY CoreShape
<1>. USE DEF walVars, linkVars, mainVars, writerVars, rewriterVars, prunerVars, envVars, vars, Close
<1>1. TypeOK'
  BY <1>0, ConstantsAssumption DEF CoreInv, TypeOK, ShapeFacts
<1>2. CoreAgrees'
  BY DEF CoreInv, CoreAgrees, LogAgrees, Agrees, Version
<1>3. QueueAgrees'
  BY DEF CoreInv, QueueAgrees, EntryAgrees
<1>4. CurrentNeverDangles' /\ WalCoversSnapshots'
  BY DEF CoreInv, CurrentNeverDangles, WalCoversSnapshots, RewriteInv
<1>5. RewriteInv'
  BY <1>0 DEF ShapeFacts, CoreInv, TypeOK, RewriteInv, CurrentNeverDangles, PruneInv, Version
<1>6. PruneInv'
  BY <1>0 DEF ShapeFacts, CoreInv, TypeOK, PruneInv, RewriteInv, CurrentNeverDangles, Version
<1>7. SwitchInv'
  BY <1>0 DEF ShapeFacts, CoreInv, TypeOK, SwitchInv, LastIndex, Version
<1>. QED  BY <1>1, <1>2, <1>3, <1>4, <1>5, <1>6, <1>7 DEF CoreInv

\* Closing the WAL writer keeps the invariant.
LEMMA CloseWalStep ==
    ASSUME CoreInv, CloseWal
    PROVE  CoreInv'
<1>0. ShapeFacts
  BY CoreShape
<1>. USE DEF walVars, linkVars, mainVars, writerVars, rewriterVars, prunerVars, envVars, vars, CloseWal
<1>1. TypeOK'
  BY <1>0, ConstantsAssumption DEF CoreInv, TypeOK, ShapeFacts
<1>2. CoreAgrees'
  BY DEF CoreInv, CoreAgrees, LogAgrees, Agrees, Version
<1>3. QueueAgrees'
  BY DEF CoreInv, QueueAgrees, EntryAgrees
<1>4. CurrentNeverDangles' /\ WalCoversSnapshots'
  BY DEF CoreInv, CurrentNeverDangles, WalCoversSnapshots, RewriteInv
<1>5. RewriteInv'
  BY <1>0 DEF ShapeFacts, CoreInv, TypeOK, RewriteInv, CurrentNeverDangles, PruneInv, Version
<1>6. PruneInv'
  BY <1>0 DEF ShapeFacts, CoreInv, TypeOK, PruneInv, RewriteInv, CurrentNeverDangles, Version
<1>7. SwitchInv'
  BY <1>0 DEF ShapeFacts, CoreInv, TypeOK, SwitchInv, LastIndex, Version
<1>. QED  BY <1>1, <1>2, <1>3, <1>4, <1>5, <1>6, <1>7 DEF CoreInv

\* Dropping the rewrite on Close keeps the invariant.
LEMMA CloseRewriteStep ==
    ASSUME CoreInv, CloseRewrite
    PROVE  CoreInv'
<1>0. ShapeFacts
  BY CoreShape
<1>. USE DEF walVars, linkVars, mainVars, writerVars, rewriterVars, prunerVars, envVars, vars, CloseRewrite
<1>1. TypeOK'
  BY <1>0, ConstantsAssumption DEF CoreInv, TypeOK, ShapeFacts
<1>2. CoreAgrees'
  BY DEF CoreInv, CoreAgrees, LogAgrees, Agrees, Version
<1>3. QueueAgrees'
  BY DEF CoreInv, QueueAgrees, EntryAgrees
<1>4. CurrentNeverDangles' /\ WalCoversSnapshots'
  BY DEF CoreInv, CurrentNeverDangles, WalCoversSnapshots, RewriteInv
<1>5. RewriteInv'
  BY <1>0 DEF ShapeFacts, CoreInv, TypeOK, RewriteInv, CurrentNeverDangles, PruneInv, Version
<1>6. PruneInv'
  BY <1>0 DEF ShapeFacts, CoreInv, TypeOK, PruneInv, RewriteInv, CurrentNeverDangles, Version
<1>7. SwitchInv'
  BY <1>0 DEF ShapeFacts, CoreInv, TypeOK, SwitchInv, LastIndex, Version
<1>. QED  BY <1>1, <1>2, <1>3, <1>4, <1>5, <1>6, <1>7 DEF CoreInv

\* The end of the process keeps the invariant.
LEMMA ExitStep ==
    ASSUME CoreInv, Exit
    PROVE  CoreInv'
<1>0. ShapeFacts
  BY CoreShape
<1>. USE DEF walVars, linkVars, mainVars, writerVars, rewriterVars, prunerVars, envVars, vars, Exit, ProcessGone
<1>1. TypeOK'
  <2>1. /\ tree' \in Seq(Data) /\ mtree' \in Seq(Data) /\ pending' \in Data
        /\ walChan' \in Seq(WalEntry) /\ batch' \in Seq(WalEntry)
    BY <1>0 DEF ShapeFacts
  <2>2. /\ main' = "down" /\ base' \in Nat /\ walChanSize' \in Int
        /\ writer' = "off" /\ rewriter' = "off" /\ catchEnd' \in Nat
        /\ pruner' = "off" /\ cutoff' \in Nat /\ earliest' \in Nat
    OBVIOUS
  <2>4. todo' = {}
    OBVIOUS
  <2>5. err' \in BOOLEAN
    BY Zenon
  <2>3. UNCHANGED <<linkVars, walVars, envVars>>
    OBVIOUS
  <2>. HIDE DEF Exit, ProcessGone
  <2>. QED  BY <2>1, <2>2, <2>3, <2>4, <2>5 DEF CoreInv, TypeOK
<1>2. CoreAgrees'
  BY DEF CoreInv, CoreAgrees, LogAgrees, Agrees, Version
<1>3. QueueAgrees'
  BY DEF CoreInv, QueueAgrees, EntryAgrees
<1>4. CurrentNeverDangles' /\ WalCoversSnapshots'
  BY DEF CoreInv, CurrentNeverDangles, WalCoversSnapshots, RewriteInv
<1>5. RewriteInv'
  BY <1>0 DEF ShapeFacts, CoreInv, TypeOK, RewriteInv, CurrentNeverDangles, PruneInv, Version
<1>6. PruneInv'
  BY <1>0 DEF ShapeFacts, CoreInv, TypeOK, PruneInv, RewriteInv, CurrentNeverDangles, Version
<1>7. SwitchInv'
  BY <1>0 DEF ShapeFacts, CoreInv, TypeOK, SwitchInv, LastIndex, Version
<1>. QED  BY <1>1, <1>2, <1>3, <1>4, <1>5, <1>6, <1>7 DEF CoreInv

\* A crash that loses any number of WAL entries keeps the invariant.
LEMMA CrashStep ==
    ASSUME CoreInv, Crash
    PROVE  CoreInv'
<1>0. ShapeFacts
  BY CoreShape
<1>. USE DEF walVars, linkVars, mainVars, writerVars, rewriterVars, prunerVars, envVars, vars, Crash, ProcessGone
<1>a. PICK n \in 0 .. Len(walLog) : walLog' = SubSeq(walLog, 1, n)
  OBVIOUS
<1>b. /\ walLog' \in Seq(Data) /\ Len(walLog') = n
      /\ \A k \in 1 .. n : walLog'[k] = walLog[k]
  <2>1. walLog \in Seq(Data) /\ n \in Int /\ n =< Len(walLog) /\ n \in Nat
    BY <1>0 DEF ShapeFacts, CoreInv, TypeOK
  <2>. QED  BY <1>a, <2>1, SubSeqOfLog
<1>c. /\ tree' = <<>> /\ mtree' = <<>> /\ pending' = NoChange
      /\ walChan' = <<>> /\ batch' = <<>>
      /\ main' = "down" /\ base' = 0 /\ walChanSize' = 0
      /\ writer' = "off" /\ rewriter' = "off" /\ catchEnd' = 0
      /\ pruner' = "off" /\ cutoff' = 0 /\ todo' = {} /\ earliest' = 0
      /\ UNCHANGED <<linkVars, walFirst, chain>>
  OBVIOUS
<1>d. err' \in BOOLEAN
  BY Zenon
<1>e. crashes' \in Nat
  BY DEF CoreInv, TypeOK
<1>f. Len(<<>>) = 0
  BY EmptySeq
<1>g. Agrees(<<>>)
  BY <1>0, <1>f DEF ShapeFacts, Agrees
<1>. HIDE DEF Crash, ProcessGone
<1>1. TypeOK'
  BY <1>0, <1>b, <1>c, <1>d, <1>e DEF ShapeFacts, CoreInv, TypeOK
<1>2. CoreAgrees'
  <2>1. /\ \A v \in DOMAIN snaps : Version(snaps[v]) = v /\ Len(snaps[v]) =< MaxVersion
        /\ Agrees(snaps[current])
    BY DEF CoreInv, CoreAgrees
  <2>2. ASSUME NEW k \in 1 .. Len(walLog')
        PROVE  walFirst + k - 1 =< Len(chain) /\ walLog'[k] = chain[walFirst + k - 1]
    <3>1. k \in 1 .. n /\ k \in 1 .. Len(walLog)
      BY <1>0, <1>b DEF ShapeFacts
    <3>. QED  BY <1>b, <3>1 DEF CoreInv, CoreAgrees, LogAgrees
  <2>. QED  BY <1>c, <1>g, <2>1, <2>2 DEF CoreAgrees, LogAgrees, Agrees, Version
<1>3. QueueAgrees'
  BY <1>c, <1>f DEF CoreInv, QueueAgrees, EntryAgrees
<1>4. CurrentNeverDangles' /\ WalCoversSnapshots'
  BY <1>c DEF CoreInv, CurrentNeverDangles, WalCoversSnapshots
<1>5. RewriteInv'
  BY <1>c DEF CoreInv, RewriteInv
<1>6. PruneInv'
  BY <1>c DEF CoreInv, PruneInv
<1>7. SwitchInv'
  BY <1>c DEF CoreInv, SwitchInv
<1>. QED  BY <1>1, <1>2, <1>3, <1>4, <1>5, <1>6, <1>7 DEF CoreInv

-----------------------------------------------------------------------------
\* The empty database satisfies the invariant.
LEMMA InitIInv == Init => IInv
<1>. SUFFICES ASSUME Init PROVE IInv
  OBVIOUS
<1>. USE DEF Init
<1>0. NoChange \in Data /\ <<>> \in Seq(Data) /\ <<>> \in Seq(WalEntry) /\ Len(<<>>) = 0
  BY EmptySeq DEF Data
<1>1. err \in BOOLEAN /\ curTmp \in BOOLEAN
  BY Zenon
<1>2. DOMAIN snaps = {0} /\ snaps[0] = <<>>
  OBVIOUS
<1>3. TypeOK
  BY <1>0, <1>1, <1>2 DEF TypeOK
<1>4. StateAgrees
  BY <1>0, <1>2 DEF StateAgrees, Agrees, Version
<1>5. QueueAgrees
  BY <1>0, ConstantsAssumption DEF QueueAgrees
<1>6. CurrentNeverDangles /\ WalCoversSnapshots /\ RewriteInv /\ PruneInv /\ SwitchInv
  BY <1>0, <1>2
     DEF CurrentNeverDangles, WalCoversSnapshots, RewriteInv, PruneInv, SwitchInv
<1>. QED  BY <1>3, <1>4, <1>5, <1>6 DEF IInv

\* Every step of every thread preserves the core of the invariant, when Load opens
\* the latest version or every snapshot directory holds decided blocks.
LEMMA NextCore ==
    ASSUME CoreInv, [Next]_vars,
           LoadTargets \subseteq {0} \/ \A v \in DOMAIN snaps : Agrees(snaps[v])
    PROVE  CoreInv'
<1>1. CASE CallerStep
  <2>1. ASSUME NEW t \in LoadTargets, Load(t) PROVE CoreInv'
    <3>1. t = 0 \/ \A v \in DOMAIN snaps : Agrees(snaps[v])
      OBVIOUS
    <3>. QED  BY <2>1, <3>1, LoadStep
  <2>2. ASSUME NEW b \in Block, ApplyChangeSets(b) PROVE CoreInv'
    BY <2>2, ApplyChangeSetsStep
  <2>3. CASE CommitAsync
    BY <2>3, CommitAsyncStep
  <2>4. CASE CommitSync
    BY <2>4, CommitSyncStep
  <2>5. CASE WaitAsyncCommit
    BY <2>5, WaitAsyncCommitStep
  <2>6. CASE Close
    BY <2>6, CloseStep
  <2>7. CASE Exit
    BY <2>7, ExitStep
  <2>. QED  BY <1>1, <2>1, <2>2, <2>3, <2>4, <2>5, <2>6, <2>7 DEF CallerStep
<1>2. CASE MainStep
  BY <1>2, SendStep, CheckAsyncCommitStep, CheckBackgroundNoneStep, CheckBackgroundResultStep,
     SwitchStep, PruneSnapshotsStep, WaitAsyncCommitDoneStep, CloseWalStep, CloseRewriteStep
     DEF MainStep
<1>3. CASE WriterStep
  BY <1>3, WriterRecvStep, WriterWriteStep, WriterFailStep, WriterEndStep DEF WriterStep
<1>4. CASE RewriterStep
  BY <1>4, RewriteWriteStep, RewriteRenameStep, RewriteSymlinkStep, RewriteLinkStep,
     RewriteLoadStep, RewriteCatchupStep DEF RewriterStep
<1>5. CASE PrunerStep
  BY <1>5, PruneCurrentStep, PruneListStep, PruneRemoveStep, PruneFirstStep,
     PruneTruncateStep DEF PrunerStep
<1>6. CASE Crash
  BY <1>6, CrashStep
<1>7. CASE UNCHANGED vars
  <2>1. TypeOK'
    BY <1>7 DEF vars, CoreInv, TypeOK
  <2>2. CoreAgrees'
    BY <1>7 DEF vars, CoreInv, CoreAgrees, LogAgrees, Agrees, Version
  <2>3. QueueAgrees' /\ CurrentNeverDangles' /\ WalCoversSnapshots'
    BY <1>7 DEF vars, CoreInv, QueueAgrees, EntryAgrees, CurrentNeverDangles, WalCoversSnapshots
  <2>4. RewriteInv' /\ PruneInv' /\ SwitchInv'
    BY <1>7 DEF vars, CoreInv, RewriteInv, PruneInv, SwitchInv, Version, LastIndex
  <2>. QED  BY <2>1, <2>2, <2>3, <2>4 DEF CoreInv
<1>. QED  BY <1>1, <1>2, <1>3, <1>4, <1>5, <1>6, <1>7 DEF Next

\* No step takes a decided block back.
LEMMA ChainGrows ==
    ASSUME CoreInv, [Next]_vars
    PROVE  /\ Len(chain) \in Nat /\ Len(chain') \in Nat /\ Len(chain) =< Len(chain')
           /\ \A i \in 1 .. Len(chain) : chain'[i] = chain[i]
<1>1. Len(chain) \in Nat
  BY CoreShape DEF ShapeFacts
<1>2. CASE CommitAsync \/ CommitSync
  <2>1. SaveVersion
    BY <1>2 DEF CommitAsync, CommitSync
  <2>. QED  BY <1>1, <2>1, CoreSaveVersion
<1>3. CASE ~(CommitAsync \/ CommitSync)
  <2>. USE DEF linkVars, walVars, mainVars, writerVars, rewriterVars, prunerVars, envVars
  <2>1. CallerStep => chain' = chain
    BY <1>3 DEF CallerStep, Load, ApplyChangeSets, WaitAsyncCommit, Close, Exit
  <2>2. MainStep => chain' = chain
    BY DEF MainStep, Send, CheckAsyncCommit, CheckBackgroundNone,
         CheckBackgroundResult, Switch, PruneSnapshots, WaitAsyncCommitDone, CloseWal,
         CloseRewrite
  <2>3. WriterStep => chain' = chain
    BY DEF WriterStep, WriterRecv, WriterWrite, WriterFail, WriterEnd
  <2>4. RewriterStep => chain' = chain
    BY DEF RewriterStep, RewriterUnchanged, RewriteWrite, RewriteRename,
         RewriteSymlink, RewriteLink, RewriteLoad, RewriteCatchup
  <2>5. PrunerStep => chain' = chain
    BY DEF PrunerStep, PruneCurrent, PruneList, PruneRemove, PruneFirst, PruneTruncate
  <2>6. Crash \/ UNCHANGED vars => chain' = chain
    BY DEF Crash, vars
  <2>7. chain' = chain
    BY <2>1, <2>2, <2>3, <2>4, <2>5, <2>6 DEF Next
  <2>. QED  BY <1>1, <2>7
<1>. QED  BY <1>2, <1>3

\* A snapshot directory was there before or holds the tree of the running rewrite.
LEMMA SnapsFrom ==
    ASSUME CoreInv, [Next]_vars, NEW v \in DOMAIN snaps'
    PROVE  \/ v \in DOMAIN snaps /\ snaps'[v] = snaps[v]
           \/ rewriter = "rename" /\ snaps'[v] = mtree
<1>. USE DEF linkVars, walVars, mainVars, writerVars, rewriterVars, prunerVars, envVars
<1>1. CASE CallerStep
  BY <1>1 DEF CallerStep, Load, ApplyChangeSets, CommitAsync, CommitSync,
       WaitAsyncCommit, Close, Exit
<1>2. CASE MainStep
  BY <1>2 DEF MainStep, Send, CheckAsyncCommit, CheckBackgroundNone,
       CheckBackgroundResult, Switch, PruneSnapshots, WaitAsyncCommitDone, CloseWal,
       CloseRewrite
<1>3. CASE WriterStep
  BY <1>3 DEF WriterStep, WriterRecv, WriterWrite, WriterFail, WriterEnd
<1>4. CASE RewriteRename
  <2>1. CASE Version(mtree) \in DOMAIN snaps
    BY <1>4, <2>1 DEF RewriteRename
  <2>2. CASE Version(mtree) \notin DOMAIN snaps
    BY <1>4, <2>2 DEF RewriteRename
  <2>. QED  BY <2>1, <2>2
<1>5. CASE RewriterStep /\ ~RewriteRename
  BY <1>5 DEF RewriterStep, RewriterUnchanged, RewriteWrite,
       RewriteSymlink, RewriteLink, RewriteLoad, RewriteCatchup
<1>6. CASE PruneRemove
  <2>1. PICK w \in todo : snaps' = IF w \in tmps THEN snaps
                                   ELSE [u \in DOMAIN snaps \ {w} |-> snaps[u]]
    BY <1>6 DEF PruneRemove
  <2>. QED  BY <2>1
<1>7. CASE PrunerStep /\ ~PruneRemove
  BY <1>7 DEF PrunerStep, PruneCurrent, PruneList, PruneFirst, PruneTruncate
<1>8. CASE Crash \/ UNCHANGED vars
  BY <1>8 DEF Crash, vars
<1>. QED  BY <1>1, <1>2, <1>3, <1>4, <1>5, <1>6, <1>7, <1>8 DEF Next

\* A snapshot directory that agrees with the chain keeps agreeing, and so does a
\* new one.
LEMMA SnapsKeepAgreeing ==
    ASSUME CoreInv, [Next]_vars, NEW v \in DOMAIN snaps',
           v \in DOMAIN snaps => Agrees(snaps[v])
    PROVE  Agrees(snaps[v])'
<1>. DEFINE t == snaps'[v]
<1>1. t \in Seq(Data) /\ Agrees(t)
  <2>1. mtree \in Seq(Data) /\ Agrees(mtree)
    BY DEF CoreInv, TypeOK, CoreAgrees
  <2>2. v \in DOMAIN snaps => snaps[v] \in Seq(Data)
    BY DEF CoreInv, TypeOK
  <2>. QED  BY <2>1, <2>2, SnapsFrom
<1>2. Len(t) \in Nat
  BY <1>1, LenProperties
<1>3. Len(t) =< Len(chain') /\ \A i \in 1 .. Len(t) : t[i] = chain'[i]
  BY <1>1, <1>2, ChainGrows DEF Agrees
<1>. QED  BY <1>3 DEF Agrees

\* The invariant is its core and snapshot directories that all agree with the chain.
LEMMA IInvCore ==
    /\ IInv => CoreInv /\ \A v \in DOMAIN snaps : Agrees(snaps[v])
    /\ CoreInv /\ (\A v \in DOMAIN snaps : Agrees(snaps[v])) => IInv
<1>1. ASSUME IInv PROVE CoreInv /\ \A v \in DOMAIN snaps : Agrees(snaps[v])
  <2>1. \A v \in DOMAIN snaps :
           Agrees(snaps[v]) /\ Version(snaps[v]) = v /\ Len(snaps[v]) =< MaxVersion
    <3>. TAKE v \in DOMAIN snaps
    <3>1. Agrees(snaps[v]) /\ Version(snaps[v]) = v /\ Len(chain) =< MaxVersion
      BY <1>1 DEF IInv, StateAgrees, QueueAgrees
    <3>2. Len(snaps[v]) \in Nat /\ Len(chain) \in Nat /\ MaxVersion \in Nat
      BY <1>1, LenProperties, ConstantsAssumption DEF IInv, TypeOK
    <3>. QED  BY <3>1, <3>2 DEF Agrees
  <2>2. CoreAgrees
    BY <1>1, <2>1 DEF IInv, StateAgrees, CoreAgrees, LogAgrees, CurrentNeverDangles, RewriteInv
  <2>. QED  BY <1>1, <2>1, <2>2 DEF IInv, CoreInv
<1>2. ASSUME CoreInv, \A v \in DOMAIN snaps : Agrees(snaps[v]) PROVE IInv
  <2>1. StateAgrees
    BY <1>2 DEF CoreInv, StateAgrees, CoreAgrees, LogAgrees
  <2>. QED  BY <1>2, <2>1 DEF IInv, CoreInv
<1>. QED  BY <1>1, <1>2

\* Every step of every thread preserves the invariant.
LEMMA NextIInv == IInv /\ [Next]_vars => IInv'
<1>. SUFFICES ASSUME IInv, [Next]_vars PROVE IInv'
  OBVIOUS
<1>1. CoreInv /\ \A v \in DOMAIN snaps : Agrees(snaps[v])
  BY IInvCore
<1>2. CoreInv'
  BY <1>1, NextCore
<1>3. ASSUME NEW v \in DOMAIN snaps' PROVE Agrees(snaps[v])'
  BY <1>1, SnapsKeepAgreeing
<1>4. StateAgrees'
  BY <1>2, <1>3 DEF CoreInv, StateAgrees, CoreAgrees, LogAgrees
<1>. QED  BY <1>2, <1>4 DEF IInv, CoreInv

\* What the core says of lengths and versions, under the invariant.
LEMMA Shape ==
    ASSUME IInv
    PROVE  ShapeFacts
  BY IInvCore, CoreShape

LEMMA SnapShape ==
    ASSUME IInv, NEW v \in DOMAIN snaps
    PROVE  /\ snaps[v] \in Seq(Data) /\ Len(snaps[v]) \in Nat
           /\ Len(snaps[v]) =< Len(chain)
           /\ Version(snaps[v]) = v /\ v \in Nat
  BY LenProperties DEF IInv, TypeOK, StateAgrees, Agrees

LEMMA SaveVersionFacts ==
    ASSUME IInv, SaveVersion
    PROVE  /\ tree' \in Seq(Data) /\ chain' \in Seq(Data)
           /\ Len(tree') = Len(tree) + 1 /\ tree'[Len(tree) + 1] = pending
           /\ Len(chain) =< Len(chain') /\ Len(chain') =< MaxVersion
           /\ Len(tree) + 1 =< Len(chain') /\ chain'[Len(tree) + 1] = pending
           /\ \A i \in 1 .. Len(chain) : chain'[i] = chain[i]
           /\ \A i \in 1 .. Len(tree) + 1 : tree'[i] = chain'[i]
           /\ walIndex(nextVersion(Version(tree))) = Len(tree) + 1
           /\ Len(chain') \in Nat
  BY IInvCore, CoreSaveVersion

\* IInv is an invariant of the database, for every value of the constants.
THEOREM Invariance == Spec => []IInv
  BY InitIInv, NextIInv, PTL DEF Spec

\* The state keeps its type.
THEOREM TypeCorrect == Spec => []TypeOK
<1>1. IInv => TypeOK
  BY DEF IInv
<1>. QED  BY <1>1, Invariance, PTL

\* db.MultiTree, every snapshot directory, the tree of a running rewrite and the
\* WAL hold the decided blocks and nothing else, in every interleaving of Commit,
\* the WAL writer, the rewrite and the prune goroutine, with any crash and reload.
THEOREM Agreement == Spec => []StateAgrees
<1>1. IInv => StateAgrees
  BY DEF IInv
<1>. QED  BY <1>1, Invariance, PTL

\* pruneSnapshots never removes a WAL entry that a remaining snapshot needs to be
\* replayed, although it runs beside the rewrite goroutine and may be killed.
THEOREM Coverage == Spec => []WalCoversSnapshots
<1>1. IInv => WalCoversSnapshots
  BY DEF IInv
<1>. QED  BY <1>1, Invariance, PTL

\* The current link always names an existing snapshot directory.
THEOREM LinkNeverDangles == Spec => []CurrentNeverDangles
<1>1. IInv => CurrentNeverDangles
  BY DEF IInv
<1>. QED  BY <1>1, Invariance, PTL

\* Two trees that agree with the chain and have the same length are equal.
LEMMA AgreeEqual ==
    ASSUME NEW t \in Seq(Data), NEW u \in Seq(Data), Agrees(t), Agrees(u), Len(t) = Len(u)
    PROVE  t = u
<1>1. \A i \in 1 .. Len(t) : t[i] = u[i]
  BY DEF Agrees
<1>. QED  BY <1>1, SeqEqual

\* When the loop over CommittedVersion ends, the tree that replaces db.MultiTree
\* is equal to it.
LEMMA SwitchIsStutter ==
    ASSUME IInv, Switch, CanCatchup(mtree, 0)
    PROVE  tree' = tree
<1>0. ShapeFacts
  BY Shape
<1>1. /\ tree' = Catchup(mtree, 0) /\ main = "spin" /\ Version(tree) = CommittedVersion
  BY DEF Switch
<1>2. /\ tree \in Seq(Data) /\ mtree \in Seq(Data) /\ Agrees(tree) /\ Agrees(mtree)
      /\ TypeOK /\ LogAgrees /\ QueueAgrees /\ base \in Nat
  BY DEF IInv, TypeOK, StateAgrees, LogAgrees
<1>3. /\ Catchup(mtree, 0) \in Seq(Data) /\ Agrees(Catchup(mtree, 0))
      /\ Len(Catchup(mtree, 0)) = IF Len(mtree) + 1 > LastIndex THEN Len(mtree) ELSE LastIndex
  BY <1>2, CatchupAgrees DEF CatchupLast
<1>4. /\ Len(tree) \in Nat /\ Len(mtree) \in Nat /\ LastIndex \in Nat
      /\ Version(tree) \in Nat /\ Version(mtree) \in Nat
  BY <1>0 DEF ShapeFacts
<1>5. /\ base =< Version(mtree)
      /\ Len(mtree) =< Len(tree) \/ Len(mtree) =< LastIndex
  BY <1>1 DEF IInv, SwitchInv
<1>6. Len(tree) = Len(Catchup(mtree, 0))
  <2>1. CASE LastIndex = 0
    <3>1. Version(tree) =< Version(mtree)
      BY <1>1, <1>5, <2>1 DEF CommittedVersion
    <3>2. Len(tree) =< Len(mtree)
      BY <1>2, <3>1, VersionOrder
    <3>. QED  BY <1>3, <1>4, <1>5, <2>1, <3>2
  <2>2. CASE LastIndex # 0
    <3>1. Version(tree) = walVersion(LastIndex)
      BY <1>1, <2>2 DEF CommittedVersion
    <3>2. Len(tree) = LastIndex
      BY <1>4, <2>2, <3>1, ConstantsAssumption DEF Version, walVersion
    <3>. QED  BY <1>3, <1>4, <1>5, <3>2
  <2>. QED  BY <2>1, <2>2
<1>. QED  BY <1>1, <1>2, <1>3, <1>6, AgreeEqual

\* The switch in checkBackgroundSnapshotRewrite changes neither the version nor the
\* contents of the tree of the state machine, although the rewritten snapshot is
\* older and the WAL writer runs beside it.
THEOREM SwitchPreserves == Spec => SwitchKeepsState
<1>1. ASSUME IInv, [Next]_vars, main = "spin", main' = "prune" PROVE tree' = tree
  <2>1. CASE Switch
    <3>1. CanCatchup(mtree, 0)
      BY <1>1, <2>1 DEF Switch
    <3>. QED  BY <1>1, <2>1, <3>1, SwitchIsStutter
  <2>2. CASE ~Switch
    <3>. USE DEF linkVars, walVars, mainVars, writerVars, rewriterVars, prunerVars, envVars
    <3>1. ~CallerStep
      BY <1>1 DEF CallerStep, Load, ApplyChangeSets, CommitAsync, CommitSync,
                  WaitAsyncCommit, Close, Exit
    <3>2. ~MainStep
      BY <1>1, <2>2 DEF MainStep, Send, CheckAsyncCommit, CheckBackgroundNone,
                  CheckBackgroundResult, PruneSnapshots, WaitAsyncCommitDone, CloseWal,
                  CloseRewrite
    <3>3. ~WriterStep
      BY <1>1 DEF WriterStep, WriterRecv, WriterWrite, WriterFail, WriterEnd
    <3>4. ~RewriterStep
      BY <1>1 DEF RewriterStep, RewriterUnchanged, RewriteWrite, RewriteRename,
                  RewriteSymlink, RewriteLink, RewriteLoad, RewriteCatchup
    <3>5. ~PrunerStep
      BY <1>1 DEF PrunerStep, PruneCurrent, PruneList, PruneRemove, PruneFirst, PruneTruncate
    <3>6. ~Crash
      BY <1>1 DEF Crash, ProcessGone
    <3>. QED  BY <1>1, <3>1, <3>2, <3>3, <3>4, <3>5, <3>6 DEF Next, vars
  <2>. QED  BY <2>1, <2>2
<1>. QED  BY <1>1, Invariance, PTL DEF Spec, SwitchKeepsState
=============================================================================
