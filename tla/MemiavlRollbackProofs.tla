----------------------- MODULE MemiavlRollbackProofs -----------------------
(***************************************************************************)
(* Proofs about the rollback of a memiavl database, for every number of    *)
(* versions and crashes, every initial version and channel size.  The      *)
(* rollback may be killed anywhere and repeated; the theorems assume that  *)
(* it is always to the same version and that Load opens the latest one     *)
(* otherwise: a snapshot of the abandoned history that a killed rollback   *)
(* has left behind could be asked for by its version.                      *)
(***************************************************************************)
EXTENDS MemiavlRollback, MemiavlDBProofs

OneTarget ==
    /\ LoadTargets \subseteq {0}
    /\ \A s, t \in RollbackTargets : s = t

-----------------------------------------------------------------------------
\* While no process runs, the invariant of the database is about the directory.
LEMMA DownCore ==
    ASSUME TypeOK', CoreAgrees', QueueAgrees', CurrentNeverDangles', WalCoversSnapshots',
           main' = "down", rewriter' = "off", pruner' = "off"
    PROVE  CoreInv'
<1>1. RewriteInv' /\ PruneInv' /\ SwitchInv'
  BY DEF RewriteInv, PruneInv, SwitchInv
<1>. QED  BY <1>1 DEF CoreInv

\* A version whose WAL index is not above the chain: the index has not wrapped
\* around, and it orders versions as the lengths of the trees.
LEMMA TargetIndex ==
    ASSUME NEW t \in Nat, walIndex(t) =< MaxVersion,
           NEW s \in Seq(Data), Len(s) =< MaxVersion
    PROVE  /\ walIndex(t) \in Nat
           /\ walIndex(t) > 0 => walVersion(walIndex(t)) = t
           /\ Version(s) =< t => Len(s) =< walIndex(t)
           /\ Version(s) = t /\ t > 0 => Len(s) = walIndex(t)
           /\ Version(s) < t /\ walIndex(t) > 0 => Len(s) < walIndex(t)
           /\ Len(s) = walIndex(t) /\ walIndex(t) > 0 => Version(s) = t
<1>1. Len(s) \in Nat
  BY LenProperties
<1>. QED  BY <1>1, ConstantsAssumption DEF walIndex, walVersion, Version

\* Load of a target from the biggest snapshot not above it: the tree agrees with the
\* chain and ends at the target if the WAL reaches it.
LEMMA LoadReaches ==
    ASSUME CoreInv, NEW t \in Nat \ {0}, walIndex(t) =< Len(chain),
           NEW v \in DOMAIN snaps, v =< t, Agrees(snaps[v]), NEW u,
           IF t > v THEN CanCatchup(snaps[v], t) /\ u = Catchup(snaps[v], t)
                    ELSE u = snaps[v]
    PROVE  /\ u \in Seq(Data) /\ Agrees(u)
           /\ Len(snaps[v]) =< Len(u)
           /\ Readable(walIndex(t)) => Len(u) = walIndex(t)
<1>1. /\ snaps[v] \in Seq(Data) /\ Len(snaps[v]) \in Nat /\ Len(snaps[v]) =< MaxVersion
      /\ Version(snaps[v]) = v /\ v \in Nat
  BY CoreSnapShape
<1>2. /\ TypeOK /\ LogAgrees /\ QueueAgrees /\ LastIndex \in Nat /\ walFirst \in Nat \ {0}
      /\ Len(chain) \in Nat /\ Len(chain) =< MaxVersion /\ MaxVersion \in Nat
  BY CoreShape, ConstantsAssumption DEF CoreInv, CoreAgrees, ShapeFacts, TypeOK
<1>3. walIndex(t) \in Int
  BY ConstantsAssumption DEF walIndex
<1>4. walIndex(t) =< MaxVersion
  BY <1>2, <1>3
<1>5. /\ walIndex(t) \in Nat
      /\ v = t => Len(snaps[v]) = walIndex(t)
      /\ v < t /\ walIndex(t) > 0 => Len(snaps[v]) < walIndex(t)
  BY <1>1, <1>4, TargetIndex
<1>6. Readable(walIndex(t)) => walIndex(t) > 0 /\ walIndex(t) =< LastIndex
  BY <1>2, <1>5 DEF Readable
<1>7. CASE t > v
  <2>1. CanCatchup(snaps[v], t) /\ u = Catchup(snaps[v], t)
    BY <1>7
  <2>2. /\ u \in Seq(Data) /\ Agrees(u) /\ Len(snaps[v]) =< Len(u)
        /\ Len(u) = IF Len(snaps[v]) + 1 > LastIndex THEN Len(snaps[v]) ELSE CatchupLast(t)
    BY <1>1, <1>2, <2>1, CatchupAgrees
  <2>3. walIndex(t) =< LastIndex => CatchupLast(t) = walIndex(t)
    BY <1>2, <1>5 DEF CatchupLast
  <2>4. Readable(walIndex(t)) => Len(u) = walIndex(t)
    BY <1>1, <1>2, <1>5, <1>6, <1>7, <2>2, <2>3
  <2>. QED  BY <2>2, <2>4
<1>8. CASE ~(t > v)
  <2>1. v = t /\ u = snaps[v]
    BY <1>1, <1>8
  <2>. QED  BY <1>1, <1>5, <2>1
<1>. QED  BY <1>7, <1>8

-----------------------------------------------------------------------------
\* The empty database.
LEMMA RollbackInit == RInit => RollbackInv
<1>. SUFFICES ASSUME RInit PROVE RollbackInv
  OBVIOUS
<1>1. CoreInv /\ \A v \in DOMAIN snaps : Agrees(snaps[v])
  BY InitIInv, IInvCore DEF RInit
<1>2. DownInv /\ KeptAgree /\ PhaseInv
  BY <1>1 DEF RInit, Init, DownInv, KeptAgree, PhaseInv
<1>. QED  BY <1>1, <1>2 DEF RollbackInv

\* The steps of MemiavlDB between rollbacks.
LEMMA BetweenStep ==
    ASSUME OneTarget, RollbackInv, rollback = "off", [Next]_vars, UNCHANGED rollbackVars
    PROVE  RollbackInv'
<1>1. CoreInv'
  BY NextCore DEF OneTarget, RollbackInv
<1>2. KeptAgree'
  <2>. SUFFICES ASSUME NEW t \in RollbackTargets, NEW v \in DOMAIN snaps', v =< t
                PROVE  Agrees(snaps[v])'
    BY DEF KeptAgree
  <2>1. v \in DOMAIN snaps => Agrees(snaps[v])
    BY DEF RollbackInv, KeptAgree
  <2>. QED  BY <2>1, SnapsKeepAgreeing DEF RollbackInv
<1>3. DownInv'
  <2>. SUFFICES ASSUME main' = "down" PROVE walChan' = <<>> /\ batch' = <<>> /\ mtree' = <<>>
    BY DEF DownInv
  <2>. USE DEF linkVars, walVars, mainVars, writerVars, rewriterVars, prunerVars, envVars
  <2>1. CASE main # "down"
    <3>1. CASE Exit \/ Crash
      BY <3>1 DEF Exit, Crash, ProcessGone
    <3>2. ~(CallerStep /\ ~Exit)
      BY DEF CallerStep, Load, ApplyChangeSets, CommitAsync, CommitSync, WaitAsyncCommit,
           Close
    <3>3. ~MainStep
      BY DEF MainStep, Send, CheckAsyncCommit, CheckBackgroundNone, CheckBackgroundResult,
           Switch, PruneSnapshots, FinishCommit, WaitAsyncCommitDone, CloseWal, CloseRewrite
    <3>4. ~WriterStep
      BY <2>1 DEF WriterStep, WriterRecv, WriterWrite, WriterFail, WriterEnd
    <3>5. ~RewriterStep
      BY <2>1 DEF RewriterStep, RewriterUnchanged, RewriteWrite, RewriteRename,
           RewriteSymlink, RewriteLink, RewriteLoad, RewriteCatchup
    <3>6. ~PrunerStep
      BY <2>1 DEF PrunerStep, PruneCurrent, PruneList, PruneRemove, PruneFirst,
           PruneTruncate
    <3>7. main' # main
      BY <2>1
    <3>. QED  BY <3>1, <3>2, <3>3, <3>4, <3>5, <3>6, <3>7 DEF Next, vars
  <2>2. CASE main = "down"
    <3>0. walChan = <<>> /\ batch = <<>> /\ mtree = <<>> /\ rewriter = "off" /\ pruner = "off"
      BY <2>2 DEF RollbackInv, DownInv, CoreInv, RewriteInv
    <3>1. ~CallerStep
      BY <2>2 DEF CallerStep, Load, ApplyChangeSets, CommitAsync, CommitSync,
           WaitAsyncCommit, Close, Exit
    <3>2. ~MainStep
      BY <2>2 DEF MainStep, Send, CheckAsyncCommit, CheckBackgroundNone,
           CheckBackgroundResult, Switch, PruneSnapshots, WaitAsyncCommitDone, CloseWal,
           CloseRewrite
    <3>3. WriterStep => walChan' = <<>> /\ batch' = <<>> /\ mtree' = <<>>
      BY <3>0 DEF WriterStep, WriterRecv, WriterWrite, WriterFail, WriterEnd
    <3>4. ~RewriterStep /\ ~Crash
      BY <2>2, <3>0 DEF RewriterStep, RewriteWrite, RewriteRename, RewriteSymlink,
           RewriteLink, RewriteLoad, RewriteCatchup, Crash
    <3>5. ~PrunerStep
      BY <3>0 DEF PrunerStep, PruneCurrent, PruneList, PruneRemove, PruneFirst,
           PruneTruncate
    <3>. QED  BY <3>0, <3>1, <3>2, <3>3, <3>4, <3>5 DEF Next, vars
  <2>. QED  BY <2>1, <2>2
<1>4. PhaseInv'
  BY DEF rollbackVars, PhaseInv
<1>. QED  BY <1>1, <1>2, <1>3, <1>4 DEF RollbackInv

-----------------------------------------------------------------------------
\* The start of a rollback.
LEMMA RollbackLoadStep ==
    ASSUME RollbackInv, NEW t \in RollbackTargets, RollbackLoad(t)
    PROVE  RollbackInv'
<1>. USE DEF linkVars, walVars, writerVars, rewriterVars, prunerVars, envVars
<1>1. PICK v \in DOMAIN snaps :
        /\ v =< t /\ base' = v
        /\ IF t > v THEN CanCatchup(snaps[v], t) /\ tree' = Catchup(snaps[v], t)
                    ELSE tree' = snaps[v]
  BY DEF RollbackLoad, SeekSnapshot
<1>2. /\ main = "down" /\ main' = "down" /\ walIndex(t) =< Len(chain)
      /\ tmps' = {} /\ rollback' = "symlink" /\ target' = t
      /\ UNCHANGED <<snaps, current, curTmp, walVars, main, pending, err, walChanSize,
                     writerVars, rewriterVars, prunerVars, envVars>>
  BY DEF RollbackLoad
<1>3. CoreInv /\ Agrees(snaps[v]) /\ t \in Nat \ {0}
  BY <1>1, RollbackAssumption DEF RollbackInv, KeptAgree
<1>4. /\ tree' \in Seq(Data) /\ Agrees(tree')
      /\ Len(snaps[v]) =< Len(tree')
      /\ Readable(walIndex(t)) => Len(tree') = walIndex(t)
  BY <1>1, <1>2, <1>3, LoadReaches
<1>5. v \in Nat
  BY <1>3, CoreSnapShape
<1>6. TypeOK'
  BY <1>1, <1>2, <1>3, <1>4, <1>5 DEF CoreInv, TypeOK
<1>7. rewriter = "off" /\ pruner = "off"
  BY <1>2, <1>3 DEF CoreInv, RewriteInv
<1>8. CoreAgrees'
  BY <1>2, <1>3, <1>4, <1>7 DEF CoreInv, CoreAgrees, LogAgrees, Agrees, Version
<1>9. QueueAgrees' /\ CurrentNeverDangles' /\ WalCoversSnapshots'
  BY <1>2, <1>3 DEF CoreInv, QueueAgrees, EntryAgrees, CurrentNeverDangles, WalCoversSnapshots
<1>10. CoreInv'
  BY <1>2, <1>6, <1>7, <1>8, <1>9, DownCore
<1>11. DownInv' /\ KeptAgree'
  BY <1>2 DEF RollbackInv, DownInv, KeptAgree, Agrees
<1>12. walIndex(target)' = walIndex(t)
  BY <1>2 DEF walIndex
<1>13. PhaseInv'
  BY <1>1, <1>2, <1>4, <1>12 DEF PhaseInv, Readable, LastIndex
<1>. QED  BY <1>10, <1>11, <1>13 DEF RollbackInv

\* The end of a rollback by an error or a kill.
LEMMA AbandonStep ==
    ASSUME RollbackInv, Abandon, UNCHANGED <<linkVars, walVars, chain>>, crashes' \in Nat
    PROVE  RollbackInv'
<1>. USE DEF linkVars, walVars
<1>0. ShapeFacts /\ CoreInv
  BY CoreShape DEF RollbackInv
<1>1. /\ tree' = <<>> /\ mtree' = <<>> /\ walChan' = <<>> /\ batch' = <<>>
      /\ pending' = NoChange /\ main' = "down" /\ base' = 0 /\ walChanSize' = 0
      /\ writer' = "off" /\ rewriter' = "off" /\ catchEnd' = 0
      /\ pruner' = "off" /\ cutoff' = 0 /\ todo' = {} /\ earliest' = 0
      /\ rollback' = "off"
      /\ snaps' = snaps /\ current' = current /\ curTmp' = curTmp /\ tmps' = tmps
      /\ walFirst' = walFirst /\ walLog' = walLog /\ chain' = chain
  BY DEF Abandon, ProcessGone
<1>2. err' \in BOOLEAN
  BY Zenon DEF Abandon, ProcessGone
<1>3. Agrees(<<>>) /\ Len(<<>>) = 0
  BY <1>0, EmptySeq DEF ShapeFacts, Agrees
<1>4. TypeOK'
  <2>1. TypeOK /\ NoChange \in Data /\ <<>> \in Seq(Data) /\ <<>> \in Seq(WalEntry)
    BY <1>0 DEF ShapeFacts, CoreInv
  <2>2. crashes' \in Nat
    OBVIOUS
  <2>. QED  BY <1>1, <1>2, <2>1, <2>2 DEF TypeOK
<1>5. CoreAgrees'
  BY <1>0, <1>1, <1>3 DEF CoreInv, CoreAgrees, LogAgrees, Agrees, Version
<1>6. QueueAgrees' /\ CurrentNeverDangles' /\ WalCoversSnapshots'
  BY <1>0, <1>1, <1>3 DEF CoreInv, QueueAgrees, CurrentNeverDangles, WalCoversSnapshots
<1>7. CoreInv'
  BY <1>1, <1>4, <1>5, <1>6, DownCore
<1>8. DownInv' /\ KeptAgree' /\ PhaseInv'
  BY <1>1 DEF RollbackInv, DownInv, KeptAgree, Agrees, PhaseInv
<1>. QED  BY <1>7, <1>8 DEF RollbackInv

LEMMA RollbackCrashStep ==
    ASSUME RollbackInv, RollbackCrash
    PROVE  RollbackInv'
<1>1. crashes' \in Nat
  BY DEF RollbackInv, CoreInv, TypeOK, RollbackCrash
<1>. QED  BY <1>1, AbandonStep DEF RollbackCrash

\* The link to the snapshot that was loaded is prepared, then moved.
LEMMA RollbackSymlinkStep ==
    ASSUME RollbackInv, RollbackSymlink
    PROVE  RollbackInv'
<1>. USE DEF linkVars, walVars, mainVars, writerVars, rewriterVars, prunerVars, envVars
<1>0. CoreInv
  BY DEF RollbackInv
<1>1. CASE base = current
  <2>1. UNCHANGED vars /\ rollback' = "truncate" /\ target' = target /\ rollback = "symlink"
    BY <1>1 DEF RollbackSymlink
  <2>2. TypeOK'
    BY <1>0, <2>1 DEF vars, CoreInv, TypeOK
  <2>3. CoreAgrees'
    BY <1>0, <2>1 DEF vars, CoreInv, CoreAgrees, LogAgrees, Agrees, Version
  <2>4. QueueAgrees' /\ CurrentNeverDangles' /\ WalCoversSnapshots'
    BY <1>0, <2>1 DEF vars, CoreInv, QueueAgrees, EntryAgrees, CurrentNeverDangles,
         WalCoversSnapshots
  <2>5. main' = "down" /\ rewriter' = "off" /\ pruner' = "off"
    BY <1>0, <2>1 DEF vars, RollbackInv, PhaseInv, CoreInv, RewriteInv
  <2>6. CoreInv'
    BY <2>2, <2>3, <2>4, <2>5, DownCore
  <2>7. DownInv' /\ KeptAgree'
    BY <2>1 DEF vars, RollbackInv, DownInv, KeptAgree, Agrees
  <2>8. PhaseInv'
    BY <1>1, <2>1 DEF vars, RollbackInv, PhaseInv, Readable, LastIndex
  <2>. QED  BY <2>6, <2>7, <2>8 DEF RollbackInv
<1>2. CASE base # current /\ curTmp
  <2>1. crashes' = crashes /\ Abandon /\ UNCHANGED <<linkVars, walVars, chain>>
    BY <1>2 DEF RollbackSymlink
  <2>2. crashes' \in Nat
    BY <1>0, <2>1 DEF CoreInv, TypeOK
  <2>. QED  BY <2>1, <2>2, AbandonStep
<1>3. CASE base # current /\ ~curTmp
  <2>1. /\ curTmp' = TRUE /\ rollback' = "link" /\ target' = target /\ rollback = "symlink"
        /\ UNCHANGED <<snaps, current, tmps, walVars, mainVars, writerVars,
                       rewriterVars, prunerVars, envVars>>
    BY <1>3 DEF RollbackSymlink
  <2>2. TypeOK'
    <3>1. curTmp' \in BOOLEAN
      BY <2>1, Zenon
    <3>. QED  BY <1>0, <2>1, <3>1 DEF CoreInv, TypeOK
  <2>3. CoreAgrees'
    BY <1>0, <2>1 DEF CoreInv, CoreAgrees, LogAgrees, Agrees, Version
  <2>4. QueueAgrees' /\ CurrentNeverDangles' /\ WalCoversSnapshots'
    BY <1>0, <2>1 DEF CoreInv, QueueAgrees, EntryAgrees, CurrentNeverDangles,
         WalCoversSnapshots
  <2>5. main' = "down" /\ rewriter' = "off" /\ pruner' = "off"
    BY <1>0, <2>1 DEF RollbackInv, PhaseInv, CoreInv, RewriteInv
  <2>6. CoreInv'
    BY <2>2, <2>3, <2>4, <2>5, DownCore
  <2>7. DownInv' /\ KeptAgree'
    BY <2>1 DEF RollbackInv, DownInv, KeptAgree, Agrees
  <2>8. PhaseInv'
    BY <2>1 DEF RollbackInv, PhaseInv, Readable, LastIndex
  <2>. QED  BY <2>6, <2>7, <2>8 DEF RollbackInv
<1>. QED  BY <1>1, <1>2, <1>3

LEMMA RollbackLinkStep ==
    ASSUME RollbackInv, RollbackLink
    PROVE  RollbackInv'
<1>. USE DEF linkVars, walVars, mainVars, writerVars, rewriterVars, prunerVars, envVars
<1>1. /\ curTmp' = FALSE /\ current' = base /\ rollback' = "truncate" /\ target' = target
      /\ rollback = "link"
      /\ UNCHANGED <<snaps, tmps, walVars, mainVars, writerVars, rewriterVars,
                     prunerVars, envVars>>
  BY DEF RollbackLink
<1>2. CoreInv /\ base \in DOMAIN snaps /\ Agrees(snaps[base]) /\ base \in Nat
  <2>1. target \in RollbackTargets /\ base \in DOMAIN snaps /\ base =< target
    BY <1>1 DEF RollbackInv, PhaseInv
  <2>2. CoreInv /\ Agrees(snaps[base])
    BY <2>1 DEF RollbackInv, KeptAgree
  <2>. QED  BY <2>1, <2>2, CoreSnapShape
<1>3. TypeOK'
  <2>1. curTmp' \in BOOLEAN
    BY <1>1, Zenon
  <2>. QED  BY <1>1, <1>2, <2>1 DEF CoreInv, TypeOK
<1>4. main' = "down" /\ rewriter' = "off" /\ pruner' = "off"
  BY <1>1, <1>2 DEF RollbackInv, PhaseInv, CoreInv, RewriteInv
<1>5. CoreAgrees'
  BY <1>1, <1>2, <1>4 DEF CoreInv, CoreAgrees, LogAgrees, Agrees, Version
<1>6. QueueAgrees' /\ CurrentNeverDangles' /\ WalCoversSnapshots'
  BY <1>1, <1>2 DEF CoreInv, QueueAgrees, EntryAgrees, CurrentNeverDangles,
       WalCoversSnapshots
<1>7. CoreInv'
  BY <1>3, <1>4, <1>5, <1>6, DownCore
<1>8. DownInv' /\ KeptAgree'
  BY <1>1 DEF RollbackInv, DownInv, KeptAgree, Agrees
<1>9. PhaseInv'
  BY <1>1 DEF RollbackInv, PhaseInv, Readable, LastIndex
<1>. QED  BY <1>7, <1>8, <1>9 DEF RollbackInv
\* What is known when the WAL is about to be cut at an entry it holds.
LEMMA CutFacts ==
    ASSUME RollbackInv, rollback # "off", Readable(walIndex(target))
    PROVE  /\ walIndex(target) \in Nat \ {0} /\ walIndex(target) =< Len(chain)
           /\ walFirst =< walIndex(target) /\ walIndex(target) =< LastIndex
           /\ Len(tree) = walIndex(target) /\ Version(tree) = target
           /\ \A v \in DOMAIN snaps : v =< target => Len(snaps[v]) =< walIndex(target)
<1>1. /\ CoreInv /\ target \in RollbackTargets /\ walIndex(target) =< Len(chain)
      /\ Len(tree) = walIndex(target)
  BY DEF RollbackInv, PhaseInv
<1>2. /\ walFirst \in Nat \ {0} /\ tree \in Seq(Data) /\ Len(tree) \in Nat
      /\ Len(chain) \in Nat /\ Len(chain) =< MaxVersion /\ MaxVersion \in Nat
      /\ Len(tree) =< Len(chain) /\ LastIndex \in Nat
  BY <1>1, CoreShape, ConstantsAssumption DEF CoreInv, TypeOK, ShapeFacts
<1>3. target \in Nat
  BY <1>1, RollbackAssumption
<1>4. walIndex(target) =< MaxVersion /\ Len(tree) =< MaxVersion
  BY <1>1, <1>2
<1>5. walIndex(target) \in Nat \ {0} /\ walFirst =< walIndex(target) /\ walIndex(target) =< LastIndex
  BY <1>1, <1>2 DEF Readable
<1>6. Version(tree) = target
  BY <1>1, <1>2, <1>3, <1>4, <1>5, TargetIndex
<1>7. ASSUME NEW v \in DOMAIN snaps, v =< target PROVE Len(snaps[v]) =< walIndex(target)
  <2>1. snaps[v] \in Seq(Data) /\ Len(snaps[v]) =< MaxVersion /\ Version(snaps[v]) = v
    BY <1>1, CoreSnapShape
  <2>. QED  BY <1>3, <1>4, <1>7, <2>1, TargetIndex
<1>. QED  BY <1>1, <1>5, <1>6, <1>7

\* Cutting the WAL, and with it the chain.
LEMMA RollbackTruncateStep ==
    ASSUME OneTarget, RollbackInv, RollbackTruncate
    PROVE  RollbackInv'
<1>. USE DEF linkVars, walVars, mainVars, writerVars, rewriterVars, prunerVars, envVars
<1>0. CoreInv /\ rollback = "truncate"
  BY DEF RollbackInv, RollbackTruncate, TruncateBack
<1>1. CASE ~Readable(walIndex(target))
  <2>1. crashes' = crashes /\ Abandon /\ UNCHANGED <<linkVars, walVars, chain>>
    BY <1>1 DEF RollbackTruncate, TruncateBack
  <2>2. crashes' \in Nat
    BY <1>0, <2>1 DEF CoreInv, TypeOK
  <2>. QED  BY <2>1, <2>2, AbandonStep
<1>2. CASE Readable(walIndex(target))
  <2>. DEFINE n == walIndex(target)
  <2>1. /\ walLog' = SubSeq(walLog, 1, n - walFirst + 1) /\ chain' = SubSeq(chain, 1, n)
        /\ rollback' = "remove"
        /\ UNCHANGED <<walFirst, linkVars, mainVars, writerVars, rewriterVars,
                       prunerVars, crashes, target>>
    BY <1>2 DEF RollbackTruncate, TruncateBack
  <2>2. /\ n \in Nat \ {0} /\ n =< Len(chain) /\ walFirst =< n /\ n =< LastIndex
        /\ Len(tree) = n
        /\ \A v \in DOMAIN snaps : v =< target => Len(snaps[v]) =< n
    BY <1>0, <1>2, CutFacts
  <2>. HIDE DEF n
  <2>3. /\ walLog \in Seq(Data) /\ chain \in Seq(Data) /\ walFirst \in Nat \ {0}
        /\ Len(walLog) \in Nat /\ Len(chain) \in Nat /\ Len(chain) =< MaxVersion
        /\ LastIndex = walFirst + Len(walLog) - 1 /\ MaxVersion \in Nat
    BY <1>0, CoreShape, ConstantsAssumption DEF CoreInv, TypeOK, ShapeFacts, LastIndex
  <2>4. /\ chain' \in Seq(Data) /\ Len(chain') = n
        /\ \A i \in 1 .. n : chain'[i] = chain[i]
    BY <2>1, <2>2, <2>3, SubSeqOfLog
  <2>5. /\ walLog' \in Seq(Data) /\ Len(walLog') = n - walFirst + 1
        /\ \A i \in 1 .. n - walFirst + 1 : walLog'[i] = walLog[i]
    <3>1. /\ n - walFirst + 1 \in Int /\ 1 =< n - walFirst + 1
          /\ n - walFirst + 1 =< Len(walLog)
      BY <2>2, <2>3
    <3>. QED  BY <2>1, <2>3, <3>1, SubSeqOfLog
  <2>6. ASSUME NEW u \in Seq(Data), Agrees(u), Len(u) =< n
        PROVE  Len(u) =< Len(chain') /\ \A i \in 1 .. Len(u) : u[i] = chain'[i]
    <3>1. Len(u) \in Nat
      BY LenProperties
    <3>. QED  BY <2>2, <2>4, <2>6, <3>1 DEF Agrees
  <2>7. /\ main = "down" /\ main' = "down" /\ rewriter' = "off" /\ pruner' = "off"
        /\ walChan = <<>> /\ batch = <<>> /\ mtree = <<>>
        /\ current = base /\ base \in DOMAIN snaps /\ base =< target
        /\ target \in RollbackTargets
    BY <1>0, <2>1 DEF RollbackInv, PhaseInv, DownInv, CoreInv, RewriteInv
  <2>8. KeptAgree'
    <3>. SUFFICES ASSUME NEW t \in RollbackTargets, NEW v \in DOMAIN snaps', v =< t
                  PROVE  Agrees(snaps[v])'
      BY DEF KeptAgree
    <3>1. v \in DOMAIN snaps /\ t = target /\ snaps' = snaps
      BY <2>1, <2>7 DEF OneTarget
    <3>2. Agrees(snaps[v]) /\ snaps[v] \in Seq(Data) /\ Len(snaps[v]) =< n
      BY <1>0, <2>2, <3>1 DEF RollbackInv, KeptAgree, CoreInv, TypeOK
    <3>. QED  BY <2>6, <3>1, <3>2 DEF Agrees
  <2>9. Len(<<>>) = 0
    BY EmptySeq
  <2>10. TypeOK'
    <3>1. TypeOK /\ walLog' \in Seq(Data) /\ chain' \in Seq(Data)
      BY <1>0, <2>4, <2>5 DEF CoreInv
    <3>2. UNCHANGED <<walFirst, linkVars, mainVars, writerVars, rewriterVars,
                      prunerVars, crashes>>
      BY <2>1
    <3>. QED  BY <3>1, <3>2 DEF TypeOK
  <2>11. CoreAgrees'
    <3>1. Agrees(tree)'
      <4>1. tree \in Seq(Data) /\ Agrees(tree) /\ tree' = tree /\ Len(tree) =< n
        BY <1>0, <2>1, <2>2 DEF CoreInv, TypeOK, CoreAgrees
      <4>. QED  BY <2>6, <4>1 DEF Agrees
    <3>2. Agrees(mtree)'
      BY <2>1, <2>2, <2>4, <2>7, <2>9 DEF Agrees
    <3>3. Agrees(snaps[current])'
      <4>1. base \in DOMAIN snaps' /\ current' = base
        BY <2>1, <2>7
      <4>2. Agrees(snaps[base]) /\ snaps[base] \in Seq(Data) /\ Len(snaps[base]) =< n
        BY <1>0, <2>2, <2>7 DEF RollbackInv, KeptAgree, CoreInv, TypeOK
      <4>3. snaps' = snaps
        BY <2>1
      <4>. QED  BY <2>6, <4>1, <4>2, <4>3 DEF Agrees
    <3>4. \A v \in DOMAIN snaps' : Version(snaps[v])' = v /\ Len(snaps'[v]) =< MaxVersion
      BY <1>0, <2>1 DEF CoreInv, CoreAgrees, Version
    <3>5. LogAgrees'
      <4>. SUFFICES ASSUME NEW k \in 1 .. Len(walLog')
                    PROVE  /\ walFirst' + k - 1 =< Len(chain')
                           /\ walLog'[k] = chain'[walFirst' + k - 1]
        BY DEF LogAgrees
      <4>1. /\ k \in 1 .. n - walFirst + 1 /\ k \in 1 .. Len(walLog)
            /\ walFirst + k - 1 \in 1 .. n
        BY <2>2, <2>3, <2>5
      <4>2. walLog[k] = chain[walFirst + k - 1]
        BY <1>0, <4>1 DEF CoreInv, CoreAgrees, LogAgrees
      <4>3. walFirst' = walFirst
        BY <2>1
      <4>. QED  BY <2>4, <2>5, <4>1, <4>2, <4>3
    <3>. QED  BY <2>7, <3>1, <3>2, <3>3, <3>4, <3>5 DEF CoreAgrees
  <2>12. QueueAgrees'
    BY <2>1, <2>2, <2>3, <2>4, <2>7, <2>9 DEF QueueAgrees
  <2>13. CurrentNeverDangles' /\ WalCoversSnapshots'
    BY <1>0, <2>1 DEF CoreInv, CurrentNeverDangles, WalCoversSnapshots
  <2>14. CoreInv'
    BY <2>7, <2>10, <2>11, <2>12, <2>13, DownCore
  <2>15. DownInv'
    BY <2>1, <2>7 DEF DownInv
  <2>16. PhaseInv'
    <3>1. LastIndex' = n
      <4>1. walFirst' = walFirst /\ Len(walLog') = n - walFirst + 1
        BY <2>1, <2>5
      <4>2. n \in Int /\ walFirst \in Int
        BY <2>2, <2>3
      <4>. QED  BY <4>1, <4>2 DEF LastIndex
    <3>2. walIndex(target)' = n
      BY <2>1 DEF n, walIndex
    <3>3. Readable(walIndex(target))'
      BY <2>1, <2>2, <2>3, <3>1, <3>2 DEF Readable
    <3>4. walIndex(target)' =< Len(chain')
      BY <2>2, <2>4, <3>2
    <3>5. Len(snaps[base])' =< Len(tree)'
      BY <1>0, <2>1 DEF RollbackInv, PhaseInv
    <3>. QED  BY <2>1, <2>2, <2>7, <3>1, <3>2, <3>3, <3>4, <3>5 DEF PhaseInv
  <2>. QED  BY <2>8, <2>14, <2>15, <2>16 DEF RollbackInv
<1>. QED  BY <1>1, <1>2

\* Removing a snapshot above the target.
LEMMA RollbackRemoveStep ==
    ASSUME RollbackInv, RollbackRemove
    PROVE  RollbackInv'
<1>. USE DEF linkVars, walVars, mainVars, writerVars, rewriterVars, prunerVars, envVars,
             rollbackVars
<1>1. PICK v \in Newer : snaps' = [w \in DOMAIN snaps \ {v} |-> snaps[w]]
  BY DEF RollbackRemove
<1>2. /\ rollback = "remove" /\ CoreInv /\ v > target
      /\ UNCHANGED <<current, curTmp, tmps, walVars, mainVars, writerVars, rewriterVars,
                     prunerVars, envVars, rollbackVars>>
  BY <1>1 DEF RollbackRemove, RollbackInv, Newer
<1>3. /\ main = "down" /\ target \in RollbackTargets /\ base \in DOMAIN snaps
      /\ base =< target /\ current = base
  BY <1>2 DEF RollbackInv, PhaseInv
<1>4. base # v
  <2>1. base \in Nat /\ v \in Nat /\ target \in Nat
    BY <1>1, <1>2, <1>3, CoreSnapShape, RollbackAssumption DEF Newer
  <2>. QED  BY <1>2, <1>3, <2>1
<1>5. /\ DOMAIN snaps' = DOMAIN snaps \ {v} /\ base \in DOMAIN snaps'
      /\ \A w \in DOMAIN snaps' : w \in DOMAIN snaps /\ snaps'[w] = snaps[w]
  BY <1>1, <1>3, <1>4
<1>6. TypeOK'
  BY <1>2, <1>5 DEF CoreInv, TypeOK
<1>7. main' = "down" /\ rewriter' = "off" /\ pruner' = "off"
  BY <1>2, <1>3 DEF CoreInv, RewriteInv
<1>8. CoreAgrees'
  <2>1. Agrees(tree)' /\ Agrees(mtree)'
    BY <1>2 DEF CoreInv, CoreAgrees, Agrees
  <2>2. Agrees(snaps[current])'
    BY <1>2, <1>3, <1>5 DEF CoreInv, CoreAgrees, Agrees
  <2>3. \A w \in DOMAIN snaps' : Version(snaps[w])' = w /\ Len(snaps'[w]) =< MaxVersion
    BY <1>2, <1>5 DEF CoreInv, CoreAgrees, Version
  <2>4. LogAgrees'
    BY <1>2 DEF CoreInv, CoreAgrees, LogAgrees
  <2>. QED  BY <1>7, <2>1, <2>2, <2>3, <2>4 DEF CoreAgrees
<1>9. QueueAgrees'
  BY <1>2 DEF CoreInv, QueueAgrees, EntryAgrees
<1>10. CurrentNeverDangles' /\ WalCoversSnapshots'
  BY <1>2, <1>3, <1>5 DEF CoreInv, CurrentNeverDangles, WalCoversSnapshots
<1>11. CoreInv'
  BY <1>6, <1>7, <1>8, <1>9, <1>10, DownCore
<1>12. DownInv'
  BY <1>2 DEF RollbackInv, DownInv
<1>13. KeptAgree'
  BY <1>2, <1>5 DEF RollbackInv, KeptAgree, Agrees
<1>14. PhaseInv'
  BY <1>2, <1>3, <1>5 DEF RollbackInv, PhaseInv, Readable, LastIndex
<1>. QED  BY <1>11, <1>12, <1>13, <1>14 DEF RollbackInv

\* Load returns the database at the target.
LEMMA RollbackDoneStep ==
    ASSUME RollbackInv, RollbackDone
    PROVE  RollbackInv'
<1>. USE DEF linkVars, walVars, mainVars, writerVars, rewriterVars, prunerVars, envVars
<1>1. /\ rollback = "remove" /\ CoreInv /\ main' = "idle" /\ walChanSize' \in Int
      /\ rollback' = "off"
      /\ UNCHANGED <<linkVars, walVars, tree, base, pending, err, writerVars,
                     rewriterVars, prunerVars, envVars>>
  BY ConstantsAssumption DEF RollbackDone, RollbackInv
<1>2. /\ main = "down" /\ base \in DOMAIN snaps /\ Len(snaps[base]) =< Len(tree)
  BY <1>1 DEF RollbackInv, PhaseInv
<1>3. rewriter' = "off" /\ pruner' = "off"
  BY <1>1, <1>2 DEF CoreInv, RewriteInv
<1>4. TypeOK'
  BY <1>1 DEF CoreInv, TypeOK
<1>5. CoreAgrees'
  BY <1>1 DEF CoreInv, CoreAgrees, LogAgrees, Agrees, Version
<1>6. QueueAgrees'
  BY <1>1 DEF CoreInv, QueueAgrees, EntryAgrees
<1>7. CurrentNeverDangles' /\ WalCoversSnapshots'
  BY <1>1 DEF CoreInv, CurrentNeverDangles, WalCoversSnapshots
<1>8. RewriteInv' /\ PruneInv'
  <2>1. walFirst \in Nat /\ Len(snaps[base]) \in Nat /\ Len(tree) \in Nat
    BY <1>1, <1>2, CoreShape, CoreSnapShape DEF CoreInv, TypeOK, ShapeFacts
  <2>2. walFirst =< Len(snaps[base]) + 1
    BY <1>1, <1>2 DEF CoreInv, WalCoversSnapshots
  <2>3. walFirst' =< Len(tree') + 1
    BY <1>1, <1>2, <2>1, <2>2
  <2>. QED  BY <1>1, <1>3, <2>3 DEF RewriteInv, PruneInv
<1>9. SwitchInv'
  <2>1. base =< Version(tree)
    <3>1. snaps[base] \in Seq(Data) /\ Version(snaps[base]) = base /\ tree \in Seq(Data)
      BY <1>1, <1>2, CoreSnapShape DEF CoreInv, TypeOK
    <3>. QED  BY <1>2, <3>1, VersionOrder
  <2>2. base' =< Version(tree)'
    BY <1>1, <2>1 DEF Version
  <2>. QED  BY <1>1, <1>3, <2>2 DEF SwitchInv
<1>10. CoreInv'
  BY <1>4, <1>5, <1>6, <1>7, <1>8, <1>9 DEF CoreInv
<1>11. DownInv' /\ KeptAgree' /\ PhaseInv'
  BY <1>1 DEF RollbackInv, DownInv, KeptAgree, Agrees, PhaseInv
<1>. QED  BY <1>10, <1>11 DEF RollbackInv

\* Every step of the database and of the rollback preserves the invariant.
LEMMA RollbackNext ==
    ASSUME OneTarget, RollbackInv, [RNext]_allVars
    PROVE  RollbackInv'
<1>1. CASE rollback = "off" /\ Next /\ UNCHANGED rollbackVars
  BY <1>1, BetweenStep
<1>2. CASE RollbackStep
  BY <1>2, RollbackLoadStep, RollbackSymlinkStep, RollbackLinkStep, RollbackTruncateStep,
     RollbackRemoveStep, RollbackDoneStep, RollbackCrashStep DEF RollbackStep
<1>3. CASE UNCHANGED allVars
  <2>1. UNCHANGED vars /\ UNCHANGED rollbackVars
    BY <1>3 DEF allVars
  <2>2. CoreInv'
    BY <2>1, NextCore DEF OneTarget, RollbackInv
  <2>3. DownInv' /\ KeptAgree'
    BY <2>1 DEF vars, RollbackInv, DownInv, KeptAgree, Agrees
  <2>4. PhaseInv'
    BY <2>1 DEF vars, rollbackVars, RollbackInv, PhaseInv, Readable, LastIndex
  <2>. QED  BY <2>2, <2>3, <2>4 DEF RollbackInv
<1>. QED  BY <1>1, <1>2, <1>3 DEF RNext
\* RollbackInv is an invariant of the database with rollbacks to one version.
THEOREM RollbackInvariance ==
    ASSUME OneTarget
    PROVE  RSpec => []RollbackInv
<1>1. RollbackInv /\ [RNext]_allVars => RollbackInv'
  BY RollbackNext
<1>. QED  BY <1>1, RollbackInit, PTL DEF RSpec

\* Wherever Load with LoadForOverwriting is killed, and whatever other blocks are
\* committed at the abandoned heights, the next Load of the latest version finds
\* a snapshot, can replay the WAL on it, and gets blocks of the new history only.
THEOREM RollbackAgreement ==
    ASSUME OneTarget
    PROVE  RSpec => []LatestAgrees
<1>1. RollbackInv => LatestAgrees
  <2>. SUFFICES ASSUME RollbackInv PROVE LatestAgrees
    OBVIOUS
  <2>1. CoreInv
    BY DEF RollbackInv
  <2>. QED  BY <2>1, CoreRecovered
            DEF LatestAgrees, CoreInv, CoreAgrees, CurrentNeverDangles
<1>. QED  BY <1>1, RollbackInvariance, PTL

\* When Load with LoadForOverwriting returns, also when it repeats a rollback that
\* was killed, the database is at the target version: the tree, the WAL and what
\* the next Load finds end there, and no snapshot above it is left.
THEOREM RollbackReaches ==
    ASSUME OneTarget
    PROVE  RSpec => RollbackTruncates
<1>1. ASSUME RollbackInv, [RNext]_allVars, rollback = "remove", main' = "idle"
      PROVE  /\ Version(tree') = target
             /\ Recovered' = tree' /\ LastIndex' = walIndex(target)
             /\ \A v \in DOMAIN snaps' : v =< target
  <2>. USE DEF linkVars, walVars, mainVars, writerVars, rewriterVars, prunerVars, envVars
  <2>1. main = "down" /\ CoreInv /\ base \in DOMAIN snaps /\ base =< target /\ current = base
        /\ Readable(walIndex(target)) /\ LastIndex = walIndex(target)
        /\ target \in RollbackTargets /\ Len(snaps[base]) =< Len(tree)
    BY <1>1 DEF RollbackInv, PhaseInv
  <2>2. RollbackDone
    <3>1. ~UNCHANGED allVars
      BY <1>1, <2>1 DEF allVars, vars
    <3>2. ~(RollbackSymlink \/ RollbackLink \/ RollbackTruncate \/ RollbackRemove \/ RollbackCrash)
      BY <1>1, <2>1 DEF RollbackSymlink, RollbackLink, RollbackTruncate, TruncateBack,
           RollbackRemove, RollbackCrash, Abandon, ProcessGone
    <3>3. ~\E t \in RollbackTargets : RollbackLoad(t)
      BY <1>1 DEF RollbackLoad
    <3>. QED  BY <1>1, <3>1, <3>2, <3>3 DEF RNext, RollbackStep
  <2>3. Newer = {} /\ UNCHANGED <<linkVars, walVars, tree>>
    BY <2>2 DEF RollbackDone
  <2>4. Version(tree) = target /\ Len(tree) = walIndex(target)
    BY <1>1, <2>1, CutFacts
  <2>5. \A v \in DOMAIN snaps : v =< target
    <3>. TAKE v \in DOMAIN snaps
    <3>1. v \in Nat /\ target \in Nat
      BY <2>1, CoreSnapShape, RollbackAssumption
    <3>2. ~(v > target)
      BY <2>3 DEF Newer
    <3>. QED  BY <3>1, <3>2
  <2>6. Recovered = tree
    <3>1. /\ Recovered \in Seq(Data) /\ Agrees(Recovered) /\ Len(Recovered) \in Nat
          /\ LastIndex =< Len(Recovered)
          /\ Len(Recovered) = LastIndex \/ Len(Recovered) = Len(snaps[base])
      BY <2>1, CoreRecovered
    <3>2. tree \in Seq(Data) /\ Agrees(tree) /\ Len(tree) \in Nat /\ LastIndex \in Nat
      BY <2>1, CoreShape DEF CoreInv, CoreAgrees, TypeOK, ShapeFacts
    <3>3. Len(Recovered) = Len(tree)
      BY <2>1, <2>4, <3>1, <3>2
    <3>. QED  BY <3>1, <3>2, <3>3, AgreeEqual
  <2>7. Recovered' = Recovered /\ LastIndex' = LastIndex
    BY <2>3 DEF Recovered, LastIndex, Catchup, CatchupFirst, CatchupLast, Version
  <2>8. Version(tree') = Version(tree)
    BY <2>3
  <2>. QED  BY <2>1, <2>3, <2>4, <2>5, <2>6, <2>7, <2>8
<1>. QED  BY <1>1, RollbackInvariance, PTL DEF RSpec, RollbackTruncates
-----------------------------------------------------------------------------
(***************************************************************************)
(* What a rollback keeps.  With asynchronous commits, or a WAL that loses  *)
(* its unsynced end, the current snapshot may be ahead of the WAL; moving  *)
(* the link below it then gives up blocks that the WAL does not hold.      *)
(***************************************************************************)
SyncWal == ~PowerLoss /\ \A n \in WalChanSizes : n < 0

\* A synchronous commit whose write succeeds ends with the tree at the end of the WAL.
LEMMA SyncCommitLogged ==
    ASSUME CoreInv, LoggedInv, CommitSync
    PROVE  /\ LastIndex' \in Nat /\ LastIndex =< LastIndex'
           /\ main' # "failed" => Len(tree') =< LastIndex'
<1>. USE DEF linkVars, walVars, writerVars, rewriterVars, prunerVars, envVars
<1>. DEFINE es == <<Entry(nextVersion(Version(tree)))>>
<1>1. /\ SaveVersion /\ walFirst' = walFirst
      /\ \E m \in 0 .. 1 :
          /\ Skipped(es, m)
          /\ \/ Contiguous(es, m) /\ AppendToWal(es, m)
             \/ main' = "failed" /\ walLog' = walLog
  BY DEF CommitSync
<1>2. /\ Len(tree') = Len(tree) + 1 /\ Len(tree) \in Nat
      /\ walIndex(nextVersion(Version(tree))) = Len(tree) + 1
  BY <1>1, CoreSaveVersion, CoreShape DEF ShapeFacts
<1>3. /\ walFirst \in Nat \ {0} /\ walLog \in Seq(Data) /\ Len(walLog) \in Nat
      /\ pending \in Data /\ LastIndex = walFirst + Len(walLog) - 1 /\ LastIndex \in Nat
  BY CoreShape DEF CoreInv, TypeOK, ShapeFacts, LastIndex
<1>4. /\ es \in Seq(WalEntry) /\ Len(es) = 1 /\ es[1].index = Len(tree) + 1
  BY <1>2, <1>3 DEF Entry, WalEntry
<1>. HIDE DEF es
<1>5. PICK m \in 0 .. 1 :
          /\ Skipped(es, m)
          /\ \/ Contiguous(es, m) /\ AppendToWal(es, m)
             \/ main' = "failed" /\ walLog' = walLog
  BY <1>1
<1>6. CASE main' = "failed" /\ walLog' = walLog
  BY <1>1, <1>3, <1>6 DEF LastIndex
<1>7. CASE Contiguous(es, m) /\ AppendToWal(es, m)
  <2>1. m \in 0 .. Len(es)
    BY <1>4
  <2>2. Len(walLog') = Len(walLog) + (Len(es) - m)
    BY <1>3, <1>4, <1>7, <2>1, LogGrows DEF AppendToWal
  <2>3. LastIndex' = LastIndex + (1 - m)
    <3>1. walFirst' = walFirst /\ Len(walLog') = Len(walLog) + (1 - m)
      BY <1>1, <1>4, <2>2
    <3>. QED  BY <1>3, <3>1 DEF LastIndex
  <2>4. CASE m = 1
    <3>1. es[1].index =< LastIndex
      BY <1>4, <1>5, <2>4 DEF Skipped
    <3>. QED  BY <1>2, <1>3, <1>4, <2>3, <2>4, <3>1
  <2>5. CASE m = 0
    <3>1. es[1].index = LastIndex + 1
      BY <1>4, <1>7, <2>5 DEF Contiguous
    <3>. QED  BY <1>2, <1>3, <1>4, <2>3, <2>5, <3>1
  <2>. QED  BY <2>4, <2>5
<1>. QED  BY <1>5, <1>6, <1>7

\* The WAL keeps its end, and what the caller works on is in it.
LEMMA TreeLogged ==
    ASSUME OneTarget, SyncWal, CoreInv, LoggedInv, [Next]_vars
    PROVE  /\ LastIndex' \in Nat /\ LastIndex =< LastIndex'
           /\ main' \notin {"down", "failed"} => Len(tree') =< LastIndex'
<1>. USE DEF linkVars, walVars, mainVars, writerVars, rewriterVars, prunerVars, envVars
<1>1. /\ LastIndex \in Nat /\ walFirst \in Nat \ {0} /\ walLog \in Seq(Data)
      /\ Len(walLog) \in Nat /\ LastIndex = walFirst + Len(walLog) - 1
      /\ writer = "off"
  BY CoreShape DEF CoreInv, TypeOK, ShapeFacts, LastIndex, LoggedInv
<1>2. ASSUME UNCHANGED walVars PROVE LastIndex' = LastIndex
  BY <1>2 DEF LastIndex
<1>3. CASE CommitSync
  BY <1>3, SyncCommitLogged
<1>4. ASSUME NEW t \in LoadTargets, Load(t)
      PROVE  UNCHANGED walVars /\ Len(tree') =< LastIndex
  <2>1. t = 0
    BY DEF OneTarget
  <2>2. tree' = Recovered /\ UNCHANGED walVars
    BY <1>4, <2>1 DEF Load, Recovered
  <2>3. Len(Recovered) = LastIndex \/ Len(Recovered) = Len(snaps[current])
    BY CoreRecovered
  <2>4. Len(snaps[current]) =< LastIndex
    BY DEF LoggedInv
  <2>. QED  BY <1>1, <2>2, <2>3, <2>4
<1>5. CASE CallerStep /\ ~CommitSync
  <2>1. ~CommitAsync
    BY DEF LoggedInv, CommitAsync, SyncWal, CoreInv, TypeOK
  <2>2. CASE Exit
    BY <1>1, <1>2, <2>2 DEF Exit, ProcessGone
  <2>3. ASSUME \E b \in Block : ApplyChangeSets(b) PROVE UNCHANGED walVars /\ Len(tree') =< LastIndex
    BY <2>3 DEF ApplyChangeSets, LoggedInv
  <2>4. ASSUME WaitAsyncCommit \/ Close PROVE UNCHANGED walVars /\ Len(tree') =< LastIndex
    BY <2>4 DEF WaitAsyncCommit, Close, LoggedInv
  <2>. QED  BY <1>1, <1>2, <1>4, <1>5, <2>1, <2>2, <2>3, <2>4 DEF CallerStep
<1>6. CASE MainStep
  <2>1. UNCHANGED walVars
    BY <1>6 DEF MainStep, Send, CheckAsyncCommit, CheckBackgroundNone, CheckBackgroundResult,
         Switch, PruneSnapshots, WaitAsyncCommitDone, CloseWal, CloseRewrite
  <2>2. CASE Switch
    <3>1. CASE CanCatchup(mtree, 0)
      <4>1. /\ tree' = Catchup(mtree, 0) /\ main = "spin"
            /\ TypeOK /\ LogAgrees /\ QueueAgrees /\ mtree \in Seq(Data) /\ Agrees(mtree)
        BY <2>2, <3>1 DEF Switch, CoreInv, CoreAgrees, TypeOK
      <4>2. Len(tree') = IF Len(mtree) + 1 > LastIndex THEN Len(mtree) ELSE LastIndex
        BY <3>1, <4>1, CatchupAgrees DEF CatchupLast
      <4>3. Len(mtree) =< LastIndex
        <5>1. Len(mtree) =< Len(tree) \/ Len(mtree) =< LastIndex
          BY <4>1 DEF CoreInv, SwitchInv
        <5>2. Len(tree) =< LastIndex /\ Len(tree) \in Nat /\ Len(mtree) \in Nat
          BY <4>1, CoreShape DEF LoggedInv, ShapeFacts
        <5>. QED  BY <1>1, <5>1, <5>2
      <4>. QED  BY <1>1, <1>2, <2>1, <4>2, <4>3
    <3>2. CASE ~CanCatchup(mtree, 0)
      BY <1>1, <1>2, <2>1, <2>2, <3>2 DEF Switch
    <3>. QED  BY <3>1, <3>2
  <2>3. CASE ~Switch
    <3>1. tree' = tree /\ main \notin {"down", "failed"}
      BY <1>6, <2>3 DEF MainStep, Send, CheckAsyncCommit, CheckBackgroundNone,
           CheckBackgroundResult, PruneSnapshots, WaitAsyncCommitDone, CloseWal, CloseRewrite
    <3>. QED  BY <1>1, <1>2, <2>1, <3>1 DEF LoggedInv
  <2>. QED  BY <2>2, <2>3
<1>7. ~WriterStep
  BY <1>1 DEF WriterStep, WriterRecv, WriterWrite, WriterFail, WriterEnd
<1>8. CASE RewriterStep
  <2>1. UNCHANGED <<walVars, mainVars>>
    BY <1>8 DEF RewriterStep, RewriterUnchanged, RewriteWrite, RewriteRename,
         RewriteSymlink, RewriteLink, RewriteLoad, RewriteCatchup
  <2>. QED  BY <1>1, <1>2, <2>1 DEF LoggedInv
<1>9. CASE PrunerStep
  <2>1. UNCHANGED mainVars
    BY <1>9 DEF PrunerStep, PruneCurrent, PruneList, PruneRemove, PruneFirst, PruneTruncate
  <2>2. LastIndex' = LastIndex
    <3>1. CASE UNCHANGED walVars
      BY <1>2, <3>1
    <3>2. CASE ~UNCHANGED walVars
      <4>. DEFINE i == walIndex(earliest + 1)
      <4>1. /\ Readable(i) /\ walFirst' = i
            /\ walLog' = SubSeq(walLog, i - walFirst + 1, Len(walLog))
        BY <1>9, <3>2 DEF PrunerStep, PruneCurrent, PruneList, PruneRemove, PruneFirst,
             PruneTruncate
      <4>. HIDE DEF i
      <4>2. /\ i \in Int /\ walFirst =< i /\ i =< LastIndex
            /\ i - walFirst + 1 \in Nat \ {0} /\ i - walFirst + 1 =< Len(walLog)
        BY <1>1, <4>1 DEF Readable
      <4>3. Len(walLog') = Len(walLog) - (i - walFirst + 1) + 1
        BY <1>1, <4>1, <4>2, SubSeqOfLog
      <4>. QED  BY <1>1, <4>1, <4>2, <4>3 DEF LastIndex
    <3>. QED  BY <3>1, <3>2
  <2>. QED  BY <1>1, <2>1, <2>2 DEF LoggedInv
<1>10. CASE Crash
  <2>1. /\ walLog' = SubSeq(walLog, 1, Len(walLog)) /\ walFirst' = walFirst
        /\ main' = "down"
    BY <1>10 DEF Crash, ProcessGone, SyncWal
  <2>2. Len(walLog') = Len(walLog)
    BY <1>1, <2>1, SubSeqOfLog
  <2>. QED  BY <1>1, <2>1, <2>2 DEF LastIndex
<1>11. CASE UNCHANGED vars
  BY <1>1, <1>2, <1>11 DEF vars, LoggedInv
<1>. QED  BY <1>3, <1>5, <1>6, <1>7, <1>8, <1>9, <1>10, <1>11 DEF Next
\* The tree of a running rewrite was committed, and so is in the WAL; the link moves
\* to its snapshot only.
LEMMA RewriteLogged ==
    ASSUME CoreInv, LoggedInv, [Next]_vars
    PROVE  /\ rewriter' \in {"write", "rename", "symlink", "link"} => Len(mtree') =< LastIndex
           /\ \/ current' = current
              \/ rewriter = "link" /\ current' = Version(mtree) /\ snaps' = snaps
<1>. USE DEF linkVars, walVars, mainVars, writerVars, rewriterVars, prunerVars, envVars
<1>1. rewriter \in {"write", "rename", "symlink", "link"} => Len(mtree) =< LastIndex
  BY DEF LoggedInv
<1>2. CASE CallerStep
  <2>1. CASE Exit
    BY <2>1 DEF Exit, ProcessGone
  <2>2. CASE ~Exit
    <3>1. UNCHANGED <<rewriter, mtree, current>>
      BY <1>2, <2>2 DEF CallerStep, Load, ApplyChangeSets, CommitAsync, CommitSync,
           WaitAsyncCommit, Close
    <3>. QED  BY <1>1, <3>1
  <2>. QED  BY <2>1, <2>2
<1>3. CASE CheckBackgroundNone \/ PruneSnapshots
  <2>1. /\ current' = current /\ main \notin {"down", "failed"}
        /\ \/ rewriter' = rewriter /\ mtree' = mtree
           \/ mtree' = tree
           \/ rewriter' = "off"
    BY <1>3 DEF CheckBackgroundNone, PruneSnapshots, FinishCommit
  <2>. QED  BY <1>1, <2>1 DEF LoggedInv
<1>4. CASE MainStep /\ ~CheckBackgroundNone /\ ~PruneSnapshots
  <2>1. /\ current' = current
        /\ \/ rewriter' = rewriter /\ mtree' = mtree
           \/ rewriter' = "off"
           \/ rewriter' = rewriter /\ main = "spin"
    BY <1>4 DEF MainStep, Send, CheckAsyncCommit, CheckBackgroundResult, Switch,
         WaitAsyncCommitDone, CloseWal, CloseRewrite
  <2>2. main = "spin" => rewriter = "off"
    BY DEF CoreInv, RewriteInv
  <2>. QED  BY <1>1, <2>1, <2>2
<1>5. CASE WriterStep
  BY <1>1, <1>5 DEF WriterStep, WriterRecv, WriterWrite, WriterFail, WriterEnd
<1>6. CASE RewriteLink
  BY <1>6 DEF RewriteLink
<1>7. CASE RewriteWrite \/ RewriteRename \/ RewriteSymlink
  BY <1>1, <1>7 DEF RewriteWrite, RewriteRename, RewriteSymlink
<1>8. CASE RewriteLoad \/ RewriteCatchup
  BY <1>8 DEF RewriteLoad, RewriteCatchup
<1>9. CASE PrunerStep
  BY <1>1, <1>9 DEF PrunerStep, PruneCurrent, PruneList, PruneRemove, PruneFirst,
       PruneTruncate
<1>10. CASE Crash
  BY <1>10 DEF Crash, ProcessGone
<1>11. CASE UNCHANGED vars
  BY <1>1, <1>11 DEF vars
<1>. QED  BY <1>2, <1>3, <1>4, <1>5, <1>6, <1>7, <1>8, <1>9, <1>10, <1>11
          DEF Next, RewriterStep

\* Without asynchronous commits no WAL writer is started.
LEMMA NoWriter ==
    ASSUME SyncWal, CoreInv, LoggedInv, [Next]_vars
    PROVE  writer' = "off" /\ (main' # "down" => walChanSize' < 0)
<1>. USE DEF linkVars, walVars, mainVars, writerVars, rewriterVars, prunerVars, envVars
<1>1. writer = "off" /\ (main # "down" => walChanSize < 0) /\ walChanSize \in Int
  BY DEF LoggedInv, CoreInv, TypeOK
<1>2. CASE CallerStep
  <2>1. ~CommitAsync
    BY <1>1 DEF CommitAsync
  <2>2. ASSUME NEW t \in LoadTargets, Load(t) PROVE writer' = "off" /\ walChanSize' < 0
    BY <1>1, <2>2 DEF Load, SyncWal
  <2>3. ASSUME Exit PROVE writer' = "off" /\ main' = "down"
    BY <2>3 DEF Exit, ProcessGone
  <2>4. ASSUME (\E b \in Block : ApplyChangeSets(b)) \/ CommitSync \/ WaitAsyncCommit \/ Close
        PROVE  writer' = "off" /\ walChanSize' < 0
    BY <1>1, <2>4 DEF ApplyChangeSets, CommitSync, WaitAsyncCommit, Close
  <2>. QED  BY <1>2, <2>1, <2>2, <2>3, <2>4 DEF CallerStep
<1>3. CASE MainStep
  <2>1. walChanSize' = walChanSize /\ main # "down"
    BY <1>3 DEF MainStep, Send, CheckAsyncCommit, CheckBackgroundNone, CheckBackgroundResult,
         Switch, PruneSnapshots, WaitAsyncCommitDone, CloseWal, CloseRewrite
  <2>2. writer' = "off"
    <3>1. ~Send
      BY <1>1, <2>1 DEF Send
    <3>. QED  BY <1>1, <1>3, <3>1 DEF MainStep, CheckAsyncCommit, CheckBackgroundNone,
                CheckBackgroundResult, Switch, PruneSnapshots, WaitAsyncCommitDone, CloseWal,
                CloseRewrite
  <2>. QED  BY <1>1, <2>1, <2>2
<1>4. ~WriterStep
  BY <1>1 DEF WriterStep, WriterRecv, WriterWrite, WriterFail, WriterEnd
<1>5. CASE RewriterStep
  BY <1>1, <1>5 DEF RewriterStep, RewriterUnchanged, RewriteWrite, RewriteRename,
       RewriteSymlink, RewriteLink, RewriteLoad, RewriteCatchup
<1>6. CASE PrunerStep
  BY <1>1, <1>6 DEF PrunerStep, PruneCurrent, PruneList, PruneRemove, PruneFirst,
       PruneTruncate
<1>7. CASE Crash
  BY <1>7 DEF Crash, ProcessGone
<1>8. CASE UNCHANGED vars
  BY <1>1, <1>8 DEF vars
<1>. QED  BY <1>2, <1>3, <1>4, <1>5, <1>6, <1>7, <1>8 DEF Next

\* The steps of MemiavlDB keep the snapshots within the WAL.
LEMMA BetweenLogged ==
    ASSUME OneTarget, SyncWal, CoreInv, LoggedInv, [Next]_vars
    PROVE  LoggedInv'
<1>1. /\ LastIndex \in Nat /\ LastIndex' \in Nat /\ LastIndex =< LastIndex'
      /\ main' \notin {"down", "failed"} => Len(tree') =< LastIndex'
  BY TreeLogged, CoreShape DEF ShapeFacts
<1>2. /\ rewriter' \in {"write", "rename", "symlink", "link"} => Len(mtree') =< LastIndex
      /\ \/ current' = current
         \/ rewriter = "link" /\ current' = Version(mtree) /\ snaps' = snaps
  BY RewriteLogged
<1>3. CoreInv'
  BY NextCore DEF OneTarget
<1>4. mtree' \in Seq(Data) /\ Len(mtree') \in Nat /\ current' \in DOMAIN snaps'
  BY <1>3, LenProperties DEF CoreInv, TypeOK, CurrentNeverDangles
<1>5. ASSUME NEW v \in DOMAIN snaps', v \in DOMAIN snaps => Len(snaps[v]) =< LastIndex
      PROVE  Len(snaps'[v]) =< LastIndex'
  <2>1. snaps'[v] \in Seq(Data) /\ Len(snaps'[v]) \in Nat
    BY <1>3, LenProperties DEF CoreInv, TypeOK
  <2>2. Len(snaps'[v]) =< LastIndex
    <3>1. rewriter = "rename" => Len(mtree) =< LastIndex
      BY DEF LoggedInv
    <3>. QED  BY <1>5, <3>1, SnapsFrom
  <2>. QED  BY <1>1, <2>1, <2>2
<1>6. Len(snaps[current])' =< LastIndex'
  <2>1. CASE current' = current
    <3>1. current \in DOMAIN snaps => Len(snaps[current]) =< LastIndex
      BY DEF LoggedInv
    <3>. QED  BY <1>4, <1>5, <2>1, <3>1
  <2>2. CASE rewriter = "link" /\ current' = Version(mtree) /\ snaps' = snaps
    <3>1. /\ Version(mtree) \in DOMAIN snaps /\ mtree \in Seq(Data)
          /\ Len(mtree) =< LastIndex
      BY <2>2 DEF CoreInv, TypeOK, RewriteInv, LoggedInv
    <3>2. /\ snaps[Version(mtree)] \in Seq(Data)
          /\ Version(snaps[Version(mtree)]) = Version(mtree)
      BY <3>1, CoreSnapShape
    <3>3. Len(snaps[Version(mtree)]) = Len(mtree)
      BY <3>1, <3>2, VersionOrder
    <3>. QED  BY <1>4, <1>5, <2>2, <3>1, <3>3
  <2>. QED  BY <1>2, <2>1, <2>2
<1>7. ASSUME NEW t \in RollbackTargets, NEW v \in DOMAIN snaps', v =< t
      PROVE  Len(snaps'[v]) =< LastIndex'
  <2>1. v \in DOMAIN snaps => Len(snaps[v]) =< LastIndex
    BY <1>7 DEF LoggedInv
  <2>. QED  BY <1>5, <2>1
<1>8. rewriter' \in {"write", "rename", "symlink", "link"} => Len(mtree') =< LastIndex'
  BY <1>1, <1>2, <1>4
<1>. QED  BY <1>1, <1>6, <1>7, <1>8, NoWriter DEF LoggedInv

\* The steps of a rollback keep them within the WAL, and keep the WAL up to the target.
LEMMA RollbackLogged ==
    ASSUME OneTarget, SyncWal, RollbackInv, LoggedInv, RollbackStep
    PROVE  /\ LoggedInv'
           /\ rollback # "off" /\ walIndex(target) =< LastIndex => walIndex(target) =< LastIndex'
<1>. USE DEF linkVars, walVars, mainVars, writerVars, rewriterVars, prunerVars, envVars,
             rollbackVars
<1>0. /\ CoreInv /\ LastIndex \in Nat /\ writer = "off"
      /\ main = "down" => rewriter = "off"
  BY CoreShape DEF RollbackInv, CoreInv, RewriteInv, ShapeFacts, LoggedInv
<1>1. ASSUME UNCHANGED walVars PROVE LastIndex' = LastIndex
  BY <1>1 DEF LastIndex
<1>2. ASSUME UNCHANGED <<snaps, current, walVars, writer, rewriter>>, main = "down", main' = "down"
      PROVE  LoggedInv' /\ LastIndex' = LastIndex
  BY <1>0, <1>1, <1>2 DEF LoggedInv
<1>3. ASSUME Abandon, UNCHANGED <<linkVars, walVars>> PROVE LoggedInv' /\ LastIndex' = LastIndex
  <2>1. main' = "down" /\ rewriter' = "off" /\ writer' = "off"
    BY <1>3 DEF Abandon, ProcessGone
  <2>. QED  BY <1>1, <1>3, <2>1 DEF LoggedInv
<1>4. CASE \E t \in RollbackTargets : RollbackLoad(t)
  BY <1>2, <1>4 DEF RollbackLoad
<1>5. CASE RollbackSymlink
  <2>1. rollback = "symlink" /\ main = "down"
    BY <1>5 DEF RollbackSymlink, RollbackInv, PhaseInv
  <2>2. \/ Abandon /\ UNCHANGED <<linkVars, walVars>>
        \/ UNCHANGED <<snaps, current, walVars, writer, rewriter, main>>
    BY <1>5 DEF RollbackSymlink, vars
  <2>. QED  BY <1>2, <1>3, <2>1, <2>2
<1>6. CASE RollbackLink
  <2>1. /\ rollback = "link" /\ current' = base
        /\ UNCHANGED <<snaps, walVars, mainVars, writerVars, rewriterVars>>
    BY <1>6 DEF RollbackLink
  <2>2. main = "down" /\ target \in RollbackTargets /\ base \in DOMAIN snaps /\ base =< target
    BY <2>1 DEF RollbackInv, PhaseInv
  <2>3. Len(snaps[base]) =< LastIndex
    BY <2>2 DEF LoggedInv
  <2>. QED  BY <1>0, <1>1, <2>1, <2>2, <2>3 DEF LoggedInv
<1>7. CASE RollbackTruncate
  <2>0. rollback = "truncate"
    BY <1>7 DEF RollbackTruncate, TruncateBack
  <2>1. CASE ~Readable(walIndex(target))
    BY <1>3, <1>7, <2>1 DEF RollbackTruncate, TruncateBack
  <2>2. CASE Readable(walIndex(target))
    <3>1. /\ walLog' = SubSeq(walLog, 1, walIndex(target) - walFirst + 1)
          /\ UNCHANGED <<walFirst, linkVars, mainVars, writerVars, rewriterVars>>
      BY <1>7, <2>2 DEF RollbackTruncate, TruncateBack
    <3>2. /\ walIndex(target) \in Nat \ {0} /\ walFirst =< walIndex(target)
          /\ walIndex(target) =< LastIndex
          /\ \A v \in DOMAIN snaps : v =< target => Len(snaps[v]) =< walIndex(target)
      BY <2>0, <2>2, CutFacts
    <3>3. /\ walFirst \in Nat \ {0} /\ walLog \in Seq(Data) /\ Len(walLog) \in Nat
          /\ LastIndex = walFirst + Len(walLog) - 1
      BY <1>0, CoreShape DEF CoreInv, TypeOK, ShapeFacts, LastIndex
    <3>4. LastIndex' = walIndex(target)
      <4>1. /\ walIndex(target) - walFirst + 1 \in Int /\ 1 =< walIndex(target) - walFirst + 1
            /\ walIndex(target) - walFirst + 1 =< Len(walLog)
        BY <3>2, <3>3
      <4>2. Len(walLog') = walIndex(target) - walFirst + 1
        BY <3>1, <3>3, <4>1, SubSeqOfLog
      <4>. QED  BY <3>1, <3>2, <3>3, <4>2 DEF LastIndex
    <3>5. /\ main = "down" /\ target \in RollbackTargets /\ base \in DOMAIN snaps
          /\ base =< target /\ current = base
      BY <2>0 DEF RollbackInv, PhaseInv
    <3>6. Len(snaps[current])' =< LastIndex'
      BY <3>1, <3>2, <3>4, <3>5
    <3>7. \A t \in RollbackTargets : \A v \in DOMAIN snaps' : v =< t => Len(snaps'[v]) =< LastIndex'
      BY <3>1, <3>2, <3>4, <3>5 DEF OneTarget
    <3>8. main' = "down" /\ rewriter' = "off" /\ writer' = "off"
      BY <1>0, <3>1, <3>5
    <3>9. LoggedInv'
      BY <3>6, <3>7, <3>8 DEF LoggedInv
    <3>. QED  BY <3>2, <3>4, <3>9
  <2>. QED  BY <2>1, <2>2
<1>8. CASE RollbackRemove
  <2>1. PICK v \in Newer : snaps' = [w \in DOMAIN snaps \ {v} |-> snaps[w]]
    BY <1>8 DEF RollbackRemove
  <2>2. /\ rollback = "remove" /\ v > target
        /\ UNCHANGED <<current, walVars, mainVars, writerVars, rewriterVars>>
    BY <1>8, <2>1 DEF RollbackRemove, Newer
  <2>3. /\ main = "down" /\ target \in RollbackTargets /\ base \in DOMAIN snaps
        /\ base =< target /\ current = base
    BY <2>2 DEF RollbackInv, PhaseInv
  <2>4. current # v
    <3>1. base \in Nat /\ v \in Nat /\ target \in Nat
      BY <1>0, <2>1, <2>3, CoreSnapShape, RollbackAssumption DEF Newer
    <3>. QED  BY <2>2, <2>3, <3>1
  <2>5. \A w \in DOMAIN snaps' : w \in DOMAIN snaps /\ snaps'[w] = snaps[w]
    BY <2>1
  <2>6. snaps'[current] = snaps[current]
    BY <2>1, <2>3, <2>4
  <2>. QED  BY <1>0, <1>1, <2>2, <2>3, <2>5, <2>6 DEF LoggedInv
<1>9. CASE RollbackDone
  <2>1. /\ rollback = "remove" /\ main' = "idle" /\ walChanSize' < 0
        /\ UNCHANGED <<linkVars, walVars, tree, writerVars, rewriterVars>>
    BY <1>9 DEF RollbackDone, SyncWal
  <2>2. main = "down" /\ Len(tree) = walIndex(target) /\ LastIndex = walIndex(target)
    BY <2>1 DEF RollbackInv, PhaseInv
  <2>3. Len(tree') =< LastIndex'
    BY <1>0, <1>1, <2>1, <2>2
  <2>. QED  BY <1>0, <1>1, <2>1, <2>2, <2>3 DEF LoggedInv
<1>10. CASE RollbackCrash
  BY <1>3, <1>10 DEF RollbackCrash
<1>. QED  BY <1>4, <1>5, <1>6, <1>7, <1>8, <1>9, <1>10 DEF RollbackStep

\* With synchronous commits and a WAL that survives a crash, a rollback that is
\* killed or fails half way has lost no block up to its target, at whichever of its
\* steps: the link is moved down before the WAL is cut, and the WAL holds what the
\* snapshot above held.
THEOREM RollbackLosesNothing ==
    ASSUME OneTarget, SyncWal
    PROVE  RSpec => RollbackKeepsTarget
<1>1. RInit => LoggedInv
  <2>. SUFFICES ASSUME RInit PROVE LoggedInv
    OBVIOUS
  <2>1. snaps[0] = <<>> /\ DOMAIN snaps = {0} /\ LastIndex = 0 /\ Len(<<>>) = 0
    BY EmptySeq DEF RInit, Init, LastIndex
  <2>. QED  BY <2>1 DEF RInit, Init, LoggedInv
<1>2. ASSUME RollbackInv, LoggedInv, [RNext]_allVars
      PROVE  /\ LoggedInv'
             /\ rollback # "off" /\ walIndex(target) =< LastIndex =>
                    walIndex(target) =< LastIndex'
  <2>0. CoreInv
    BY <1>2 DEF RollbackInv
  <2>1. CASE rollback = "off" /\ Next
    BY <1>2, <2>0, <2>1, BetweenLogged
  <2>2. CASE RollbackStep
    BY <1>2, <2>2, RollbackLogged
  <2>3. CASE UNCHANGED allVars
    <3>1. UNCHANGED vars /\ LastIndex' = LastIndex
      BY <2>3 DEF allVars, vars, LastIndex
    <3>2. LoggedInv'
      BY <1>2, <2>0, <3>1, BetweenLogged
    <3>. QED  BY <3>1, <3>2
  <2>. QED  BY <1>2, <2>1, <2>2, <2>3 DEF RNext
<1>3. RollbackInv /\ LoggedInv => Len(Recovered) = LastIndex
  <2>. SUFFICES ASSUME RollbackInv, LoggedInv PROVE Len(Recovered) = LastIndex
    OBVIOUS
  <2>1. CoreInv /\ Len(snaps[current]) =< LastIndex
    BY DEF RollbackInv, LoggedInv
  <2>2. LastIndex \in Nat
    BY <2>1, CoreShape DEF ShapeFacts
  <2>. QED  BY <2>1, <2>2, CoreRecovered
<1>4. RSpec => [](RollbackInv /\ LoggedInv)
  BY <1>1, <1>2, RollbackInvariance, PTL DEF RSpec
<1>5. (RollbackInv /\ LoggedInv => Len(Recovered) = LastIndex)'
  BY <1>3, PTL
<1>6. ASSUME RollbackInv, LoggedInv, RollbackInv', LoggedInv', [RNext]_allVars,
             rollback # "off", walIndex(target) =< Len(Recovered)
      PROVE  walIndex(target) =< Len(Recovered)'
  <2>1. Len(Recovered) = LastIndex /\ Len(Recovered)' = LastIndex'
    BY <1>3, <1>5, <1>6
  <2>. QED  BY <1>2, <1>6, <2>1
<1>. QED  BY <1>4, <1>6, PTL DEF RSpec, RollbackKeepsTarget
=============================================================================
