------------------------- MODULE MemiavlDurability -------------------------
(***************************************************************************)
(* Proofs about what the database keeps, for every value of the constants: *)
(* a committed version is in the WAL, in a snapshot or on its way to the   *)
(* WAL; a clean Close leaves all of it to the next Load; pruning keeps the *)
(* recent snapshots; and what the application above the database sees is   *)
(* ReplayedState.  They rest on IInv, proved in MemiavlDBProofs.           *)
(***************************************************************************)
EXTENDS MemiavlDBProofs, SetLemmas

-----------------------------------------------------------------------------
\* Before the first Load there is no writer.
LEMMA WriterInit == Init => WriterInv
  BY DEF Init, WriterInv

\* Every step preserves what is known of the writer.
LEMMA WriterNext ==
    ASSUME IInv, WriterInv, [Next]_vars
    PROVE  WriterInv'
<1>. USE DEF walVars, linkVars, mainVars, writerVars, rewriterVars, prunerVars, envVars
<1>1. ASSUME NEW t \in LoadTargets, Load(t) PROVE WriterInv'
  BY <1>1 DEF Load, WriterInv
<1>2. ASSUME NEW b \in Block, ApplyChangeSets(b) PROVE WriterInv'
  BY <1>2 DEF ApplyChangeSets, WriterInv
<1>3. CASE CommitAsync
  BY <1>3 DEF CommitAsync, WriterInv
<1>4. CASE CommitSync
  BY <1>4 DEF CommitSync, WriterInv
<1>5. CASE WaitAsyncCommit \/ Close
  BY <1>5 DEF WaitAsyncCommit, Close, WriterInv
<1>6. CASE Exit \/ Crash
  <2>1. main' = "down" /\ writer' = "off" /\ walChan' = <<>> /\ batch' = <<>>
    BY <1>6 DEF Exit, Crash, ProcessGone
  <2>2. ~err'
    BY <1>6, Zenon DEF Exit, Crash, ProcessGone
  <2>. QED  BY <2>1, <2>2 DEF WriterInv
<1>7. CASE Send
  <2>1. main = "send" /\ main' = "check" /\ err' = err
    BY <1>7 DEF Send
  <2>2. \/ writer' = "write"
        \/ UNCHANGED <<batch, writer>> /\ Len(walChan) < walChanSize /\ walChanSize # 0
    BY <1>7 DEF Send
  <2>. QED  BY <2>1, <2>2 DEF WriterInv
<1>8. CASE CheckAsyncCommit
  BY <1>8 DEF CheckAsyncCommit, WriterInv
<1>9. CASE CheckBackgroundNone
  BY <1>9 DEF CheckBackgroundNone, FinishCommit, WriterInv
<1>10. CASE CheckBackgroundResult
  BY <1>10 DEF CheckBackgroundResult, WriterInv
<1>11. CASE Switch
  BY <1>11 DEF Switch, WriterInv
<1>12. CASE PruneSnapshots
  BY <1>12 DEF PruneSnapshots, FinishCommit, WriterInv
<1>13. CASE WaitAsyncCommitDone
  BY <1>13 DEF WaitAsyncCommitDone, WriterInv
<1>14. CASE CloseWal
  BY <1>14 DEF CloseWal, WriterInv
<1>15. CASE CloseRewrite
  BY <1>15 DEF CloseRewrite, WriterInv
<1>16. CASE WriterRecv
  BY <1>16 DEF WriterRecv, WriterInv
<1>17. CASE WriterWrite
  BY <1>17 DEF WriterWrite, WriterInv
<1>18. CASE WriterFail
  BY <1>18 DEF WriterFail, WriterInv
<1>19. CASE WriterEnd
  BY <1>19 DEF WriterEnd, WriterInv
<1>20. CASE RewriterStep
  BY <1>20 DEF RewriterStep, RewriterUnchanged, RewriteWrite, RewriteRename, RewriteSymlink,
               RewriteLink, RewriteLoad, RewriteCatchup, WriterInv
<1>21. CASE PrunerStep
  BY <1>21 DEF PrunerStep, PruneCurrent, PruneList, PruneRemove, PruneFirst, PruneTruncate,
               WriterInv
<1>22. CASE UNCHANGED vars
  BY <1>22 DEF vars, WriterInv
<1>. QED  BY <1>1, <1>2, <1>3, <1>4, <1>5, <1>6, <1>7, <1>8, <1>9, <1>10, <1>11, <1>12,
             <1>13, <1>14, <1>15, <1>16, <1>17, <1>18, <1>19, <1>20, <1>21, <1>22
          DEF Next, CallerStep, MainStep, WriterStep

-----------------------------------------------------------------------------
\* A version that is in the log or on its way there.
Kept(i) == i =< LastIndex \/ InFlight(i)

\* A step keeps what was kept, and keeps what it commits.
Carries == \A i \in 1 .. Len(tree') : i > Len(tree) \/ Kept(i) => Kept(i)'

\* A step that does not touch the log, the queue and the tree.
LEMMA QuietStep ==
    ASSUME IInv, UNCHANGED <<tree, batch, walChan>>, LastIndex' = LastIndex,
           main = "send" => main' = "send"
    PROVE  Carries
<1>1. Len(tree) \in Nat /\ tree' = tree
  BY Shape DEF ShapeFacts
<1>2. ASSUME NEW i \in 1 .. Len(tree), Kept(i) PROVE Kept(i)'
  BY <1>1, <1>2 DEF Kept, InFlight
<1>. QED  BY <1>1, <1>2 DEF Carries

\* The index of an entry that CommitAsync or Send makes.
LEMMA EntryIndex ==
    ASSUME IInv, Len(tree) > 0
    PROVE  Entry(Version(tree)).index = Len(tree)
  BY Shape DEF ShapeFacts, Entry

LEMMA CommitAsyncCarries ==
    ASSUME IInv, CommitAsync
    PROVE  Carries
<1>0. ShapeFacts
  BY Shape
<1>1. Len(tree') = Len(tree) + 1 /\ main' = "send" /\ main = "idle"
  BY SaveVersionFacts DEF CommitAsync
<1>2. UNCHANGED <<walFirst, walLog, walChan, batch>>
  BY DEF CommitAsync, walVars
<1>3. ASSUME NEW i \in 1 .. Len(tree'), i > Len(tree) PROVE Kept(i)'
  <2>1. i = Len(tree')
    BY <1>0, <1>1, <1>3 DEF ShapeFacts
  <2>. QED  BY <1>1, <2>1 DEF Kept, InFlight
<1>4. ASSUME NEW i \in 1 .. Len(tree'), Kept(i) PROVE Kept(i)'
  BY <1>1, <1>2, <1>4 DEF Kept, InFlight, LastIndex
<1>. QED  BY <1>3, <1>4 DEF Carries

\* Whatever was in a batch is in the log once the batch is written.
LEMMA WrittenIsLogged ==
    ASSUME IInv, NEW es \in Seq(WalEntry), NEW m \in 0 .. Len(es),
           Skipped(es, m), Contiguous(es, m), AppendToWal(es, m), walFirst' = walFirst
    PROVE  /\ LastIndex \in Nat /\ LastIndex' \in Nat /\ LastIndex =< LastIndex'
           /\ \A k \in 1 .. Len(es) : es[k].index =< LastIndex'
<1>0. LastIndex \in Nat /\ walFirst \in Nat /\ walLog \in Seq(Data) /\ Len(walLog) \in Nat
  BY Shape DEF ShapeFacts, IInv, TypeOK
<1>1. Len(es) \in Nat
  BY LenProperties
<1>2. Len(walLog') = Len(walLog) + (Len(es) - m)
  BY <1>0, LogGrows DEF AppendToWal
<1>3. LastIndex' = LastIndex + (Len(es) - m)
  BY <1>0, <1>1, <1>2 DEF LastIndex
<1>4. ASSUME NEW k \in 1 .. Len(es) PROVE es[k].index =< LastIndex'
  <2>0. es[k].index \in Nat
    <3>1. es[k] \in WalEntry
      BY ElementOfSeq
    <3>. QED  BY <3>1 DEF WalEntry
  <2>1. CASE k =< m
    <3>1. es[k].index =< LastIndex
      BY <2>1 DEF Skipped
    <3>. QED  BY <1>0, <1>1, <1>3, <2>0, <3>1
  <2>2. CASE k > m
    <3>1. k - m \in 1 .. Len(es) - m /\ m + (k - m) = k
      BY <1>1, <2>2
    <3>2. es[k].index = LastIndex + (k - m)
      BY <3>1 DEF Contiguous
    <3>. QED  BY <1>0, <1>1, <1>3, <3>2
  <2>. QED  BY <1>1, <2>1, <2>2
<1>. QED  BY <1>0, <1>1, <1>3, <1>4

LEMMA CommitSyncCarries ==
    ASSUME IInv, CommitSync, main' # "failed"
    PROVE  Carries
<1>0. ShapeFacts
  BY Shape
<1>. DEFINE es == <<Entry(nextVersion(Version(tree)))>>
<1>1. PICK m \in 0 .. 1 : Skipped(es, m) /\ Contiguous(es, m) /\ AppendToWal(es, m)
  BY DEF CommitSync
<1>2. UNCHANGED <<walFirst, walChan, batch>> /\ main = "idle" /\ Len(tree') = Len(tree) + 1
  BY SaveVersionFacts DEF CommitSync, writerVars
<1>3. Entry(nextVersion(Version(tree))) \in WalEntry
      /\ Entry(nextVersion(Version(tree))).index = Len(tree) + 1
  <2>1. walIndex(nextVersion(Version(tree))) = Len(tree) + 1 /\ pending \in Data
    BY <1>0 DEF ShapeFacts, CatchupFirst, IInv, TypeOK
  <2>. QED  BY <1>0, <2>1 DEF Entry, WalEntry, ShapeFacts
<1>4. es \in Seq(WalEntry) /\ Len(es) = 1 /\ es[1].index = Len(tree) + 1
  BY <1>3
<1>. HIDE DEF es
<1>5. /\ LastIndex \in Nat /\ LastIndex' \in Nat
      /\ LastIndex =< LastIndex' /\ es[1].index =< LastIndex'
  BY <1>1, <1>2, <1>4, WrittenIsLogged
<1>6. ASSUME NEW i \in 1 .. Len(tree'), i > Len(tree) PROVE Kept(i)'
  <2>1. i = Len(tree) + 1
    BY <1>0, <1>2, <1>6 DEF ShapeFacts
  <2>. QED  BY <1>4, <1>5, <2>1 DEF Kept
<1>7. ASSUME NEW i \in 1 .. Len(tree'), Kept(i) PROVE Kept(i)'
  <2>1. CASE i =< LastIndex
    BY <1>5, <2>1 DEF Kept
  <2>2. CASE InFlight(i)
    BY <1>2, <2>2 DEF Kept, InFlight
  <2>. QED  BY <1>7, <2>1, <2>2 DEF Kept
<1>. QED  BY <1>6, <1>7 DEF Carries

\* The entry in the caller's hand goes to the writer or into the channel.
LEMMA SendCarries ==
    ASSUME IInv, WriterInv, Send
    PROVE  Carries
<1>0. ShapeFacts
  BY Shape
<1>1. main = "send" /\ tree' = tree /\ LastIndex' = LastIndex
  BY DEF Send, walVars, LastIndex
<1>2. Entry(Version(tree)).index = Len(tree) /\ Len(tree) \in Nat
  BY <1>0, <1>1, EntryIndex DEF IInv, QueueAgrees, ShapeFacts
<1>3. CASE walChanSize = 0
  <2>1. /\ batch = <<>> /\ walChan' = walChan
        /\ batch' = <<Entry(Version(tree))>>
    BY <1>3 DEF Send, WriterInv
  <2>2. Len(batch') = 1 /\ batch'[1].index = Len(tree) /\ Len(batch) = 0
    BY <1>2, <2>1
  <2>3. ASSUME NEW i \in 1 .. Len(tree), Kept(i) PROVE Kept(i)'
    <3>1. CASE i = Len(tree)
      BY <2>2, <3>1 DEF Kept, InFlight
    <3>2. CASE i # Len(tree)
      BY <1>1, <2>1, <2>2, <2>3, <3>2 DEF Kept, InFlight
    <3>. QED  BY <3>1, <3>2
  <2>. QED  BY <1>1, <1>2, <2>3 DEF Carries
<1>4. CASE walChanSize # 0
  <2>1. batch' = batch /\ walChan' = Append(walChan, Entry(Version(tree)))
    BY <1>4 DEF Send
  <2>2. walChan \in Seq(WalEntry) /\ Entry(Version(tree)) \in WalEntry
    <3>1. pending \in Data
      BY DEF IInv, TypeOK
    <3>2. Entry(Version(tree)) \in WalEntry
      BY <1>2, <3>1 DEF Entry, WalEntry
    <3>. QED  BY <3>2 DEF IInv, TypeOK
  <2>3. /\ Len(walChan) \in Nat /\ Len(walChan') = Len(walChan) + 1
        /\ walChan'[Len(walChan) + 1].index = Len(tree)
        /\ \A k \in 1 .. Len(walChan) : walChan'[k] = walChan[k]
    BY <1>2, <2>1, <2>2, AppendProperties, LenProperties
  <2>4. ASSUME NEW i \in 1 .. Len(tree), Kept(i) PROVE Kept(i)'
    <3>1. CASE i = Len(tree)
      <4>1. Len(walChan) + 1 \in 1 .. Len(walChan')
        BY <2>3
      <4>. QED  BY <2>3, <3>1, <4>1 DEF Kept, InFlight
    <3>2. ASSUME NEW k \in 1 .. Len(walChan), walChan[k].index = i PROVE Kept(i)'
      <4>1. k \in 1 .. Len(walChan') /\ walChan'[k].index = i
        BY <2>3, <3>2
      <4>. QED  BY <4>1 DEF Kept, InFlight
    <3>3. CASE i # Len(tree)
      BY <1>1, <2>1, <2>4, <3>2, <3>3 DEF Kept, InFlight
    <3>. QED  BY <3>1, <3>3
  <2>. QED  BY <1>1, <1>2, <2>4 DEF Carries
<1>. QED  BY <1>3, <1>4

\* channelBatchRecv moves what is queued into the batch.
LEMMA RecvCarries ==
    ASSUME IInv, WriterInv, WriterRecv
    PROVE  Carries
<1>1. /\ batch = <<>> /\ batch' = walChan /\ tree' = tree /\ main' = main
      /\ LastIndex' = LastIndex
  BY DEF WriterRecv, WriterInv, mainVars, walVars, LastIndex
<1>2. Len(tree) \in Nat /\ Len(batch) = 0
  BY <1>1, Shape DEF ShapeFacts
<1>3. ASSUME NEW i \in 1 .. Len(tree), Kept(i) PROVE Kept(i)'
  BY <1>1, <1>2, <1>3 DEF Kept, InFlight
<1>. QED  BY <1>1, <1>2, <1>3 DEF Carries

\* WriteBatch moves what is in the batch into the log.
LEMMA WriteCarries ==
    ASSUME IInv, WriterWrite
    PROVE  Carries
<1>1. PICK m \in 0 .. Len(batch) :
          Skipped(batch, m) /\ Contiguous(batch, m) /\ AppendToWal(batch, m)
  BY DEF WriterWrite
<1>2. /\ walFirst' = walFirst /\ tree' = tree /\ main' = main /\ walChan' = walChan
  BY DEF WriterWrite, mainVars
<1>3. batch \in Seq(WalEntry) /\ Len(tree) \in Nat
  BY Shape DEF ShapeFacts, IInv, TypeOK
<1>4. /\ LastIndex \in Nat /\ LastIndex' \in Nat /\ LastIndex =< LastIndex'
      /\ \A k \in 1 .. Len(batch) : batch[k].index =< LastIndex'
  BY <1>1, <1>2, <1>3, WrittenIsLogged
<1>5. ASSUME NEW i \in 1 .. Len(tree), Kept(i) PROVE Kept(i)'
  <2>1. CASE i =< LastIndex
    BY <1>4, <2>1 DEF Kept
  <2>2. CASE InFlight(i)
    BY <1>2, <1>4, <2>2 DEF Kept, InFlight
  <2>. QED  BY <1>5, <2>1, <2>2 DEF Kept
<1>. QED  BY <1>2, <1>3, <1>5 DEF Carries

\* TruncateFront removes entries at the front only.
LEMMA TruncateKeepsEnd ==
    ASSUME IInv, PruneTruncate
    PROVE  LastIndex' = LastIndex
<1>. DEFINE i == walIndex(earliest + 1)
<1>1. \/ Readable(i) /\ walLog' = SubSeq(walLog, i - walFirst + 1, Len(walLog)) /\ walFirst' = i
      \/ UNCHANGED walVars
  BY DEF PruneTruncate
<1>. HIDE DEF i
<1>2. CASE UNCHANGED walVars
  BY <1>2 DEF walVars, LastIndex
<1>3. CASE Readable(i) /\ walLog' = SubSeq(walLog, i - walFirst + 1, Len(walLog)) /\ walFirst' = i
  <2>1. walFirst \in Nat \ {0} /\ walLog \in Seq(Data) /\ Len(walLog) \in Nat
    BY Shape DEF ShapeFacts, IInv, TypeOK
  <2>2. i \in Nat /\ walFirst =< i /\ i =< walFirst + Len(walLog) - 1
    BY <1>3, <2>1 DEF Readable, LastIndex
  <2>3. PICK n \in Nat \ {0} : n = i - walFirst + 1
    BY <2>1, <2>2
  <2>4. Len(SubSeq(walLog, n, Len(walLog))) = Len(walLog) - n + 1
    BY <2>1, <2>2, <2>3, SubSeqOfLog
  <2>. QED  BY <1>3, <2>1, <2>2, <2>3, <2>4 DEF LastIndex
<1>. QED  BY <1>1, <1>2, <1>3

\* Every step but a Load of a process that goes on without an error keeps what was
\* kept, and such a process had no error before.
LEMMA StepCarries ==
    ASSUME IInv, WriterInv, [Next]_vars, main # "down", Healthy'
    PROVE  Healthy /\ Carries
<1>. USE DEF walVars, linkVars, mainVars, writerVars, rewriterVars, prunerVars, envVars
<1>1. ASSUME NEW t \in LoadTargets, Load(t) PROVE Healthy /\ Carries
  BY <1>1 DEF Load
<1>2. ASSUME NEW b \in Block, ApplyChangeSets(b) PROVE Healthy /\ Carries
  <2>1. Healthy
    BY <1>2 DEF ApplyChangeSets, Healthy
  <2>. QED  BY <1>2, <2>1, QuietStep DEF ApplyChangeSets, LastIndex
<1>3. CASE CommitAsync
  <2>1. Healthy
    BY <1>3 DEF CommitAsync, Healthy
  <2>. QED  BY <1>3, <2>1, CommitAsyncCarries
<1>4. CASE CommitSync
  <2>1. Healthy /\ main' # "failed"
    BY <1>4 DEF CommitSync, Healthy
  <2>. QED  BY <1>4, <2>1, CommitSyncCarries
<1>5. CASE WaitAsyncCommit \/ Close
  <2>1. Healthy
    BY <1>5 DEF WaitAsyncCommit, Close, Healthy
  <2>. QED  BY <1>5, <2>1, QuietStep DEF WaitAsyncCommit, Close, LastIndex
<1>6. CASE Exit \/ Crash
  BY <1>6 DEF Exit, Crash, ProcessGone, Healthy
<1>7. CASE Send
  <2>1. Healthy
    BY <1>7 DEF Send, Healthy
  <2>. QED  BY <1>7, <2>1, SendCarries
<1>8. CASE CheckAsyncCommit
  <2>1. Healthy
    BY <1>8 DEF CheckAsyncCommit, Healthy, WriterInv
  <2>. QED  BY <1>8, <2>1, QuietStep DEF CheckAsyncCommit, LastIndex
<1>9. CASE CheckBackgroundNone
  <2>1. Healthy
    BY <1>9 DEF CheckBackgroundNone, FinishCommit, Healthy
  <2>. QED  BY <1>9, <2>1, QuietStep DEF CheckBackgroundNone, LastIndex
<1>10. CASE CheckBackgroundResult
  <2>1. Healthy
    BY <1>10 DEF CheckBackgroundResult, Healthy
  <2>. QED  BY <1>10, <2>1, QuietStep DEF CheckBackgroundResult, LastIndex
<1>11. CASE Switch
  <2>1. Healthy
    BY <1>11 DEF Switch, Healthy
  <2>2. tree' = tree
    BY <1>11, SwitchIsStutter DEF Switch
  <2>. QED  BY <1>11, <2>1, <2>2, QuietStep DEF Switch, LastIndex
<1>12. CASE PruneSnapshots
  <2>1. Healthy
    BY <1>12 DEF PruneSnapshots, FinishCommit, Healthy
  <2>. QED  BY <1>12, <2>1, QuietStep DEF PruneSnapshots, LastIndex
<1>13. CASE WaitAsyncCommitDone
  <2>1. Healthy /\ walChan = <<>>
    BY <1>13 DEF WaitAsyncCommitDone, Healthy, WriterInv
  <2>. QED  BY <1>13, <2>1, QuietStep DEF WaitAsyncCommitDone, LastIndex
<1>14. CASE CloseWal
  <2>1. ~err /\ writer # "quit"
    BY <1>14 DEF CloseWal, Healthy, WriterInv
  <2>2. Healthy /\ walChan = <<>>
    BY <1>14, <2>1 DEF CloseWal, Healthy, WriterInv
  <2>. QED  BY <1>14, <2>2, QuietStep DEF CloseWal, LastIndex
<1>15. CASE CloseRewrite
  <2>1. Healthy
    BY <1>15 DEF CloseRewrite, Healthy
  <2>. QED  BY <1>15, <2>1, QuietStep DEF CloseRewrite, LastIndex
<1>16. CASE WriterRecv
  <2>1. Healthy
    BY <1>16 DEF WriterRecv, Healthy
  <2>. QED  BY <1>16, <2>1, RecvCarries
<1>17. CASE WriterWrite
  <2>1. Healthy
    BY <1>17 DEF WriterWrite, Healthy
  <2>. QED  BY <1>17, <2>1, WriteCarries
<1>18. CASE WriterFail
  BY <1>18 DEF WriterFail, Healthy
<1>19. CASE WriterEnd
  <2>1. Healthy
    BY <1>19 DEF WriterEnd, Healthy
  <2>. QED  BY <1>19, <2>1, QuietStep DEF WriterEnd, LastIndex
<1>20. CASE RewriterStep
  <2>1. RewriterUnchanged
    BY <1>20 DEF RewriterStep, RewriteWrite, RewriteRename, RewriteSymlink,
                 RewriteLink, RewriteLoad, RewriteCatchup
  <2>2. Healthy
    BY <2>1 DEF RewriterUnchanged, Healthy
  <2>. QED  BY <2>1, <2>2, QuietStep DEF RewriterUnchanged, LastIndex
<1>21. CASE PrunerStep
  <2>1. UNCHANGED <<mainVars, writerVars>>
    BY <1>21 DEF PrunerStep, PruneCurrent, PruneList, PruneRemove, PruneFirst, PruneTruncate
  <2>2. LastIndex' = LastIndex
    <3>1. CASE PruneTruncate
      BY <3>1, TruncateKeepsEnd
    <3>2. CASE PruneCurrent \/ PruneList \/ PruneRemove \/ PruneFirst
      BY <3>2 DEF PruneCurrent, PruneList, PruneRemove, PruneFirst, LastIndex
    <3>. QED  BY <1>21, <3>1, <3>2 DEF PrunerStep
  <2>3. Healthy
    BY <2>1 DEF Healthy
  <2>. QED  BY <2>1, <2>2, <2>3, QuietStep
<1>22. CASE UNCHANGED vars
  <2>1. Healthy
    BY <1>22 DEF vars, Healthy
  <2>. QED  BY <1>22, <2>1, QuietStep DEF vars, LastIndex
<1>. QED  BY <1>1, <1>2, <1>3, <1>4, <1>5, <1>6, <1>7, <1>8, <1>9, <1>10, <1>11, <1>12,
             <1>13, <1>14, <1>15, <1>16, <1>17, <1>18, <1>19, <1>20, <1>21, <1>22
          DEF Next, CallerStep, MainStep, WriterStep

-----------------------------------------------------------------------------
\* What a step does to the snapshot directories: the rewrite adds one, the prune
\* goroutine removes one that is older than the link it read, nothing else changes
\* them.
LEMMA SnapshotsMove ==
    ASSUME IInv, [Next]_vars
    PROVE  /\ \A v \in DOMAIN snaps : v \in DOMAIN snaps' => snaps'[v] = snaps[v]
           /\ \A v \in DOMAIN snaps : v \notin DOMAIN snaps' =>
                 v \in todo /\ v < cutoff /\ cutoff =< current /\ PruneRemove
           /\ DOMAIN snaps' \subseteq DOMAIN snaps \cup {Version(mtree)}
<1>. USE DEF walVars, linkVars, mainVars, writerVars, rewriterVars, prunerVars, envVars
<1>1. CASE RewriteRename
  BY <1>1 DEF RewriteRename
<1>2. CASE PruneRemove
  <2>1. PICK v \in todo : snaps' = IF v \in tmps THEN snaps
                                   ELSE [w \in DOMAIN snaps \ {v} |-> snaps[w]]
    BY <1>2 DEF PruneRemove
  <2>2. \A w \in todo : w < cutoff /\ cutoff =< current
    BY <1>2 DEF PruneRemove, IInv, PruneInv
  <2>. QED  BY <1>2, <2>1, <2>2
<1>3. CASE snaps' = snaps
  BY <1>3
<1>4. CASE CallerStep
  <2>1. snaps' = snaps
    BY <1>4 DEF CallerStep, Load, ApplyChangeSets, CommitAsync, CommitSync,
                WaitAsyncCommit, Close, Exit
  <2>. QED  BY <2>1, <1>3
<1>5. CASE MainStep
  <2>1. snaps' = snaps
    BY <1>5 DEF MainStep, Send, CheckAsyncCommit, CheckBackgroundNone, CheckBackgroundResult,
                Switch, PruneSnapshots, WaitAsyncCommitDone, CloseWal, CloseRewrite
  <2>. QED  BY <2>1, <1>3
<1>6. CASE WriterStep
  <2>1. snaps' = snaps
    BY <1>6 DEF WriterStep, WriterRecv, WriterWrite, WriterFail, WriterEnd
  <2>. QED  BY <2>1, <1>3
<1>7. CASE RewriteWrite \/ RewriteSymlink \/ RewriteLink \/ RewriteLoad \/ RewriteCatchup
  <2>1. snaps' = snaps
    BY <1>7 DEF RewriteWrite, RewriteSymlink, RewriteLink, RewriteLoad, RewriteCatchup
  <2>. QED  BY <2>1, <1>3
<1>8. CASE PruneCurrent \/ PruneList \/ PruneFirst \/ PruneTruncate
  <2>1. snaps' = snaps
    BY <1>8 DEF PruneCurrent, PruneList, PruneFirst, PruneTruncate
  <2>. QED  BY <2>1, <1>3
<1>9. CASE Crash \/ UNCHANGED vars
  <2>1. snaps' = snaps
    BY <1>9 DEF Crash, vars
  <2>. QED  BY <2>1, <1>3
<1>. QED  BY <1>1, <1>2, <1>4, <1>5, <1>6, <1>7, <1>8, <1>9 DEF Next, RewriterStep, PrunerStep

\* A snapshot is removed only while a longer one stays.
LEMMA LongerSnapshot ==
    ASSUME IInv, [Next]_vars, NEW v \in DOMAIN snaps
    PROVE  \E w \in DOMAIN snaps' : Len(snaps[v]) =< Len(snaps'[w])
<1>0. Len(snaps[v]) \in Nat /\ v \in Nat /\ Version(snaps[v]) = v /\ snaps[v] \in Seq(Data)
  BY SnapShape
<1>1. CASE v \in DOMAIN snaps'
  <2>1. snaps'[v] = snaps[v]
    BY <1>1, SnapshotsMove
  <2>. QED  BY <1>0, <1>1, <2>1
<1>2. CASE v \notin DOMAIN snaps'
  <2>1. current \in DOMAIN snaps
    BY DEF IInv, CurrentNeverDangles
  <2>2. /\ current \in Nat /\ Version(snaps[current]) = current
        /\ snaps[current] \in Seq(Data) /\ Len(snaps[current]) \in Nat
    BY <2>1, SnapShape
  <2>3. v < cutoff /\ cutoff =< current /\ cutoff \in Nat
    BY <1>2, SnapshotsMove DEF IInv, TypeOK
  <2>4. current \in DOMAIN snaps' /\ snaps'[current] = snaps[current]
    <3>1. current \in DOMAIN snaps'
      <4>1. current \notin DOMAIN snaps' => current < cutoff /\ cutoff =< current
        BY <2>1, SnapshotsMove
      <4>. QED  BY <2>2, <2>3, <4>1
    <3>. QED  BY <2>1, <3>1, SnapshotsMove
  <2>5. Len(snaps[v]) =< Len(snaps[current])
    BY <1>0, <2>2, <2>3, VersionOrder
  <2>. QED  BY <2>4, <2>5
<1>. QED  BY <1>1, <1>2

\* Load finds what it returns in a snapshot and in the WAL; with no target version,
\* in the snapshot that current names.
LEMMA LoadFinds ==
    ASSUME IInv, NEW target \in LoadTargets, Load(target)
    PROVE  \E v \in DOMAIN snaps :
              /\ target = 0 => v = current
              /\ Len(snaps[v]) =< Len(tree')
              /\ \A i \in 1 .. Len(tree') : i =< LastIndex \/ i =< Len(snaps[v])
<1>1. PICK v \in DOMAIN snaps :
          /\ target = 0 => v = current
          /\ IF target = 0 \/ target > Version(snaps[v])
               THEN CanCatchup(snaps[v], target) /\ tree' = Catchup(snaps[v], target)
               ELSE tree' = snaps[v]
  BY DEF Load
<1>2. snaps[v] \in Seq(Data) /\ Len(snaps[v]) \in Nat /\ Agrees(snaps[v])
  BY SnapShape DEF IInv, StateAgrees
<1>3. CASE tree' = snaps[v]
  BY <1>1, <1>2, <1>3
<1>4. CASE CanCatchup(snaps[v], target) /\ tree' = Catchup(snaps[v], target)
  <2>1. target \in Nat /\ TypeOK /\ LogAgrees /\ QueueAgrees /\ LastIndex \in Nat
    BY ConstantsAssumption, Shape DEF IInv, StateAgrees, LogAgrees, ShapeFacts
  <2>2. /\ Len(snaps[v]) =< Len(tree')
        /\ Len(tree') = IF Len(snaps[v]) + 1 > LastIndex THEN Len(snaps[v])
                                                       ELSE CatchupLast(target)
    BY <1>2, <1>4, <2>1, CatchupAgrees
  <2>3. walIndex(target) \in Int
    BY <2>1, ConstantsAssumption DEF walIndex
  <2>4. CatchupLast(target) \in Int /\ CatchupLast(target) =< LastIndex
    BY <2>1, <2>3 DEF CatchupLast
  <2>5. \A i \in 1 .. Len(tree') : i =< LastIndex \/ i =< Len(snaps[v])
    BY <1>2, <2>1, <2>2, <2>4
  <2>. QED  BY <1>1, <2>2, <2>5
<1>. QED  BY <1>1, <1>3, <1>4

\* A process starts with a Load.
LEMMA StartIsLoad ==
    ASSUME [Next]_vars, main = "down", main' # "down"
    PROVE  \E target \in LoadTargets : Load(target)
<1>. USE DEF walVars, linkVars, mainVars, writerVars, rewriterVars, prunerVars, envVars
<1>1. ~(\E b \in Block : ApplyChangeSets(b)) /\ ~CommitAsync /\ ~CommitSync
      /\ ~WaitAsyncCommit /\ ~Close /\ ~Exit
  BY DEF ApplyChangeSets, CommitAsync, CommitSync, WaitAsyncCommit, Close, Exit
<1>2. ~MainStep
  BY DEF MainStep, Send, CheckAsyncCommit, CheckBackgroundNone, CheckBackgroundResult,
         Switch, PruneSnapshots, WaitAsyncCommitDone, CloseWal, CloseRewrite
<1>3. ~WriterStep
  BY DEF WriterStep, WriterRecv, WriterWrite, WriterFail, WriterEnd
<1>4. ~RewriterStep
  BY DEF RewriterStep, RewriterUnchanged, RewriteWrite, RewriteRename,
         RewriteSymlink, RewriteLink, RewriteLoad, RewriteCatchup
<1>5. ~PrunerStep
  BY DEF PrunerStep, PruneCurrent, PruneList, PruneRemove, PruneFirst, PruneTruncate
<1>6. ~Crash
  BY DEF Crash
<1>. QED  BY <1>1, <1>2, <1>3, <1>4, <1>5, <1>6 DEF Next, CallerStep, vars

\* Every step preserves that what is committed is in the WAL, in a snapshot or on
\* its way.
LEMMA DurableNext ==
    ASSUME IInv, WriterInv, DurableInv, [Next]_vars
    PROVE  DurableInv'
<1>. SUFFICES ASSUME Healthy', NEW i \in 1 .. Len(tree')
              PROVE  Kept(i)' \/ \E v \in DOMAIN snaps' : i =< Len(snaps'[v])
  BY DEF DurableInv, Kept
<1>0. i \in Nat
  OBVIOUS
<1>1. CASE main = "down"
  <2>1. PICK target \in LoadTargets : Load(target)
    BY <1>1, StartIsLoad DEF Healthy
  <2>2. PICK v \in DOMAIN snaps : i =< LastIndex \/ i =< Len(snaps[v])
    BY <2>1, LoadFinds
  <2>3. snaps' = snaps /\ LastIndex' = LastIndex
    BY <2>1 DEF Load, LastIndex
  <2>. QED  BY <2>2, <2>3 DEF Kept
<1>2. CASE main # "down"
  <2>1. Healthy /\ Carries
    BY <1>2, StepCarries
  <2>2. CASE i > Len(tree) \/ Kept(i)
    BY <2>1, <2>2 DEF Carries
  <2>3. CASE ~(i > Len(tree)) /\ ~Kept(i)
    <3>1. Len(tree) \in Nat
      BY Shape DEF ShapeFacts
    <3>2. i \in 1 .. Len(tree)
      BY <1>0, <2>3, <3>1
    <3>3. PICK v \in DOMAIN snaps : i =< Len(snaps[v])
      BY <2>1, <2>3, <3>2 DEF DurableInv, Kept
    <3>4. PICK w \in DOMAIN snaps' : Len(snaps[v]) =< Len(snaps'[w])
      BY LongerSnapshot
    <3>5. Len(snaps[v]) \in Nat /\ Len(snaps'[w]) \in Nat
      <4>1. IInv'
        BY NextIInv
      <4>2. snaps'[w] \in Seq(Data)
        BY <4>1 DEF IInv, TypeOK
      <4>. QED  BY <4>2, SnapShape, LenProperties
    <3>6. i =< Len(snaps'[w])
      BY <1>0, <3>3, <3>4, <3>5
    <3>. QED  BY <3>6
  <2>. QED  BY <2>2, <2>3
<1>. QED  BY <1>1, <1>2

LEMMA DurableInit == Init => DurableInv
  BY DEF Init, DurableInv, Healthy

\* What is known of the writer, and that nothing committed is lost, in every
\* reachable state.
THEOREM DurabilityInvariance == Spec => [](IInv /\ WriterInv /\ DurableInv)
<1>1. Init => IInv /\ WriterInv /\ DurableInv
  BY InitIInv, WriterInit, DurableInit
<1>2. IInv /\ WriterInv /\ DurableInv /\ [Next]_vars => (IInv /\ WriterInv /\ DurableInv)'
  BY NextIInv, WriterNext, DurableNext
<1>. QED  BY <1>1, <1>2, PTL DEF Spec

\* Every version that Commit has bumped to is in the WAL, in a snapshot directory or
\* on its way to the WAL, unless a write has failed: whatever the size of the
\* channel, the batches the writer takes, the rewrites, switches, prunings and
\* reloads between.
THEOREM NothingCommittedIsLost == Spec => []DurableOrInFlight
<1>1. DurableInv => DurableOrInFlight
  BY DEF DurableInv, DurableOrInFlight, Healthy, Running
<1>. QED  BY <1>1, DurabilityInvariance, PTL

-----------------------------------------------------------------------------
(***************************************************************************)
(* A database that is only ever loaded at its latest version.              *)
(***************************************************************************)
\* The first two parts of LatestInv: the link is not ahead of the tree, nor of the
\* tree that is being written.
LinkInv ==
    /\ main # "down" => current =< Version(tree)
    /\ rewriter \in {"write", "rename", "symlink", "link"} => current =< Version(mtree)

\* The link moves forward only, and not past the tree.
LEMMA LinkNext ==
    ASSUME LoadTargets = {0}, IInv, LinkInv, [Next]_vars
    PROVE  LinkInv'
<1>. USE DEF walVars, linkVars, mainVars, writerVars, rewriterVars, prunerVars, envVars
<1>0. ShapeFacts /\ ShapeFacts'
  <2>1. IInv'
    BY NextIInv
  <2>2. ShapeFacts'
    BY <2>1, Shape, PTL
  <2>. QED  BY <2>2, Shape
<1>t. /\ tree \in Seq(Data) /\ tree' \in Seq(Data) /\ mtree \in Seq(Data) /\ current \in Nat
      /\ Version(tree) \in Nat /\ Version(tree)' \in Nat /\ Version(mtree) \in Nat
      /\ Len(tree) \in Nat /\ Len(mtree) \in Nat
  BY <1>0, NextIInv DEF ShapeFacts, IInv, TypeOK
<1>1. ASSUME NEW t \in LoadTargets, Load(t) PROVE LinkInv'
  <2>1. current \in DOMAIN snaps /\ Len(snaps[current]) =< Len(tree')
    BY <1>1, LoadFinds
  <2>2. Version(snaps[current]) = current /\ snaps[current] \in Seq(Data)
    BY <2>1, SnapShape
  <2>3. current =< Version(tree')
    BY <1>t, <2>1, <2>2, VersionOrder
  <2>4. rewriter' = "off" /\ current' = current
    BY <1>1 DEF Load, IInv, RewriteInv
  <2>. QED  BY <2>3, <2>4 DEF LinkInv, Version
<1>2. CASE CommitAsync \/ CommitSync
  <2>1. /\ Len(tree') = Len(tree) + 1 /\ UNCHANGED <<current, rewriter, mtree>>
        /\ main = "idle"
    BY <1>2, SaveVersionFacts DEF CommitAsync, CommitSync
  <2>2. current =< Version(tree) /\ Len(tree) =< Len(tree')
    BY <1>t, <2>1 DEF LinkInv
  <2>3. current =< Version(tree')
    BY <1>t, <2>2, VersionOrder
  <2>. QED  BY <2>1, <2>3 DEF LinkInv, Version
<1>3. CASE Exit \/ Crash
  <2>1. main' = "down" /\ rewriter' = "off"
    BY <1>3 DEF Exit, Crash, ProcessGone
  <2>. QED  BY <2>1 DEF LinkInv
<1>4. ASSUME UNCHANGED <<tree, mtree, rewriter, current>>, main = "down" => main' = "down"
      PROVE  LinkInv'
  BY <1>4 DEF LinkInv, Version
<1>5. CASE \/ \E b \in Block : ApplyChangeSets(b)
           \/ WaitAsyncCommit \/ Close \/ Send \/ CheckAsyncCommit
           \/ WaitAsyncCommitDone \/ CloseWal
  BY <1>4, <1>5 DEF ApplyChangeSets, WaitAsyncCommit, Close, Send, CheckAsyncCommit,
                    WaitAsyncCommitDone, CloseWal
<1>6. CASE WriterStep
  BY <1>4, <1>6 DEF WriterStep, WriterRecv, WriterWrite, WriterFail, WriterEnd
<1>7. CASE PrunerStep \/ UNCHANGED vars
  BY <1>4, <1>7 DEF PrunerStep, PruneCurrent, PruneList, PruneRemove, PruneFirst,
                    PruneTruncate, vars
<1>8. CASE CheckBackgroundNone \/ PruneSnapshots
  <2>1. main # "down" /\ tree' = tree /\ current' = current
    BY <1>8 DEF CheckBackgroundNone, PruneSnapshots
  <2>2. \/ rewriter' = "off"
        \/ mtree' = tree
        \/ rewriter' = rewriter /\ mtree' = mtree
    BY <1>8 DEF CheckBackgroundNone, PruneSnapshots, FinishCommit
  <2>. QED  BY <2>1, <2>2 DEF LinkInv, Version
<1>9. CASE CheckBackgroundResult \/ CloseRewrite
  <2>1. main # "down" /\ tree' = tree /\ current' = current /\ rewriter' = "off"
    BY <1>9 DEF CheckBackgroundResult, CloseRewrite
  <2>. QED  BY <2>1 DEF LinkInv, Version
<1>10. CASE Switch
  <2>1. tree' = tree
    BY <1>10, SwitchIsStutter DEF Switch
  <2>2. main # "down" /\ current' = current /\ rewriter' = "off"
    BY <1>10 DEF Switch, IInv, RewriteInv
  <2>. QED  BY <2>1, <2>2 DEF LinkInv, Version
<1>11. CASE RewriteWrite \/ RewriteRename \/ RewriteSymlink
  <2>1. /\ tree' = tree /\ main' = main /\ current' = current /\ mtree' = mtree
        /\ rewriter \in {"write", "rename", "symlink"}
    BY <1>11 DEF RewriteWrite, RewriteRename, RewriteSymlink, RewriterUnchanged
  <2>. QED  BY <2>1 DEF LinkInv, Version
<1>12. CASE RewriteLink
  <2>1. /\ tree' = tree /\ main' = main /\ current' = Version(mtree) /\ rewriter' = "load"
        /\ rewriter = "link"
    BY <1>12 DEF RewriteLink, RewriterUnchanged
  <2>2. Len(mtree) =< Len(tree)
    BY <2>1 DEF IInv, RewriteInv
  <2>3. Version(mtree) =< Version(tree)
    BY <1>t, <2>2, VersionOrder
  <2>. QED  BY <2>1, <2>3 DEF LinkInv, Version
<1>13. CASE RewriteLoad \/ RewriteCatchup
  <2>1. /\ tree' = tree /\ main' = main /\ current' = current
        /\ rewriter' \in {"catchup", "result", "error"}
    BY <1>13 DEF RewriteLoad, RewriteCatchup, RewriterUnchanged
  <2>. QED  BY <2>1 DEF LinkInv, Version
<1>. QED  BY <1>1, <1>2, <1>3, <1>5, <1>6, <1>7, <1>8, <1>9, <1>10, <1>11, <1>12, <1>13
          DEF Next, CallerStep, MainStep, RewriterStep

\* The link is moved by the rewrite goroutine only.
LEMMA LinkMoves ==
    ASSUME IInv, [Next]_vars
    PROVE  current' = current \/ (RewriteLink /\ snaps' = snaps)
<1>. USE DEF walVars, linkVars, mainVars, writerVars, rewriterVars, prunerVars, envVars
<1>1. CASE CallerStep
  BY <1>1 DEF CallerStep, Load, ApplyChangeSets, CommitAsync, CommitSync,
              WaitAsyncCommit, Close, Exit
<1>2. CASE MainStep
  BY <1>2 DEF MainStep, Send, CheckAsyncCommit, CheckBackgroundNone, CheckBackgroundResult,
              Switch, PruneSnapshots, WaitAsyncCommitDone, CloseWal, CloseRewrite
<1>3. CASE WriterStep
  BY <1>3 DEF WriterStep, WriterRecv, WriterWrite, WriterFail, WriterEnd
<1>4. CASE RewriterStep
  BY <1>4 DEF RewriterStep, RewriteWrite, RewriteRename, RewriteSymlink, RewriteLink,
              RewriteLoad, RewriteCatchup
<1>5. CASE PrunerStep
  BY <1>5 DEF PrunerStep, PruneCurrent, PruneList, PruneRemove, PruneFirst, PruneTruncate
<1>6. CASE Crash \/ UNCHANGED vars
  BY <1>6 DEF Crash, vars
<1>. QED  BY <1>1, <1>2, <1>3, <1>4, <1>5, <1>6 DEF Next

\* The snapshot that current names does not become shorter.
LEMMA CurrentGrows ==
    ASSUME IInv, LinkInv, [Next]_vars
    PROVE  Len(snaps[current]) \in Nat /\ Len(snaps[current]) =< Len(snaps'[current'])
<1>0. current \in DOMAIN snaps
  BY DEF IInv, CurrentNeverDangles
<1>1. /\ snaps[current] \in Seq(Data) /\ Len(snaps[current]) \in Nat
      /\ Version(snaps[current]) = current /\ current \in Nat
  BY <1>0, SnapShape
<1>2. CASE current' = current
  <2>1. current \in DOMAIN snaps'
    <3>1. CurrentNeverDangles'
      BY NextIInv DEF IInv
    <3>. QED  BY <1>2, <3>1 DEF CurrentNeverDangles
  <2>2. snaps'[current] = snaps[current]
    BY <1>0, <2>1, SnapshotsMove
  <2>. QED  BY <1>1, <1>2, <2>2
<1>3. CASE RewriteLink /\ snaps' = snaps
  <2>1. current' = Version(mtree) /\ rewriter = "link"
    BY <1>3 DEF RewriteLink
  <2>2. current =< Version(mtree) /\ Version(mtree) \in DOMAIN snaps
    BY <2>1 DEF LinkInv, IInv, RewriteInv
  <2>3. PICK c \in DOMAIN snaps : c = Version(mtree) /\ current =< c
    BY <2>2
  <2>4. snaps[c] \in Seq(Data) /\ Version(snaps[c]) = c
    BY SnapShape
  <2>5. Len(snaps[current]) =< Len(snaps[c])
    BY <1>1, <2>3, <2>4, VersionOrder
  <2>. QED  BY <1>1, <1>3, <2>1, <2>3, <2>5
<1>. QED  BY <1>2, <1>3, LinkMoves

\* Every step preserves that what is committed is in the WAL, in the current snapshot
\* or on its way.
LEMMA LatestNext ==
    ASSUME LoadTargets = {0}, IInv, WriterInv, LatestInv, [Next]_vars
    PROVE  LatestInv'
<1>1. LinkInv
  BY DEF LatestInv, LinkInv
<1>2. LinkInv'
  BY <1>1, LinkNext
<1>3. ASSUME Healthy', NEW i \in 1 .. Len(tree')
      PROVE  Kept(i)' \/ i =< Len(snaps'[current'])
  <2>0. i \in Nat
    OBVIOUS
  <2>1. CASE main = "down"
    <3>1. PICK target \in LoadTargets : Load(target)
      BY <1>3, <2>1, StartIsLoad DEF Healthy
    <3>2. i =< LastIndex \/ i =< Len(snaps[current])
      BY <3>1, LoadFinds
    <3>3. snaps' = snaps /\ current' = current /\ LastIndex' = LastIndex
      BY <3>1 DEF Load, LastIndex
    <3>. QED  BY <3>2, <3>3 DEF Kept
  <2>2. CASE main # "down"
    <3>1. Healthy /\ Carries
      BY <1>3, <2>2, StepCarries
    <3>2. CASE i > Len(tree) \/ Kept(i)
      BY <3>1, <3>2 DEF Carries
    <3>3. CASE ~(i > Len(tree)) /\ ~Kept(i)
      <4>1. Len(tree) \in Nat
        BY Shape DEF ShapeFacts
      <4>2. i \in 1 .. Len(tree)
        BY <2>0, <3>3, <4>1
      <4>3. i =< Len(snaps[current])
        BY <3>1, <3>3, <4>2 DEF LatestInv, Kept
      <4>4. /\ Len(snaps[current]) \in Nat
            /\ Len(snaps[current]) =< Len(snaps'[current'])
        BY <1>1, CurrentGrows
      <4>5. Len(snaps'[current']) \in Nat
        <5>1. IInv'
          BY NextIInv
        <5>2. snaps'[current'] \in Seq(Data)
          BY <5>1 DEF IInv, TypeOK, CurrentNeverDangles
        <5>. QED  BY <5>2, LenProperties
      <4>6. i =< Len(snaps'[current'])
        BY <2>0, <4>3, <4>4, <4>5
      <4>. QED  BY <4>6
    <3>. QED  BY <3>2, <3>3
  <2>. QED  BY <2>1, <2>2
<1>4. Healthy' => \A i \in 1 .. Len(tree') : Kept(i)' \/ i =< Len(snaps'[current'])
  BY <1>3
<1>. QED  BY <1>2, <1>4 DEF LatestInv, LinkInv, Kept

LEMMA LatestInit == Init => LatestInv
  BY DEF Init, LatestInv, Healthy

\* What replaying the WAL on the current snapshot gives.
LEMMA RecoveredLength ==
    ASSUME IInv
    PROVE  /\ Len(Recovered) \in Nat
           /\ LastIndex =< Len(Recovered) /\ Len(snaps[current]) =< Len(Recovered)
  BY IInvCore, CoreRecovered

\* A database that is always loaded at its latest version loses nothing in a Close
\* that returns no error: what Load replays from the current snapshot and the WAL is
\* at least as long as the tree, after any commits, rewrites, crashes and losses of
\* the end of the WAL before.
THEOREM CleanClose ==
    ASSUME LoadTargets = {0}
    PROVE  Spec => []CleanClosePreserves
<1>1. Init => IInv /\ WriterInv /\ LatestInv
  BY InitIInv, WriterInit, LatestInit
<1>2. IInv /\ WriterInv /\ LatestInv /\ [Next]_vars => (IInv /\ WriterInv /\ LatestInv)'
  BY NextIInv, WriterNext, LatestNext
<1>3. IInv /\ WriterInv /\ LatestInv => CleanClosePreserves
  <2>. SUFFICES ASSUME IInv, WriterInv, LatestInv, main = "closed", ~err
                PROVE  Len(tree) =< Len(Recovered)
    BY DEF CleanClosePreserves
  <2>0. Len(tree) \in Nat /\ LastIndex \in Nat
    BY Shape DEF ShapeFacts
  <2>1. Len(snaps[current]) \in Nat
    BY SnapShape DEF IInv, CurrentNeverDangles
  <2>2. writer = "off" /\ walChan = <<>> /\ batch = <<>>
    BY DEF WriterInv
  <2>3. Healthy /\ \A i \in 1 .. Len(tree) : ~InFlight(i)
    BY <2>2 DEF Healthy, InFlight
  <2>4. CASE Len(tree) = 0
    BY <2>4, RecoveredLength
  <2>5. CASE Len(tree) # 0
    <3>1. Len(tree) \in 1 .. Len(tree)
      BY <2>0, <2>5
    <3>2. Len(tree) =< LastIndex \/ Len(tree) =< Len(snaps[current])
      BY <2>3, <3>1 DEF LatestInv
    <3>. QED  BY <2>0, <2>1, <3>2, RecoveredLength
  <2>. QED  BY <2>4, <2>5
<1>. QED  BY <1>1, <1>2, <1>3, PTL DEF Spec

-----------------------------------------------------------------------------
\* A step that neither lists nor removes snapshots keeps the snapshots and the list,
\* or adds a snapshot, or leaves no goroutine that removes.
LEMMA KeepMoves ==
    ASSUME [Next]_vars, ~PruneList, ~PruneRemove
    PROVE  /\ DOMAIN snaps \subseteq DOMAIN snaps'
           /\ DOMAIN snaps' \subseteq DOMAIN snaps \cup {Version(mtree)}
           /\ pruner' = "remove" =>
                 pruner = "remove" /\ todo' = todo /\ cutoff' = cutoff
<1>. USE DEF walVars, linkVars, mainVars, writerVars, rewriterVars, prunerVars, envVars
<1>1. CASE CallerStep
  BY <1>1 DEF CallerStep, Load, ApplyChangeSets, CommitAsync, CommitSync,
              WaitAsyncCommit, Close, Exit, ProcessGone
<1>2. CASE MainStep
  <2>1. CASE PruneSnapshots
    BY <2>1 DEF PruneSnapshots
  <2>2. CASE ~PruneSnapshots
    BY <1>2, <2>2 DEF MainStep, Send, CheckAsyncCommit, CheckBackgroundNone,
              CheckBackgroundResult, Switch, WaitAsyncCommitDone, CloseWal, CloseRewrite
  <2>. QED  BY <2>1, <2>2
<1>3. CASE WriterStep
  BY <1>3 DEF WriterStep, WriterRecv, WriterWrite, WriterFail, WriterEnd
<1>4. CASE RewriterStep
  <2>1. CASE RewriteRename
    BY <2>1 DEF RewriteRename, RewriterUnchanged
  <2>2. CASE ~RewriteRename
    BY <1>4, <2>2 DEF RewriterStep, RewriteWrite, RewriteSymlink, RewriteLink, RewriteLoad,
                      RewriteCatchup, RewriterUnchanged
  <2>. QED  BY <2>1, <2>2
<1>5. CASE PruneCurrent \/ PruneFirst \/ PruneTruncate
  BY <1>5 DEF PruneCurrent, PruneFirst, PruneTruncate
<1>6. CASE Crash \/ UNCHANGED vars
  BY <1>6 DEF Crash, ProcessGone, vars
<1>. QED  BY <1>1, <1>2, <1>3, <1>4, <1>5, <1>6 DEF Next, PrunerStep

\* The snapshots between the greatest victim and the link are not victims, and there
\* are enough of them: they are what the loop of pruneSnapshots counts and skips.
LEMMA VictimsSpareRecent ==
    ASSUME NEW D \in SUBSET Nat, IsFiniteSet(D), NEW cut \in Nat,
           NEW v \in Victims(D, cut)
    PROVE  Cardinality({w \in D \ Victims(D, cut) : v < w /\ w < cut}) >= SnapshotKeepRecent
<1>1. \A n \in Victims(D, cut) : n \in Int /\ n < cut
  BY DEF Victims
<1>2. PICK m \in Victims(D, cut) : \A n \in Victims(D, cut) : n =< m
  <2>1. Victims(D, cut) \in SUBSET Int /\ Victims(D, cut) # {}
    BY <1>1
  <2>2. cut \in Int /\ \A n \in Victims(D, cut) : n =< cut
    BY <1>1
  <2>. QED  BY <2>1, <2>2, GreatestInteger
<1>. DEFINE Above == {w \in D : m < w /\ w < cut}
            Spared == {w \in D \ Victims(D, cut) : v < w /\ w < cut}
<1>3. Cardinality(Above) >= SnapshotKeepRecent
  BY <1>2 DEF Victims
<1>4. Above \subseteq Spared
  <2>. SUFFICES ASSUME NEW w \in D, m < w, w < cut
                PROVE  w \notin Victims(D, cut) /\ v < w
    OBVIOUS
  <2>1. v =< m /\ v \in Nat /\ m \in Nat /\ w \in Nat
    BY <1>2 DEF Victims
  <2>2. w \in Victims(D, cut) => w =< m
    BY <1>2
  <2>. QED  BY <2>1, <2>2
<1>5. IsFiniteSet(Spared)
  <2>1. Spared \in SUBSET D
    OBVIOUS
  <2>. QED  BY <2>1, FS_Subset
<1>6. IsFiniteSet(Above) /\ Cardinality(Above) =< Cardinality(Spared)
  <2>. HIDE DEF Above, Spared
  <2>. QED  BY <1>4, <1>5, FS_Subset
<1>7. Cardinality(Above) \in Nat /\ Cardinality(Spared) \in Nat
  <2>. HIDE DEF Above, Spared
  <2>. QED  BY <1>5, <1>6, FS_CardinalityType
<1>. HIDE DEF Above, Spared
<1>8. Cardinality(Spared) >= SnapshotKeepRecent
  BY <1>3, <1>6, <1>7, ConstantsAssumption
<1>. QED  BY <1>8 DEF Spared

\* Adding snapshots, or removing one of the listed ones, spares as many as before.
LEMMA SparedGrow ==
    ASSUME NEW S, NEW T, IsFiniteSet(T), S \subseteq T,
           Cardinality(S) >= SnapshotKeepRecent
    PROVE  Cardinality(T) >= SnapshotKeepRecent
<1>1. IsFiniteSet(S) /\ Cardinality(S) =< Cardinality(T)
  BY FS_Subset
<1>2. Cardinality(S) \in Nat /\ Cardinality(T) \in Nat
  BY <1>1, FS_CardinalityType
<1>. QED  BY <1>1, <1>2, ConstantsAssumption

\* Every step preserves KeepInv.
LEMMA KeepNext ==
    ASSUME IInv, KeepInv, [Next]_vars
    PROVE  KeepInv'
<1>0. DOMAIN snaps \in SUBSET Nat /\ IsFiniteSet(DOMAIN snaps) /\ cutoff \in Nat
  BY DEF IInv, TypeOK, KeepInv
<1>1. IsFiniteSet(DOMAIN snaps')
  <2>1. DOMAIN snaps' \subseteq DOMAIN snaps \cup {Version(mtree)}
    BY SnapshotsMove
  <2>2. IsFiniteSet(DOMAIN snaps \cup {Version(mtree)})
    BY <1>0, FS_AddElement
  <2>. QED  BY <2>1, <2>2, FS_Subset
<1>2. ASSUME NEW v \in todo', pruner' = "remove"
      PROVE  Cardinality({w \in DOMAIN snaps' \ todo' : v < w /\ w < cutoff'})
                >= SnapshotKeepRecent
  <2>. DEFINE Now == {w \in DOMAIN snaps \ todo : v < w /\ w < cutoff}
              Then == {w \in DOMAIN snaps' \ todo' : v < w /\ w < cutoff'}
  <2>1. CASE PruneList
    <3>1. /\ snaps' = snaps /\ cutoff' = cutoff
          /\ todo' = Victims(DOMAIN snaps, cutoff)
      BY <2>1 DEF PruneList, linkVars
    <3>2. v \in Victims(DOMAIN snaps, cutoff)
      BY <1>2, <3>1
    <3>3. Cardinality({w \in DOMAIN snaps \ Victims(DOMAIN snaps, cutoff) :
                          v < w /\ w < cutoff}) >= SnapshotKeepRecent
      BY <1>0, <3>2, VictimsSpareRecent
    <3>. QED  BY <3>1, <3>3
  <2>2. CASE ~PruneList
    <3>1. pruner = "remove" /\ v \in todo /\ Now \subseteq Then
      <4>1. CASE PruneRemove
        <5>1. PICK r \in todo :
                 /\ todo' = todo \ {r}
                 /\ snaps' = IF r \in tmps THEN snaps
                             ELSE [w \in DOMAIN snaps \ {r} |-> snaps[w]]
          BY <4>1 DEF PruneRemove
        <5>2. pruner = "remove" /\ cutoff' = cutoff
          BY <4>1 DEF PruneRemove
        <5>3. DOMAIN snaps \ todo \subseteq DOMAIN snaps' \ todo'
          BY <5>1
        <5>. QED  BY <1>2, <5>1, <5>2, <5>3
      <4>2. CASE ~PruneRemove
        <5>1. /\ DOMAIN snaps \subseteq DOMAIN snaps'
              /\ pruner = "remove" /\ todo' = todo /\ cutoff' = cutoff
          BY <1>2, <2>2, <4>2, KeepMoves
        <5>. QED  BY <1>2, <5>1
      <4>. QED  BY <4>1, <4>2
    <3>2. Cardinality(Now) >= SnapshotKeepRecent
      BY <3>1 DEF KeepInv
    <3>3. Then \in SUBSET DOMAIN snaps'
      OBVIOUS
    <3>4. IsFiniteSet(Then)
      BY <1>1, <3>3, FS_Subset
    <3>. HIDE DEF Now, Then
    <3>5. Cardinality(Then) >= SnapshotKeepRecent
      BY <3>1, <3>2, <3>4, SparedGrow
    <3>. QED  BY <3>5 DEF Then
  <2>. QED  BY <2>1, <2>2
<1>. QED  BY <1>1, <1>2 DEF KeepInv

\* The directory of a new database holds one snapshot and nothing is pruned.
LEMMA KeepInit == Init => KeepInv
<1>. SUFFICES ASSUME Init PROVE KeepInv
  OBVIOUS
<1>1. DOMAIN snaps = {0}
  BY DEF Init
<1>2. IsFiniteSet(DOMAIN snaps)
  BY <1>1, FS_Singleton
<1>. QED  BY <1>2 DEF KeepInv, Init

\* A snapshot is removed only below the current link, and only while at least
\* SnapshotKeepRecent newer ones below the link stay: whatever the rewrite goroutine
\* adds or links between the listing of the directory and the removal, and however
\* many of the removals have failed.
THEOREM RecentSnapshotsStay == Spec => PruneKeepsRecent
<1>. DEFINE Safe == \A v \in DOMAIN snaps \ DOMAIN snaps' :
                      /\ v < current
                      /\ Cardinality({w \in DOMAIN snaps' : v < w /\ w < current})
                           >= SnapshotKeepRecent
<1>1. Init => IInv /\ KeepInv
  BY InitIInv, KeepInit
<1>2. IInv /\ KeepInv /\ [Next]_vars => (IInv /\ KeepInv)'
  BY NextIInv, KeepNext
<1>3. IInv /\ KeepInv /\ [Next]_vars => Safe
  <2>. SUFFICES ASSUME IInv, KeepInv, [Next]_vars,
                       NEW v \in DOMAIN snaps \ DOMAIN snaps'
                PROVE  /\ v < current
                       /\ Cardinality({w \in DOMAIN snaps' : v < w /\ w < current})
                            >= SnapshotKeepRecent
    OBVIOUS
  <2>1. v \in todo /\ v < cutoff /\ cutoff =< current /\ PruneRemove
    BY SnapshotsMove
  <2>2. v \in Nat /\ cutoff \in Nat /\ current \in Nat /\ DOMAIN snaps \subseteq Nat
    BY DEF IInv, TypeOK
  <2>3. pruner = "remove" /\ DOMAIN snaps \ todo \subseteq DOMAIN snaps'
    BY <2>1 DEF PruneRemove
  <2>. DEFINE Now == {w \in DOMAIN snaps \ todo : v < w /\ w < cutoff}
              Then == {w \in DOMAIN snaps' : v < w /\ w < current}
  <2>4. Cardinality(Now) >= SnapshotKeepRecent
    BY <2>1, <2>3 DEF KeepInv
  <2>5. Now \subseteq Then
    BY <2>1, <2>2, <2>3
  <2>6. IsFiniteSet(Then)
    <3>1. KeepInv'
      BY KeepNext
    <3>2. IsFiniteSet(DOMAIN snaps') /\ Then \in SUBSET DOMAIN snaps'
      BY <3>1 DEF KeepInv
    <3>. QED  BY <3>2, FS_Subset
  <2>. HIDE DEF Now, Then
  <2>7. Cardinality(Then) >= SnapshotKeepRecent
    BY <2>4, <2>5, <2>6, SparedGrow
  <2>. QED  BY <2>1, <2>2, <2>7 DEF Then
<1>4. IInv /\ KeepInv /\ [Next]_vars => [Safe]_vars
  BY <1>3
<1>. QED  BY <1>1, <1>2, <1>4, PTL DEF Spec, PruneKeepsRecent

-----------------------------------------------------------------------------
(***************************************************************************)
(* The database implements ReplayedState.  Under the mapping               *)
(* open <- main # "down" and state <- tree, a Load is an Open, SaveVersion *)
(* is a Commit, Exit and Crash are a Stop, and every other step of the     *)
(* four threads, the switch to a rewritten snapshot included, leaves the   *)
(* abstract state unchanged.                                               *)
(***************************************************************************)
\* A step that leaves the tree, the chain and the openness of the database alone.
Invisible == tree' = tree /\ chain' = chain /\ (main' # "down" <=> main # "down")

LEMMA InvisibleStutters == Invisible => UNCHANGED Abstract!vars
  BY Zenon DEF Invisible, Abstract!vars

\* Load opens the database at a prefix of the decided blocks.
LEMMA LoadOpens ==
    ASSUME IInv, NEW t \in LoadTargets, Load(t)
    PROVE  Abstract!Open
<1>1. CoreInv'
  BY IInvCore, LoadStep
<1>2. tree' \in Seq(Data) /\ Agrees(tree)' /\ chain' = chain
  BY <1>1 DEF CoreInv, TypeOK, CoreAgrees, Load, envVars
<1>3. Abstract!IsPrefixOfChain(tree')
  BY <1>2 DEF Agrees, Abstract!IsPrefixOfChain
<1>4. main = "down" /\ main' = "idle"
  BY DEF Load
<1>. QED  BY <1>2, <1>3, <1>4 DEF Abstract!Open

\* SaveVersion, in a synchronous or an asynchronous Commit, commits pendingLog.
LEMMA SaveVersionCommits ==
    ASSUME IInv, SaveVersion, main # "down", main' # "down"
    PROVE  \E b \in Data : Abstract!Commit(b)
<1>1. tree \in Seq(Data) /\ chain \in Seq(Data) /\ pending \in Data
  BY DEF IInv, TypeOK
<1>2. Len(tree) \in Nat /\ Len(chain) \in Nat
  BY <1>1
<1>3. Abstract!Commit(pending)
  BY <1>1, <1>2 DEF SaveVersion, NextHeight, Abstract!Commit
<1>. QED  BY <1>1, <1>3

\* The end of the process, in any way, stops the database.
LEMMA ProcessGoneStops ==
    ASSUME ProcessGone, main # "down", chain' = chain
    PROVE  Abstract!Stop
  BY DEF ProcessGone, Abstract!Stop

\* Every step of the database is a step of ReplayedState or invisible to it.
LEMMA NextRefines ==
    ASSUME IInv, [Next]_vars
    PROVE  [Abstract!Next]_(Abstract!vars)
<1>. USE DEF linkVars, walVars, mainVars, writerVars, rewriterVars, prunerVars, envVars
<1>1. ASSUME NEW t \in LoadTargets, Load(t) PROVE Abstract!Next
  BY <1>1, LoadOpens DEF Abstract!Next
<1>2. ASSUME CommitAsync \/ CommitSync PROVE Abstract!Next
  <2>1. SaveVersion /\ main # "down"
    BY <1>2 DEF CommitAsync, CommitSync
  <2>2. main' # "down"
    BY <1>2 DEF CommitAsync, CommitSync
  <2>. QED  BY <2>1, <2>2, SaveVersionCommits DEF Abstract!Next
<1>3. ASSUME Exit \/ Crash PROVE Abstract!Next
  <2>1. ProcessGone /\ main # "down" /\ chain' = chain
    BY <1>3 DEF Exit, Crash
  <2>. QED  BY <2>1, ProcessGoneStops DEF Abstract!Next
<1>4. ASSUME Switch PROVE Invisible
  <2>1. main = "spin" /\ main' # "down" /\ chain' = chain
    BY <1>4 DEF Switch
  <2>2. tree' = tree
    <3>1. CASE CanCatchup(mtree, 0)
      BY <1>4, <3>1, SwitchIsStutter
    <3>2. CASE ~CanCatchup(mtree, 0)
      BY <1>4, <3>2 DEF Switch
    <3>. QED  BY <3>1, <3>2
  <2>. QED  BY <2>1, <2>2 DEF Invisible
<1>5. ASSUME \/ \E b \in Block : ApplyChangeSets(b)
             \/ WaitAsyncCommit \/ Close
             \/ MainStep /\ ~Switch
      PROVE  Invisible
  <2>1. CASE (\E b \in Block : ApplyChangeSets(b)) \/ WaitAsyncCommit \/ Close
    BY <2>1 DEF ApplyChangeSets, WaitAsyncCommit, Close, Invisible
  <2>2. CASE MainStep /\ ~Switch
    BY <2>2 DEF MainStep, Send, CheckAsyncCommit, CheckBackgroundNone, FinishCommit,
                CheckBackgroundResult, PruneSnapshots, WaitAsyncCommitDone, CloseWal,
                CloseRewrite, Invisible
  <2>. QED  BY <1>5, <2>1, <2>2
<1>6. ASSUME WriterStep PROVE Invisible
  BY <1>6 DEF WriterStep, WriterRecv, WriterWrite, WriterFail, WriterEnd, Invisible
<1>7. ASSUME RewriterStep PROVE Invisible
  BY <1>7 DEF RewriterStep, RewriterUnchanged, RewriteWrite, RewriteRename,
              RewriteSymlink, RewriteLink, RewriteLoad, RewriteCatchup, Invisible
<1>8. ASSUME PrunerStep PROVE Invisible
  BY <1>8 DEF PrunerStep, PruneCurrent, PruneList, PruneRemove, PruneFirst,
              PruneTruncate, Invisible
<1>9. ASSUME UNCHANGED vars PROVE Invisible
  BY <1>9 DEF vars, Invisible
<1>10. Abstract!Next \/ Invisible
  BY <1>1, <1>2, <1>3, <1>4, <1>5, <1>6, <1>7, <1>8, <1>9 DEF Next, CallerStep
<1>. QED  BY <1>10, InvisibleStutters

\* The database of memiavl/db.go implements a replayed state, whatever the
\* interleaving of its goroutines, the crashes, the channel sizes and the
\* snapshot interval: the state machine above it sees only loads of a prefix of
\* the decided blocks, commits of one block, and stops.
THEOREM Refinement == Spec => ImplementsReplayedState
<1>1. Init => Abstract!Init
  BY DEF Init, Abstract!Init
<1>2. IInv /\ [Next]_vars => [Abstract!Next]_(Abstract!vars)
  BY NextRefines
<1>. QED  BY <1>1, <1>2, Invariance, PTL DEF Spec, ImplementsReplayedState, Abstract!Spec

=============================================================================
