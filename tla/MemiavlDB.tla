----------------------------- MODULE MemiavlDB -----------------------------
(***************************************************************************)
(* The life cycle of one memiavl database directory (memiavl/db.go): the   *)
(* commit loop, the asynchronous WAL writer, the background snapshot       *)
(* rewrite, the switch to the rewritten snapshot, the pruning of old       *)
(* snapshots and of the WAL, Close, crashes, and Load.                     *)
(*                                                                         *)
(* A tree is abstracted to the sequence of change sets that were committed *)
(* into it: two trees are equal exactly when the same change sets went in  *)
(* in the same order.  The change sets come from the consensus engine,     *)
(* which replays the same block at the same height after a restart; the    *)
(* variable chain is its block store.                                      *)
(*                                                                         *)
(* Four threads share the database: the caller of the methods of DB (main, *)
(* serialised by db.mtx), the WAL writer goroutine, the snapshot rewrite   *)
(* goroutine and the prune goroutine.                                      *)
(***************************************************************************)
EXTENDS Integers, Sequences, FiniteSets

CONSTANTS
    Block,              \* the change sets a block may carry
    NoChange,           \* the empty pendingLog of a block without changes
    InitialVersion,     \* Options.InitialVersion
    SnapshotInterval,   \* Options.SnapshotInterval
    SnapshotKeepRecent, \* Options.SnapshotKeepRecent
    WalChanSizes,       \* the values of Options.AsyncCommitBuffer used by Load
    LoadTargets,        \* the values of Options.TargetVersion used by Load
    WalMayFail,         \* whether a WAL write may fail with an I/O error
    SnapshotMayFail,    \* whether writing a snapshot may fail
    PowerLoss,          \* whether a crash may lose unsynced WAL entries
    Word,               \* the modulus of uint64 arithmetic (2^64)
    MaxVersion,         \* bound on the versions committed
    MaxCrashes          \* bound on the crashes

ASSUME ConstantsAssumption ==
    /\ NoChange \notin Block
    /\ InitialVersion \in Nat
    /\ SnapshotInterval \in Nat \ {0}
    /\ SnapshotKeepRecent \in Nat
    /\ WalChanSizes \subseteq Int
    /\ LoadTargets \subseteq Nat
    /\ WalMayFail \in BOOLEAN
    /\ SnapshotMayFail \in BOOLEAN
    /\ PowerLoss \in BOOLEAN
    /\ MaxVersion \in Nat
    /\ Word \in Nat /\ Word > MaxVersion + InitialVersion + 1
    /\ MaxCrashes \in Nat

VARIABLES
    \* the database directory
    snaps,      \* the snapshot-V directories: version -> tree written in it
    current,    \* the version the `current` link points to
    curTmp,     \* whether the link current-tmp exists
    tmps,       \* the versions V with a directory snapshot-V-tmp
    walFirst,   \* index of the first WAL entry
    walLog,     \* the WAL entries from walFirst on
    \* the caller of the DB methods
    main,       \* where the caller is
    tree,       \* db.MultiTree
    base,       \* the version of the snapshot db.MultiTree was loaded from
    pending,    \* db.pendingLog
    err,        \* error collected by the running method
    walChanSize, \* db.walChanSize: negative for synchronous commits
    \* the WAL writer goroutine
    writer,     \* where the writer is; "off" when db.walChan is nil
    walChan,    \* entries queued in db.walChan
    batch,      \* entries the writer has received and not yet written
    \* the snapshot rewrite goroutine
    rewriter,   \* where it is; "off" when db.snapshotRewriteChan is nil
    mtree,      \* the copy being written, then the tree loaded back
    catchEnd,   \* last WAL index of the best-effort catch-up
    \* the prune goroutine
    pruner,     \* where it is; "off" when pruneSnapshotLock is free
    cutoff,     \* the `current` version it read
    todo,       \* the snapshots it still has to remove
    earliest,   \* the earliest remaining snapshot it found
    \* the environment
    chain,      \* the blocks decided by consensus
    crashes     \* crashes so far

walVars      == <<walFirst, walLog>>
linkVars     == <<snaps, current, curTmp, tmps>>
mainVars     == <<main, tree, base, pending, err, walChanSize>>
writerVars   == <<writer, walChan, batch>>
rewriterVars == <<rewriter, mtree, catchEnd>>
prunerVars   == <<pruner, cutoff, todo, earliest>>
envVars      == <<chain, crashes>>
vars == <<snaps, current, curTmp, tmps, walFirst, walLog, main, tree, base,
          pending, err, walChanSize, writer, walChan, batch, rewriter, mtree, catchEnd, pruner,
          cutoff, todo, earliest, chain, crashes>>

-----------------------------------------------------------------------------
(***************************************************************************)
(* Versions and WAL indexes.                                               *)
(***************************************************************************)
Data == Block \cup {NoChange}

nextVersion(v) ==
    IF v = 0 /\ InitialVersion > 1 THEN InitialVersion ELSE v + 1

\* uint64(v) - uint64(initialVersion) + 1 wraps around below zero.
walIndex(v) ==
    IF InitialVersion =< 1 THEN v
    ELSE IF v + 1 >= InitialVersion THEN v - InitialVersion + 1
    ELSE v - InitialVersion + 1 + Word

walVersion(i) ==
    IF InitialVersion > 1 THEN i + InitialVersion - 1 ELSE i

\* lastCommitInfo.Version: 0 before the first SaveVersion, which starts at the
\* initial version.
Version(t) == IF Len(t) = 0 THEN 0 ELSE walVersion(Len(t))

-----------------------------------------------------------------------------
(***************************************************************************)
(* The write-ahead log (github.com/tidwall/wal, external).                 *)
(***************************************************************************)
\* Variant: an empty log is taken to end one entry earlier.
LastIndexShort == walFirst + Len(walLog) - 2

LastIndex == walFirst + Len(walLog) - 1

Readable(i) == i \in walFirst .. LastIndex

\* Variant: replay starts at the version of the tree instead of the next one.
CatchupFirstAgain(t) == walIndex(Version(t))

\* MultiTree.CatchupWAL, for an end version or 0 for the whole log: the first
\* entry to replay, the last one, whether all of them can be read, the result.
CatchupFirst(t) == walIndex(nextVersion(Version(t)))

CatchupLast(endVersion) ==
    IF endVersion = 0 \/ walIndex(endVersion) > LastIndex
      THEN LastIndex
      ELSE walIndex(endVersion)

CanCatchup(t, endVersion) ==
    \/ CatchupFirst(t) > LastIndex
    \/ /\ CatchupFirst(t) =< CatchupLast(endVersion)
       /\ CatchupFirst(t) >= walFirst

Catchup(t, endVersion) ==
    IF CatchupFirst(t) > LastIndex
      THEN t
      ELSE t \o SubSeq(walLog, CatchupFirst(t) - walFirst + 1,
                       CatchupLast(endVersion) - walFirst + 1)

\* CommittedVersion: the version of the last WAL entry, or the snapshot
\* version while the log is empty.
CommittedVersion ==
    IF LastIndex = 0 THEN base ELSE walVersion(LastIndex)

-----------------------------------------------------------------------------
\* initEmptyDB: snapshot-0 holds the empty tree and current points to it.
Init ==
    /\ snaps = [v \in {0} |-> <<>>] /\ current = 0
    /\ curTmp = FALSE /\ tmps = {}
    /\ walFirst = 1 /\ walLog = <<>>
    /\ main = "down" /\ tree = <<>> /\ base = 0 /\ pending = NoChange
    /\ err = FALSE /\ walChanSize = 0
    /\ writer = "off" /\ walChan = <<>> /\ batch = <<>>
    /\ rewriter = "off" /\ mtree = <<>> /\ catchEnd = 0
    /\ pruner = "off" /\ cutoff = 0 /\ todo = {} /\ earliest = 0
    /\ chain = <<>> /\ crashes = 0

\* The memory of the process is gone.
ProcessGone ==
    /\ main' = "down" /\ tree' = <<>> /\ base' = 0 /\ pending' = NoChange
    /\ err' = FALSE /\ walChanSize' = 0
    /\ writer' = "off" /\ walChan' = <<>> /\ batch' = <<>>
    /\ rewriter' = "off" /\ mtree' = <<>> /\ catchEnd' = 0
    /\ pruner' = "off" /\ cutoff' = 0 /\ todo' = {} /\ earliest' = 0

-----------------------------------------------------------------------------
(***************************************************************************)
(* Load.                                                                   *)
(***************************************************************************)
\* The biggest snapshot version not above the target.
SeekSnapshot(target, v) ==
    /\ v \in DOMAIN snaps /\ v =< target
    /\ \A w \in DOMAIN snaps : w =< target => w =< v

\* Load with TargetVersion = target (0: the latest version) and without
\* LoadForOverwriting.  removeTmpDirs removes directories only, so the link
\* current-tmp stays.
Load(target) ==
    /\ main = "down"
    /\ \E v \in DOMAIN snaps :
          /\ IF target = 0 THEN v = current ELSE SeekSnapshot(target, v)
          /\ base' = v
          /\ IF target = 0 \/ target > Version(snaps[v])
               THEN CanCatchup(snaps[v], target) /\ tree' = Catchup(snaps[v], target)
               ELSE tree' = snaps[v]
    /\ tmps' = {}
    /\ walChanSize' \in WalChanSizes
    /\ main' = "idle"
    /\ UNCHANGED <<snaps, current, curTmp, walFirst, walLog, pending, err,
                   writerVars, rewriterVars, prunerVars, envVars>>

-----------------------------------------------------------------------------
(***************************************************************************)
(* The commit loop.                                                        *)
(***************************************************************************)
NextHeight == Len(tree) + 1

\* The change sets of the block being executed; a block that consensus has
\* already decided is executed again with the same result.
ApplyChangeSets(b) ==
    /\ main = "idle" /\ pending = NoChange
    /\ NextHeight =< Len(chain) => b = chain[NextHeight]
    /\ pending' = b
    /\ UNCHANGED <<linkVars, walVars, main, tree, base, err, writerVars,
                   rewriterVars, prunerVars, envVars, walChanSize>>

Entry(v) == [index |-> walIndex(v), data |-> pending]

SaveVersion ==
    /\ nextVersion(Version(tree)) =< MaxVersion
    /\ IF NextHeight =< Len(chain)
         THEN pending = chain[NextHeight] /\ chain' = chain
         ELSE chain' = Append(chain, pending)
    /\ tree' = Append(tree, pending)

\* Commit with AsyncCommitBuffer >= 0, up to the send on walChan.  The entry
\* in the caller's hand is kept in pending until the send.
CommitAsync ==
    /\ main = "idle" /\ walChanSize >= 0
    /\ SaveVersion
    /\ writer' = IF writer = "off" THEN "recv" ELSE writer
    /\ main' = "send"
    /\ UNCHANGED <<linkVars, walVars, base, pending, err, walChan, batch,
                   rewriterVars, prunerVars, crashes, walChanSize>>

\* Variant: a full channel drops the entry instead of blocking.
SendOrDrop ==
    /\ main = "send"
    /\ IF walChanSize = 0
         THEN IF writer = "recv"
                THEN batch' = <<Entry(Version(tree))>> /\ writer' = "write"
                ELSE UNCHANGED <<batch, writer>>
         ELSE UNCHANGED <<batch, writer>>
    /\ walChan' = IF Len(walChan) < walChanSize
                    THEN Append(walChan, Entry(Version(tree))) ELSE walChan
    /\ pending' = NoChange
    /\ main' = "check"
    /\ UNCHANGED <<linkVars, walVars, tree, base, err, rewriterVars, prunerVars,
                   envVars, walChanSize>>

\* db.walChan <- &entry: an unbuffered channel hands over to a waiting
\* receiver, a buffered one takes what fits.
Send ==
    /\ main = "send"
    /\ IF walChanSize = 0
         THEN /\ writer = "recv"
              /\ batch' = <<Entry(Version(tree))>> /\ writer' = "write"
              /\ UNCHANGED walChan
         ELSE /\ Len(walChan) < walChanSize
              /\ walChan' = Append(walChan, Entry(Version(tree)))
              /\ UNCHANGED <<batch, writer>>
    /\ pending' = NoChange
    /\ main' = "check"
    /\ UNCHANGED <<linkVars, walVars, tree, base, err, rewriterVars, prunerVars, envVars, walChanSize>>

\* writeEntry and wal.WriteBatch: the first m entries are already in the log
\* and are skipped, the others must continue it without a gap.
Skipped(entries, m) ==
    /\ m \in 0 .. Len(entries)
    /\ \A k \in 1 .. Len(entries) : entries[k].index =< LastIndex <=> k =< m

Contiguous(entries, m) ==
    \A k \in 1 .. Len(entries) - m : entries[m + k].index = LastIndex + k

AppendToWal(entries, m) ==
    walLog' = walLog \o [k \in 1 .. Len(entries) - m |-> entries[m + k].data]

\* Commit with AsyncCommitBuffer < 0.  When the write fails the version has
\* been bumped and pendingLog is kept.
CommitSync ==
    /\ main = "idle" /\ walChanSize < 0
    /\ SaveVersion
    /\ LET entries == <<Entry(nextVersion(Version(tree)))>> IN
       \E m \in 0 .. 1 :
          /\ Skipped(entries, m)
          /\ \/ /\ Contiguous(entries, m)
                /\ AppendToWal(entries, m)
                /\ pending' = NoChange /\ main' = "check"
             \/ /\ WalMayFail \/ ~Contiguous(entries, m)
                /\ main' = "failed"
                /\ UNCHANGED <<walLog, pending>>
    /\ UNCHANGED <<linkVars, walFirst, base, err, writerVars, rewriterVars,
                   prunerVars, crashes, walChanSize>>

\* Variant: the receive on walQuit blocks until the writer has quit.
CheckAsyncCommitBlocking ==
    /\ main = "check"
    /\ writer \in {"quit", "done"}
    /\ err' = TRUE /\ writer' = "done"
    /\ main' = "background"
    /\ UNCHANGED <<linkVars, walVars, tree, base, pending, walChan, batch,
                   rewriterVars, prunerVars, envVars, walChanSize>>

\* checkAsyncCommit: a non-blocking receive on walQuit.
CheckAsyncCommit ==
    /\ main = "check"
    /\ err' = (writer \in {"quit", "done"})
    /\ writer' = IF writer = "quit" THEN "done" ELSE writer
    /\ main' = "background"
    /\ UNCHANGED <<linkVars, walVars, tree, base, pending, walChan, batch,
                   rewriterVars, prunerVars, envVars, walChanSize>>

\* The end of Commit: return the error, or start a rewrite when the height
\* calls for one (rewriteIfApplicable) and none is under way.
FinishCommit(failed, busy) ==
    /\ main' = IF failed THEN "failed" ELSE "idle"
    /\ IF ~failed /\ ~busy /\ Version(tree) % SnapshotInterval = 0
         THEN rewriter' = "write" /\ mtree' = tree
         ELSE /\ rewriter' = IF busy THEN rewriter ELSE "off"
              /\ mtree' = IF busy THEN mtree ELSE <<>>

\* checkBackgroundSnapshotRewrite with nothing to switch to: no result yet,
\* a failed rewrite that was only logged, or an error to propagate.
CheckBackgroundNone ==
    /\ main = "background"
    /\ rewriter # "result"
    /\ FinishCommit(err \/ rewriter = "error",
                    rewriter \notin {"off", "closed", "error"})
    /\ UNCHANGED <<linkVars, walVars, tree, base, pending, err, writerVars,
                   catchEnd, prunerVars, envVars, walChanSize>>

\* The result of a finished rewrite is received; the goroutine ends.
CheckBackgroundResult ==
    /\ main = "background"
    /\ rewriter = "result"
    /\ main' = "spin"
    /\ rewriter' = "off"
    /\ UNCHANGED <<linkVars, walVars, tree, base, pending, err, writerVars, mtree,
                   catchEnd, prunerVars, envVars, walChanSize>>

\* Variant: switch without waiting for the queued WAL entries.
SwitchAtOnce ==
    /\ main = "spin"
    /\ IF CanCatchup(mtree, 0)
         THEN tree' = Catchup(mtree, 0) /\ base' = current /\ main' = "prune"
         ELSE UNCHANGED <<tree, base>> /\ main' = "failed"
    /\ mtree' = <<>>
    /\ UNCHANGED <<linkVars, walVars, pending, err, writerVars, rewriter,
                   catchEnd, prunerVars, envVars, walChanSize>>

\* The loop over CommittedVersion ends, the rewritten tree catches up and
\* replaces db.MultiTree.
Switch ==
    /\ main = "spin"
    /\ Version(tree) = CommittedVersion
    /\ IF CanCatchup(mtree, 0)
         THEN tree' = Catchup(mtree, 0) /\ base' = current /\ main' = "prune"
         ELSE UNCHANGED <<tree, base>> /\ main' = "failed"
    /\ mtree' = <<>>
    /\ UNCHANGED <<linkVars, walVars, pending, err, writerVars, rewriter,
                   catchEnd, prunerVars, envVars, walChanSize>>

\* pruneSnapshots: wait for the last prune, start the goroutine, return.
PruneSnapshots ==
    /\ main = "prune"
    /\ pruner = "off"
    /\ pruner' = "current"
    /\ FinishCommit(err, FALSE)
    /\ UNCHANGED <<linkVars, walVars, tree, base, pending, err, writerVars, catchEnd,
                   cutoff, todo, earliest, envVars, walChanSize>>

-----------------------------------------------------------------------------
(***************************************************************************)
(* The WAL writer goroutine (initAsyncCommit).                             *)
(***************************************************************************)
\* channelBatchRecv: take everything that is queued.
WriterRecv ==
    /\ writer = "recv"
    /\ walChan # <<>>
    /\ batch' = walChan /\ walChan' = <<>>
    /\ writer' = "write"
    /\ UNCHANGED <<linkVars, walVars, mainVars, rewriterVars, prunerVars, envVars>>

WriterWrite ==
    /\ writer = "write"
    /\ \E m \in 0 .. Len(batch) :
          /\ Skipped(batch, m)
          /\ Contiguous(batch, m)
          /\ AppendToWal(batch, m)
    /\ writer' = "recv" /\ batch' = <<>>
    /\ UNCHANGED <<linkVars, walFirst, mainVars, walChan, rewriterVars,
                   prunerVars, envVars>>

\* walQuit <- err: the goroutine blocks until the error is received.
WriterFail ==
    /\ writer = "write"
    /\ \/ WalMayFail
       \/ \E m \in 0 .. Len(batch) : Skipped(batch, m) /\ ~Contiguous(batch, m)
    /\ writer' = "quit" /\ batch' = <<>>
    /\ UNCHANGED <<linkVars, walVars, mainVars, walChan, rewriterVars,
                   prunerVars, envVars>>

\* Variant: Close does not close walChan.
WriterEndOnWait ==
    /\ writer = "recv" /\ walChan = <<>>
    /\ main = "wait"
    /\ writer' = "done"
    /\ UNCHANGED <<linkVars, walVars, mainVars, walChan, batch, rewriterVars,
                   prunerVars, envVars>>

\* walChan is closed and drained.
WriterEnd ==
    /\ writer = "recv" /\ walChan = <<>>
    /\ main \in {"wait", "closeWal"}
    /\ writer' = "done"
    /\ UNCHANGED <<linkVars, walVars, mainVars, walChan, batch, rewriterVars,
                   prunerVars, envVars>>

-----------------------------------------------------------------------------
(***************************************************************************)
(* The snapshot rewrite goroutine.                                         *)
(***************************************************************************)
RewriterUnchanged == UNCHANGED <<walVars, mainVars, writerVars, prunerVars, envVars>>

\* Variant: current is moved before the new snapshot has its final name.
RewriteWriteAfterLink ==
    /\ rewriter = "write"
    /\ rewriter' = "rename" /\ tmps' = tmps \cup {Version(mtree)}
    /\ current' = Version(mtree)
    /\ UNCHANGED <<snaps, curTmp, mtree, catchEnd>>
    /\ RewriterUnchanged

\* WriteSnapshotWithContext into snapshot-V-tmp, removed again on an error
\* (a cancelled context among them).
RewriteWrite ==
    /\ rewriter = "write"
    /\ \/ rewriter' = "rename" /\ tmps' = tmps \cup {Version(mtree)}
       \/ /\ SnapshotMayFail \/ main = "closeRewrite"
          /\ rewriter' = "closed" /\ tmps' = tmps \ {Version(mtree)}
    /\ UNCHANGED <<snaps, current, curTmp, mtree, catchEnd>>
    /\ RewriterUnchanged

\* The rename fails when snapshot-V is there already.
RewriteRename ==
    /\ rewriter = "rename"
    /\ IF Version(mtree) \in DOMAIN snaps
         THEN rewriter' = "closed" /\ UNCHANGED <<snaps, tmps>>
         ELSE /\ snaps' = [v \in DOMAIN snaps \cup {Version(mtree)} |->
                             IF v = Version(mtree) THEN mtree ELSE snaps[v]]
              /\ tmps' = tmps \ {Version(mtree)}
              /\ rewriter' = "symlink"
    /\ UNCHANGED <<current, curTmp, mtree, catchEnd>>
    /\ RewriterUnchanged

\* updateCurrentSymlink: create current-tmp, which must not exist.
RewriteSymlink ==
    /\ rewriter = "symlink"
    /\ curTmp' = TRUE
    /\ rewriter' = IF curTmp THEN "closed" ELSE "link"
    /\ UNCHANGED <<snaps, current, tmps, mtree, catchEnd>>
    /\ RewriterUnchanged

\* updateCurrentSymlink: rename current-tmp to current.
RewriteLink ==
    /\ rewriter = "link"
    /\ curTmp' = FALSE /\ current' = Version(mtree)
    /\ rewriter' = "load"
    /\ UNCHANGED <<snaps, tmps, mtree, catchEnd>>
    /\ RewriterUnchanged

\* LoadMultiTree of the new current snapshot, and the start of CatchupWAL.
RewriteLoad ==
    /\ rewriter = "load"
    /\ mtree' = snaps[current]
    /\ catchEnd' = LastIndex
    /\ rewriter' = "catchup"
    /\ UNCHANGED linkVars
    /\ RewriterUnchanged

\* The best-effort CatchupWAL, one entry at a time.
RewriteCatchup ==
    /\ rewriter = "catchup"
    /\ IF CatchupFirst(mtree) > catchEnd
         THEN rewriter' = "result" /\ catchEnd' = 0 /\ mtree' = mtree
         ELSE IF Readable(CatchupFirst(mtree))
                THEN /\ mtree' = Append(mtree, walLog[CatchupFirst(mtree) - walFirst + 1])
                     /\ UNCHANGED <<rewriter, catchEnd>>
                ELSE rewriter' = "error" /\ catchEnd' = 0 /\ mtree' = mtree
    /\ UNCHANGED linkVars
    /\ RewriterUnchanged

-----------------------------------------------------------------------------
(***************************************************************************)
(* The prune goroutine.                                                    *)
(***************************************************************************)
PruneCurrent ==
    /\ pruner = "current"
    /\ cutoff' = current /\ pruner' = "list"
    /\ UNCHANGED <<linkVars, walVars, mainVars, writerVars, rewriterVars, todo,
                   earliest, envVars>>

\* Variant: SnapshotKeepRecent is not honoured.
VictimsAll(listed, cut) == {v \in listed : v < cut}

\* The directory is read once; SnapshotKeepRecent snapshots below the current
\* one are spared.
Victims(listed, cut) ==
    {v \in listed : /\ v < cut
                    /\ Cardinality({w \in listed : v < w /\ w < cut})
                         >= SnapshotKeepRecent}

PruneList ==
    /\ pruner = "list"
    /\ todo' = Victims(DOMAIN snaps, cutoff)
    /\ pruner' = "remove"
    /\ UNCHANGED <<linkVars, walVars, mainVars, writerVars, rewriterVars, cutoff,
                   earliest, envVars>>

\* atomicRemoveDir of the newest victim; it fails, and is only logged, when
\* a directory snapshot-V-tmp is in the way.
PruneRemove ==
    /\ pruner = "remove"
    /\ \E v \in todo :
          /\ \A w \in todo : w =< v
          /\ todo' = todo \ {v}
          /\ snaps' = IF v \in tmps THEN snaps
                      ELSE [w \in DOMAIN snaps \ {v} |-> snaps[w]]
    /\ UNCHANGED <<current, curTmp, tmps, walVars, mainVars, writerVars,
                   rewriterVars, pruner, cutoff, earliest, envVars>>

\* Variant: the WAL is cut at the current snapshot, not at the earliest one.
PruneFirstCurrent ==
    /\ pruner = "remove" /\ todo = {}
    /\ earliest' = cutoff
    /\ pruner' = "truncate"
    /\ UNCHANGED <<linkVars, walVars, mainVars, writerVars, rewriterVars, cutoff,
                   todo, envVars>>

\* firstSnapshotVersion; snapshot-0 makes it report an error, which is only
\* logged, and leaves the earliest version 0.
PruneFirst ==
    /\ pruner = "remove" /\ todo = {}
    /\ \E v \in DOMAIN snaps :
          /\ \A w \in DOMAIN snaps : v =< w
          /\ earliest' = v
    /\ pruner' = "truncate"
    /\ UNCHANGED <<linkVars, walVars, mainVars, writerVars, rewriterVars, cutoff,
                   todo, envVars>>

\* wal.TruncateFront; an index outside the log is an error that is only
\* logged.  After Close the log is closed and nothing is truncated (a nil
\* db.wal makes the goroutine panic, which ends the process as Exit does).
PruneTruncate ==
    /\ pruner = "truncate"
    /\ LET i == walIndex(earliest + 1) IN
          IF Readable(i) /\ main # "closed"
            THEN /\ walLog' = SubSeq(walLog, i - walFirst + 1, Len(walLog))
                 /\ walFirst' = i
            ELSE UNCHANGED walVars
    /\ pruner' = "off" /\ cutoff' = 0 /\ earliest' = 0
    /\ UNCHANGED <<linkVars, mainVars, writerVars, rewriterVars, todo, envVars>>

-----------------------------------------------------------------------------
(***************************************************************************)
(* WaitAsyncCommit, Close, the end of the process.                         *)
(***************************************************************************)
\* waitAsyncCommit closes walChan and waits for walQuit.
WaitAsyncCommit ==
    /\ main = "idle" /\ writer # "off"
    /\ main' = "wait"
    /\ UNCHANGED <<linkVars, walVars, tree, base, pending, err, writerVars,
                   rewriterVars, prunerVars, envVars, walChanSize>>

WaitAsyncCommitDone ==
    /\ main = "wait" /\ writer \in {"quit", "done"}
    /\ main' = IF writer = "quit" THEN "failed" ELSE "idle"
    /\ writer' = "off" /\ walChan' = <<>>
    /\ UNCHANGED <<linkVars, walVars, tree, base, pending, err, batch, rewriterVars,
                   prunerVars, envVars, walChanSize>>

Close ==
    /\ main = "idle"
    /\ main' = "closeWal"
    /\ UNCHANGED <<linkVars, walVars, tree, base, pending, err, writerVars,
                   rewriterVars, prunerVars, envVars, walChanSize>>

\* Variant: Close does not wait for the WAL writer.
CloseWalAtOnce ==
    /\ main = "closeWal"
    /\ err' = (writer = "quit")
    /\ writer' = "off" /\ walChan' = <<>>
    /\ main' = "closeRewrite"
    /\ UNCHANGED <<linkVars, walVars, tree, base, pending, batch, rewriterVars,
                   prunerVars, envVars, walChanSize>>

CloseWal ==
    /\ main = "closeWal" /\ writer \in {"off", "quit", "done"}
    /\ err' = (writer = "quit")
    /\ writer' = "off" /\ walChan' = <<>>
    /\ main' = "closeRewrite"
    /\ UNCHANGED <<linkVars, walVars, tree, base, pending, batch, rewriterVars,
                   prunerVars, envVars, walChanSize>>

\* The rewrite is cancelled and its channel drained; a result is dropped.
CloseRewrite ==
    /\ main = "closeRewrite"
    /\ rewriter \in {"off", "closed", "error", "result"}
    /\ rewriter' = "off" /\ mtree' = <<>>
    /\ main' = "closed"
    /\ UNCHANGED <<linkVars, walVars, tree, base, pending, err, writerVars, catchEnd,
                   prunerVars, envVars, walChanSize>>

\* The process ends after Close, or because the state machine aborts on an
\* error returned by Commit.
Exit ==
    /\ main \in {"closed", "failed"}
    /\ ProcessGone
    /\ UNCHANGED <<linkVars, walVars, envVars>>

\* The process is killed; with PowerLoss the WAL, which is not synced, loses
\* any number of its last entries (OpenWAL truncates a torn entry).
Crash ==
    /\ main # "down" /\ crashes < MaxCrashes
    /\ crashes' = crashes + 1
    /\ \E n \in 0 .. Len(walLog) :
          /\ PowerLoss \/ n = Len(walLog)
          /\ walLog' = SubSeq(walLog, 1, n)
    /\ ProcessGone
    /\ UNCHANGED <<linkVars, walFirst, chain>>

-----------------------------------------------------------------------------
CallerStep ==
    \/ \E t \in LoadTargets : Load(t)
    \/ \E b \in Block : ApplyChangeSets(b)
    \/ CommitAsync \/ CommitSync
    \/ WaitAsyncCommit \/ Close \/ Exit

MainStep ==
    \/ Send \/ CheckAsyncCommit \/ CheckBackgroundNone \/ CheckBackgroundResult
    \/ Switch \/ PruneSnapshots \/ WaitAsyncCommitDone \/ CloseWal \/ CloseRewrite

WriterStep == WriterRecv \/ WriterWrite \/ WriterFail \/ WriterEnd

RewriterStep ==
    \/ RewriteWrite \/ RewriteRename \/ RewriteSymlink \/ RewriteLink
    \/ RewriteLoad \/ RewriteCatchup

PrunerStep == PruneCurrent \/ PruneList \/ PruneRemove \/ PruneFirst \/ PruneTruncate

Next == CallerStep \/ MainStep \/ WriterStep \/ RewriterStep \/ PrunerStep \/ Crash

Spec == Init /\ [][Next]_vars

\* A started method and a running goroutine are scheduled again and again;
\* nothing makes the application call a method.
Fairness ==
    /\ WF_vars(MainStep) /\ WF_vars(WriterStep)
    /\ WF_vars(RewriterStep) /\ WF_vars(PrunerStep)

FairSpec == Spec /\ Fairness

-----------------------------------------------------------------------------
(***************************************************************************)
(* Properties.                                                             *)
(***************************************************************************)
WalEntry == [index : Nat, data : Data]
Running  == main \notin {"down", "closed"}

\* The type of the state.
TypeOK ==
    /\ DOMAIN snaps \subseteq Nat
    /\ \A v \in DOMAIN snaps : snaps[v] \in Seq(Data)
    /\ current \in Nat /\ curTmp \in BOOLEAN /\ tmps \subseteq Nat
    /\ walFirst \in Nat \ {0} /\ walLog \in Seq(Data)
    /\ main \in {"down", "idle", "send", "check", "background", "spin", "prune",
                 "failed", "wait", "closeWal", "closeRewrite", "closed"}
    /\ tree \in Seq(Data) /\ base \in Nat
    /\ pending \in Data /\ err \in BOOLEAN /\ walChanSize \in Int
    /\ writer \in {"off", "recv", "write", "quit", "done"}
    /\ walChan \in Seq(WalEntry) /\ batch \in Seq(WalEntry)
    /\ rewriter \in {"off", "write", "rename", "symlink", "link", "load",
                     "catchup", "result", "error", "closed"}
    /\ mtree \in Seq(Data) /\ catchEnd \in Nat
    /\ pruner \in {"off", "current", "list", "remove", "truncate"}
    /\ cutoff \in Nat /\ todo \subseteq Nat /\ earliest \in Nat
    /\ chain \in Seq(Data) /\ crashes \in Nat

\* What a tree must contain: the blocks of the chain, in order, from the first.
Agrees(t) == Len(t) =< Len(chain) /\ \A i \in 1 .. Len(t) : t[i] = chain[i]

\* Whatever the interleaving of commits, rewrites, switches, pruning, crashes
\* and reloads, db.MultiTree, every snapshot directory, the tree of a running
\* rewrite and the WAL hold the decided blocks and nothing else: no block is
\* skipped, applied twice or applied at another height.
StateAgrees ==
    /\ Agrees(tree)
    /\ Agrees(mtree)
    /\ \A v \in DOMAIN snaps : Agrees(snaps[v]) /\ Version(snaps[v]) = v
    /\ \A k \in 1 .. Len(walLog) :
          /\ walFirst + k - 1 =< Len(chain)
          /\ walLog[k] = chain[walFirst + k - 1]

\* Pruning never cuts a WAL entry that a remaining snapshot needs: every
\* snapshot directory can be loaded and replayed to the end of the log, also
\* while the prune goroutine races the rewrite goroutine or is killed half way.
WalCoversSnapshots ==
    \A v \in DOMAIN snaps : walFirst =< Len(snaps[v]) + 1

\* The current link always names an existing snapshot, although it is moved
\* by one goroutine and snapshots are removed by another.
CurrentNeverDangles == current \in DOMAIN snaps

\* Every version that Commit has bumped to is in the WAL, in a snapshot
\* directory or on its way to the WAL, unless the WAL writer has failed.
InFlight(i) ==
    \/ \E k \in 1 .. Len(batch)   : batch[k].index = i
    \/ \E k \in 1 .. Len(walChan) : walChan[k].index = i
    \/ main = "send" /\ i = Len(tree)

DurableOrInFlight ==
    Running /\ main # "failed" /\ ~err /\ writer \notin {"quit", "done"} =>
        \A i \in 1 .. Len(tree) :
            \/ i =< LastIndex
            \/ \E v \in DOMAIN snaps : i =< Len(snaps[v])
            \/ InFlight(i)

\* After a Close without error, the next Load of the latest version finds
\* everything that was committed.
Recovered == Catchup(snaps[current], 0)

CleanClosePreserves ==
    main = "closed" /\ ~err => Len(tree) =< Len(Recovered)

\* Switching to the rewritten snapshot changes neither the version nor the
\* contents of the tree the state machine works on.
SwitchKeepsState ==
    [][main = "spin" /\ main' = "prune" => tree' = tree]_vars

\* Options.SnapshotKeepRecent: a snapshot is removed only if it is below the
\* current one and that many newer ones below the current one stay.
PruneKeepsRecent ==
    [][\A v \in DOMAIN snaps \ DOMAIN snaps' :
          /\ v < current
          /\ Cardinality({w \in DOMAIN snaps' : v < w /\ w < current})
               >= SnapshotKeepRecent]_vars

Abstract == INSTANCE ReplayedState WITH
    open <- main # "down", state <- tree

\* The database implements a replayed state: rewriting, switching, pruning and
\* the WAL writer change nothing that the state machine sees, a Load finds a
\* prefix of the decided blocks, and every other change is one commit.
ImplementsReplayedState == Abstract!Spec

\* A Commit that has started returns, unless the WAL writer has failed: the
\* caller blocks neither on the full channel, nor in the loop over
\* CommittedVersion, nor on the prune lock.  A writer fails without any I/O
\* error when a crash has left the log behind the snapshot and the next entry
\* is out of order; what the callers do then is WalFailureAborts.
CommitReturns ==
    main \in {"send", "check", "background", "spin", "prune"}
        ~> \/ main \in {"idle", "failed", "down"}
           \/ writer = "quit" \/ err

\* Close and WaitAsyncCommit return although they wait for goroutines that
\* may have failed: a rewrite, and a WAL writer whose entry is out of order
\* after a crash.
CloseReturns ==
    /\ main \in {"closeWal", "closeRewrite"} ~> main \in {"closed", "down"}
    /\ main = "wait" ~> main \in {"idle", "failed", "down"}

-----------------------------------------------------------------------------
(***************************************************************************)
(* The strengthening that makes the safety invariants inductive.           *)
(***************************************************************************)
\* An entry on its way to the WAL carries the block of its index.
EntryAgrees(e) ==
    /\ e.index \in 1 .. Len(chain)
    /\ e.data = chain[e.index]

QueueAgrees ==
    /\ Len(chain) =< MaxVersion
    /\ \A k \in 1 .. Len(walChan) : EntryAgrees(walChan[k])
    /\ \A k \in 1 .. Len(batch) : EntryAgrees(batch[k])
    /\ main = "send" => Len(tree) > 0 /\ pending = tree[Len(tree)]

\* What the rewrite goroutine may rely on, and the caller that switches to its
\* result: the tree being written can still be replayed to the end of the WAL,
\* its directory is there when it is linked, and the tree loaded back is not
\* older than the snapshot current points to.
RewriteInv ==
    /\ main # "down" => walFirst =< Len(tree) + 1
    /\ main = "down" => rewriter = "off" /\ pruner = "off"
    /\ main \in {"spin", "prune"} => rewriter = "off"
    /\ rewriter \in {"write", "rename"} => walFirst =< Len(mtree) + 1
    /\ rewriter \in {"symlink", "link"} => Version(mtree) \in DOMAIN snaps
    /\ rewriter \in {"write", "rename", "symlink", "link"} => Len(mtree) =< Len(tree)
    /\ rewriter = "load" => current = Version(mtree)
    /\ rewriter \in {"catchup", "result"} \/ main = "spin" => current =< Version(mtree)
    /\ main = "prune" => current =< Version(tree)

\* What the prune goroutine may rely on: the link has not moved back since it
\* was read, whatever it removes is older, and nothing older than the earliest
\* snapshot it found appears afterwards.
PruneInv ==
    /\ pruner # "off" =>
          /\ current =< Version(tree)
          /\ rewriter \in {"write", "rename", "symlink", "link"} =>
                current =< Version(mtree)
    /\ pruner \in {"list", "remove", "truncate"} => cutoff =< current
    /\ pruner \in {"remove", "truncate"} => \A v \in todo : v < cutoff
    /\ pruner = "truncate" =>
          /\ earliest = 0 \/ earliest >= InitialVersion
          /\ \A v \in DOMAIN snaps : earliest =< v

\* Why the switch does not lose or add a block: the tree to switch to starts
\* from a snapshot not older than the one db.MultiTree came from, and is ahead
\* of db.MultiTree only by entries that the WAL holds.
SwitchInv ==
    /\ main # "down" => base =< Version(tree)
    /\ rewriter # "off" \/ main = "spin" =>
          /\ base =< Version(mtree)
          /\ Len(mtree) =< Len(tree) \/ Len(mtree) =< LastIndex
    /\ rewriter = "catchup" => catchEnd =< LastIndex

IInv ==
    /\ TypeOK
    /\ StateAgrees
    /\ QueueAgrees
    /\ CurrentNeverDangles
    /\ WalCoversSnapshots
    /\ RewriteInv
    /\ PruneInv
    /\ SwitchInv

-----------------------------------------------------------------------------
(***************************************************************************)
(* The part of the invariant that does not need every snapshot directory   *)
(* to hold decided blocks: only the snapshot that the link names, and the  *)
(* one it is about to name.                                                *)
(***************************************************************************)
LogAgrees ==
    \A k \in 1 .. Len(walLog) :
        /\ walFirst + k - 1 =< Len(chain)
        /\ walLog[k] = chain[walFirst + k - 1]

CoreAgrees ==
    /\ Agrees(tree) /\ Agrees(mtree)
    /\ \A v \in DOMAIN snaps : Version(snaps[v]) = v /\ Len(snaps[v]) =< MaxVersion
    /\ Agrees(snaps[current])
    /\ rewriter \in {"symlink", "link"} => Agrees(snaps[Version(mtree)])
    /\ LogAgrees

CoreInv ==
    /\ TypeOK
    /\ CoreAgrees
    /\ QueueAgrees
    /\ CurrentNeverDangles
    /\ WalCoversSnapshots
    /\ RewriteInv
    /\ PruneInv
    /\ SwitchInv

-----------------------------------------------------------------------------
(***************************************************************************)
(* The strengthening for what is committed and not lost.                   *)
(***************************************************************************)
\* The writer holds a batch only while it writes it; without a writer nothing is
\* queued; an error is known to the caller only until its method returns; and a
\* writer that ended without an error has left nothing in the channel.
WriterInv ==
    /\ writer # "write" => batch = <<>>
    /\ writer = "off" => walChan = <<>> /\ main # "send"
    /\ main \in {"down", "closeRewrite", "closed"} => writer = "off"
    /\ main \in {"down", "idle", "send", "check", "wait", "closeWal"} => ~err
    /\ writer = "done" /\ ~err => main \in {"wait", "closeWal"} /\ walChan = <<>>

\* No error has been met that the caller has been told of or will be.
Healthy == main \notin {"down", "failed"} /\ ~err /\ writer # "quit"

\* As DurableOrInFlight, and still so when the writer has ended and after Close.
DurableInv ==
    Healthy => \A i \in 1 .. Len(tree) :
        \/ i =< LastIndex
        \/ \E v \in DOMAIN snaps : i =< Len(snaps[v])
        \/ InFlight(i)

\* When only the latest version is ever loaded, the link only moves forward, and
\* what is committed is in the WAL, in the current snapshot or on its way.
LatestInv ==
    /\ main # "down" => current =< Version(tree)
    /\ rewriter \in {"write", "rename", "symlink", "link"} => current =< Version(mtree)
    /\ Healthy => \A i \in 1 .. Len(tree) :
          i =< LastIndex \/ i =< Len(snaps[current]) \/ InFlight(i)

\* Whatever is still to be removed leaves enough snapshots that are not.
KeepInv ==
    /\ IsFiniteSet(DOMAIN snaps)
    /\ pruner = "remove" => \A v \in todo :
          Cardinality({w \in DOMAIN snaps \ todo : v < w /\ w < cutoff})
             >= SnapshotKeepRecent
=============================================================================
