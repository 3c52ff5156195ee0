----------------------------- MODULE NodeStores -----------------------------
(***************************************************************************)
(* The stores of one node and the order in which a block reaches them:     *)
(* the memiavl stores and their change sets (store/memiavlstore), the      *)
(* multi store that flushes and commits them (store/rootmulti), versiondb, *)
(* which is fed by a listener after the commit (versiondb), and the        *)
(* selection of the version to load at startup (app/app.go,                *)
(* app/storeloader.go), with crashes and one store upgrade.                *)
(*                                                                         *)
(* The memiavl database itself is abstracted to what MemiavlDB shows of    *)
(* it: a log of the committed change sets of which a crash may lose any    *)
(* entries, also those of a snapshot that is published already, and        *)
(* snapshots, each with the state after its version, from which a version  *)
(* is loaded.  BaseApp of the Cosmos SDK, which calls all of this, is      *)
(* external: FinalizeBlock writes the block into the multi store, asks for *)
(* its working hash and calls the listeners; Commit commits the multi      *)
(* store and then hands the listeners what was written.                    *)
(***************************************************************************)
EXTENDS Integers, Sequences, FiniteSets

CONSTANTS
    Key,
    Value,
    Deleted,            \* what a deletion writes, and what a read of no value returns
    ChangeSets,         \* the change sets of a block: functions on subsets of Key
    SnapshotInterval,   \* Options.SnapshotInterval of memiavl
    SnapshotKeepRecent, \* Options.SnapshotKeepRecent of memiavl
    UpgradeHeight,      \* the height of the store upgrade; 0 for none
    MaxHeight,          \* bound on the blocks
    MaxCrashes          \* bound on the crashes

ASSUME StoresAssumption ==
    /\ Deleted \notin Value
    /\ \A cs \in ChangeSets : DOMAIN cs \subseteq Key /\ cs \in [DOMAIN cs -> Value \cup {Deleted}]
    \* store/config/config.go keeps one; with none kept StartsAgain does not hold
    /\ SnapshotInterval \in Nat \ {0} /\ SnapshotKeepRecent \in Nat \ {0}
    \* an upgrade is scheduled by an earlier block
    /\ UpgradeHeight \in Nat \ {1} /\ MaxHeight \in Nat /\ MaxCrashes \in Nat

VARIABLES
    \* consensus
    chain,      \* the blocks decided, as their change sets
    \* on disk
    wal,        \* the versions in the memiavl directory, as their change sets
    snaps,      \* the versions of its snapshots
    current,    \* the snapshot that its current link names
    vdb,        \* versiondb: timestamp -> the change set written with it
    vdbLatest,  \* s/latest of versiondb
    upgraded,   \* upgrade-info.json exists and the new binary is installed
    \* the process
    phase,      \* where BaseApp is in the block
    tree,       \* contents of the working trees of rs.db
    version,    \* rs.db.Version()
    pending,    \* db.pendingLog
    rewrite,    \* the background rewrite: "off", "write", "link" or "result"
    rewriting,  \* the version it writes
    pruner,     \* the prune goroutine: "off", "launched" or "removing"
    doomed,     \* the snapshots it has still to remove
    buffer,     \* memiavlstore.Store.changeSet
    attached,   \* whether the stores point to the trees of rs.db
    last,       \* rs.lastCommitInfo.Version
    listener,   \* what the MemoryListeners have accumulated
    block,      \* StreamingService.currentBlockNumber
    crashes

diskVars    == <<wal, snaps, current, vdb, vdbLatest, upgraded>>
pruneVars   == <<pruner, doomed>>
storeVars   == <<tree, version, pending, rewrite, rewriting, pruneVars, buffer, attached, last>>
listenVars  == <<listener, block>>
vars == <<chain, wal, snaps, current, vdb, vdbLatest, upgraded, phase, tree, version, pending,
          rewrite, rewriting, pruner, doomed, buffer, attached, last, listener, block, crashes>>

-----------------------------------------------------------------------------
NoWrite == [k \in {} |-> Deleted]
Empty   == [k \in Key |-> Deleted]

\* The writes of new on top of old: the later write of a key wins.
Over(new, old) ==
    [k \in DOMAIN new \cup DOMAIN old |-> IF k \in DOMAIN new THEN new[k] ELSE old[k]]

\* The value of a key after the blocks from a to b of s: the last write wins.
LastWrite(s, a, b, k) ==
    LET writes == {i \in a .. b : k \in DOMAIN s[i]} IN
    IF writes = {} THEN Deleted
    ELSE s[CHOOSE i \in writes : \A j \in writes : j =< i][k]

After(s, n) == [k \in Key |-> LastWrite(s, 1, n, k)]

Height  == version + 1

Smaller(a, b) == IF a < b THEN a ELSE b

-----------------------------------------------------------------------------
Init ==
    /\ chain = <<>>
    /\ wal = <<>> /\ snaps = {0} /\ current = 0
    /\ vdb = [v \in {} |-> NoWrite] /\ vdbLatest = 0 /\ upgraded = FALSE
    /\ phase = "down" /\ tree = Empty /\ version = 0 /\ pending = NoWrite
    /\ rewrite = "off" /\ rewriting = 0 /\ pruner = "off" /\ doomed = {}
    /\ buffer = NoWrite /\ attached = TRUE /\ last = 0
    /\ listener = NoWrite /\ block = 0 /\ crashes = 0

\* The memory of the process is gone.
ProcessGone ==
    /\ phase' = "down" /\ tree' = Empty /\ version' = 0 /\ pending' = NoWrite
    /\ rewrite' = "off" /\ rewriting' = 0 /\ pruner' = "off" /\ doomed' = {}
    /\ buffer' = NoWrite /\ attached' = TRUE /\ last' = 0
    /\ listener' = NoWrite /\ block' = 0

-----------------------------------------------------------------------------
(***************************************************************************)
(* Startup.                                                                *)
(***************************************************************************)
\* LastCommitID of a multi store that is not loaded yet: GetLatestVersion reads
\* the last index of the WAL.
LastCommitVersion == Len(wal)

\* The new binary loads the latest version and adds the stores when the next
\* block is the one of the upgrade.
LoadForUpgrade == upgraded /\ UpgradeHeight = LastCommitVersion + 1

\* Variant: the new binary never caps the version it loads.
TargetUncapped == IF upgraded THEN 0 ELSE vdbLatest

\* MaxVersionUpgradeStoreLoader and MaxVersionStoreLoader: the version to load,
\* 0 for the latest one.
Target == IF LoadForUpgrade THEN 0 ELSE vdbLatest

SnapshotFound == Target = 0 \/ \E v \in snaps : v =< Target

\* memiavl.Load opens the current snapshot, or the last one up to the target,
\* and replays the WAL up to the target, or to its end; a log that ends before
\* the snapshot adds nothing.
LoadBase ==
    IF Target = 0 THEN current
    ELSE CHOOSE v \in snaps : v =< Target /\ \A w \in snaps : w =< Target => w =< v

ReplayEnd == IF Target = 0 THEN Len(wal) ELSE Smaller(Target, Len(wal))

LoadedVersion == IF ReplayEnd < LoadBase THEN LoadBase ELSE ReplayEnd

LoadedTree ==
    [k \in Key |->
        IF \E i \in LoadBase + 1 .. ReplayEnd : k \in DOMAIN wal[i]
          THEN LastWrite(wal, LoadBase + 1, ReplayEnd, k)
          ELSE After(chain, LoadBase)[k]]

\* ApplyUpgrades adds the stores of the new binary to a version that has not
\* got them ("memiavl tree name conflicts"); without it they exist in a new
\* database, or once the upgrade is in the loaded version ("new store is not
\* added in upgrades").
StoresFound ==
    upgraded => IF LoadForUpgrade THEN LoadedVersion < UpgradeHeight
                ELSE LoadedVersion = 0 \/ LoadedVersion >= UpgradeHeight

\* The check in New once the stores are loaded: versiondb must not lag behind.
LagBehind == vdbLatest > 0 /\ vdbLatest < LoadedVersion

CanStart == SnapshotFound /\ StoresFound /\ ~LagBehind

\* New, LoadLatestVersion and rootmulti.LoadVersionAndUpgrade.
Start ==
    /\ phase = "down" /\ CanStart
    /\ tree' = LoadedTree
    /\ version' = LoadedVersion /\ last' = LoadedVersion
    /\ phase' = "idle"
    /\ UNCHANGED <<chain, diskVars, pending, rewrite, rewriting, pruneVars, buffer, attached,
                   listenVars, crashes>>

-----------------------------------------------------------------------------
(***************************************************************************)
(* FinalizeBlock.                                                          *)
(***************************************************************************)
\* The writes of the block reach the stores and, through listenkv, the
\* listeners.  A block decided before is executed again with the same result;
\* the new binary cannot reproduce a block from before the upgrade.
Write(cs) ==
    /\ phase = "idle" /\ Height =< MaxHeight
    /\ UpgradeHeight = 0 \/ (upgraded <=> Height >= UpgradeHeight)
    /\ IF Height =< Len(chain)
         THEN cs = chain[Height] /\ UNCHANGED chain
         ELSE chain' = Append(chain, cs)
    /\ buffer' = Over(cs, buffer)
    /\ listener' = Over(cs, listener)
    /\ phase' = "written"
    /\ UNCHANGED <<diskVars, tree, version, pending, rewrite, rewriting, pruneVars, attached, last,
                   block, crashes>>

\* The old binary writes upgrade-info.json at the upgrade height and panics;
\* the operator installs the new one.
UpgradePanic ==
    /\ phase = "idle" /\ ~upgraded /\ Height = UpgradeHeight
    /\ upgraded' = TRUE
    /\ ProcessGone
    /\ UNCHANGED <<chain, wal, snaps, current, vdb, vdbLatest, crashes>>

\* flush: the change sets of the stores go into the working trees and into
\* pendingLog.
Flush ==
    /\ tree' = Over(buffer, tree)
    /\ buffer' = NoWrite

\* The working hash of FinalizeBlock is the one of the flushed trees.
WorkingHash ==
    /\ phase = "written"
    /\ Flush
    /\ pending' = Over(buffer, pending)
    /\ phase' = "hashed"
    /\ UNCHANGED <<chain, diskVars, version, rewrite, rewriting, pruneVars, attached, last,
                   listenVars, crashes>>

\* Variant: the number of the next block is recorded.
ListenFinalizeBlockNext ==
    /\ phase = "hashed"
    /\ block' = Height + 1
    /\ phase' = "finalized"
    /\ UNCHANGED <<chain, diskVars, storeVars, listener, crashes>>

\* Variant: the block number is recorded only once.
ListenFinalizeBlockOnce ==
    /\ phase = "hashed"
    /\ block' = IF block = 0 THEN Height ELSE block
    /\ phase' = "finalized"
    /\ UNCHANGED <<chain, diskVars, storeVars, listener, crashes>>

ListenFinalizeBlock ==
    /\ phase = "hashed"
    /\ block' = Height
    /\ phase' = "finalized"
    /\ UNCHANGED <<chain, diskVars, storeVars, listener, crashes>>

-----------------------------------------------------------------------------
(***************************************************************************)
(* Commit.                                                                 *)
(***************************************************************************)
\* A version that the log already holds is skipped, and one that is not the next
\* of the log is out of order and cannot be written.
OutOfOrder == Height > Len(wal) + 1

Logged(cs) == IF Height = Len(wal) + 1 THEN Append(wal, cs) ELSE wal

\* db.Commit: with a rewritten snapshot at hand it waits until the log ends at
\* the new version, then switches, which closes the trees the stores point to,
\* waits for the last prune goroutine and launches one; otherwise it may start
\* a rewrite.
CommitDB(cs) ==
    /\ version' = Height
    /\ wal' = Logged(cs)
    /\ pending' = NoWrite
    /\ IF rewrite = "result"
         THEN /\ Height = Len(wal')
              /\ attached' = FALSE
              /\ pruner = "off" /\ pruner' = "launched" /\ UNCHANGED doomed
         ELSE UNCHANGED <<attached, pruneVars>>
    /\ LET busy == rewrite \in {"write", "link"} IN
       IF ~busy /\ Height % SnapshotInterval = 0
         THEN rewrite' = "write" /\ rewriting' = Height
         ELSE IF busy THEN UNCHANGED <<rewrite, rewriting>>
         ELSE rewrite' = "off" /\ rewriting' = 0

\* rootmulti Commit, up to the return of db.Commit.  An entry that is out of
\* order fails in the goroutine that writes the log, and Commit may go on.
Commit ==
    /\ phase = "finalized"
    /\ Flush
    /\ CommitDB(Over(buffer, pending))
    /\ phase' = "committed"
    /\ UNCHANGED <<chain, snaps, current, vdb, vdbLatest, upgraded, last, listenVars, crashes>>

\* The error of the log reaches Commit, which panics.
CommitFails ==
    /\ phase = "finalized" /\ OutOfOrder
    /\ ProcessGone
    /\ UNCHANGED <<chain, diskVars, crashes>>

\* Variant: the stores keep the trees they had.
UpdateInfoOnly ==
    /\ phase = "committed"
    /\ last' = version
    /\ phase' = "updated"
    /\ UNCHANGED <<chain, diskVars, tree, version, pending, rewrite, rewriting, pruneVars, buffer,
                   attached, listenVars, crashes>>

\* The rest of rootmulti Commit: SetTree of every store, and lastCommitInfo.
UpdateTrees ==
    /\ phase = "committed"
    /\ attached' = TRUE
    /\ last' = version
    /\ phase' = "updated"
    /\ UNCHANGED <<chain, diskVars, tree, version, pending, rewrite, rewriting, pruneVars, buffer,
                   listenVars, crashes>>

\* PopStateCache, ListenCommit and PutAtVersion, which is synced: the pairs are
\* written with the recorded block number as their timestamp, which becomes the
\* latest version, whatever it was before.
ListenCommit ==
    /\ phase = "updated"
    /\ vdb' = LET old == IF block \in DOMAIN vdb THEN vdb[block] ELSE NoWrite
              IN  Over([v \in {block} |-> Over(listener, old)], vdb)
    /\ vdbLatest' = block
    /\ listener' = NoWrite
    /\ phase' = "idle"
    /\ UNCHANGED <<chain, wal, snaps, current, upgraded, storeVars, block, crashes>>

-----------------------------------------------------------------------------
(***************************************************************************)
(* The goroutines of memiavl.                                              *)
(***************************************************************************)
\* The rewrite goroutine publishes its snapshot, or gives up because the
\* directory exists already.
RewriteRename ==
    /\ rewrite = "write"
    /\ IF rewriting \in snaps
         THEN rewrite' = "off" /\ UNCHANGED snaps
         ELSE rewrite' = "link" /\ snaps' = snaps \cup {rewriting}
    /\ UNCHANGED <<chain, wal, current, vdb, vdbLatest, upgraded, phase, tree, version, pending,
                   rewriting, pruneVars, buffer, attached, last, listenVars, crashes>>

\* It moves the current link, and opens the snapshot for the caller.
RewriteLink ==
    /\ rewrite = "link"
    /\ rewrite' = "result" /\ current' = rewriting
    /\ UNCHANGED <<chain, wal, snaps, vdb, vdbLatest, upgraded, phase, tree, version, pending,
                   rewriting, pruneVars, buffer, attached, last, listenVars, crashes>>

\* Variant: one snapshot less is kept.
PrunedOneMore(v) ==
    {w \in snaps : w < v /\ Cardinality({u \in snaps : w < u /\ u < v}) + 1 >= SnapshotKeepRecent}

\* The older snapshots that pruning removes when v is current.
Pruned(v) ==
    {w \in snaps : w < v /\ Cardinality({u \in snaps : w < u /\ u < v}) >= SnapshotKeepRecent}

\* The prune goroutine reads the current link, which a later rewrite may have
\* moved on since it was launched,
PruneCurrent ==
    /\ pruner = "launched"
    /\ doomed' = Pruned(current)
    /\ pruner' = IF doomed' = {} THEN "off" ELSE "removing"
    /\ UNCHANGED <<chain, diskVars, phase, tree, version, pending, rewrite, rewriting, buffer,
                   attached, last, listenVars, crashes>>

\* and removes one snapshot after the other.
PruneRemove ==
    /\ pruner = "removing"
    /\ \E w \in doomed :
         /\ \A u \in doomed : u =< w
         /\ snaps' = snaps \ {w} /\ doomed' = doomed \ {w}
    /\ pruner' = IF doomed' = {} THEN "off" ELSE "removing"
    /\ UNCHANGED <<chain, wal, current, vdb, vdbLatest, upgraded, phase, tree, version, pending,
                   rewrite, rewriting, buffer, attached, last, listenVars, crashes>>

-----------------------------------------------------------------------------
\* App.Close between two blocks: versiondb and memiavl are flushed.
Close ==
    /\ phase = "idle"
    /\ ProcessGone
    /\ UNCHANGED <<chain, diskVars, crashes>>

\* The process is killed: the memiavl log is not synced and partly queued, so
\* that any entries may be lost, whatever the snapshots hold; versiondb is synced.
Crash ==
    /\ phase # "down" /\ crashes < MaxCrashes
    /\ crashes' = crashes + 1
    /\ \E n \in 0 .. Len(wal) : wal' = SubSeq(wal, 1, n)
    /\ ProcessGone
    /\ UNCHANGED <<chain, snaps, current, vdb, vdbLatest, upgraded>>

Next ==
    \/ Start
    \/ \E cs \in ChangeSets : Write(cs)
    \/ UpgradePanic \/ WorkingHash \/ ListenFinalizeBlock
    \/ Commit \/ CommitFails \/ UpdateTrees \/ ListenCommit
    \/ RewriteRename \/ RewriteLink \/ PruneCurrent \/ PruneRemove
    \/ Close \/ Crash

Spec == Init /\ [][Next]_vars

-----------------------------------------------------------------------------
(***************************************************************************)
(* Properties.                                                             *)
(***************************************************************************)
Partial == UNION {[S -> Value \cup {Deleted}] : S \in SUBSET Key}

\* The type of the state.
TypeOK ==
    /\ chain \in Seq(ChangeSets) /\ wal \in Seq(Partial)
    /\ snaps \subseteq 0 .. MaxHeight /\ current \in snaps
    /\ \A v \in DOMAIN vdb : v \in 1 .. MaxHeight /\ vdb[v] \in Partial
    /\ vdbLatest \in 0 .. MaxHeight /\ upgraded \in BOOLEAN
    /\ phase \in {"down", "idle", "written", "hashed", "finalized", "committed", "updated"}
    /\ tree \in [Key -> Value \cup {Deleted}] /\ version \in 0 .. MaxHeight
    /\ {pending, buffer, listener} \subseteq Partial
    /\ rewrite \in {"off", "write", "link", "result"} /\ rewriting \in 0 .. MaxHeight
    /\ pruner \in {"off", "launched", "removing"} /\ doomed \subseteq snaps
    /\ attached \in BOOLEAN /\ last \in 0 .. MaxHeight
    /\ block \in 0 .. MaxHeight /\ crashes \in 0 .. MaxCrashes

\* What a read through the stores of rootmulti sees between two calls of
\* BaseApp: never a closed tree and never a part of a block.  Outside of a block
\* it is the last committed one, also after a switch and after a reload from a
\* snapshot and whatever a crash has left of the log; between the working hash
\* and Commit it is one whole block, the last committed or the next one.
StoresReadOneBlock ==
    /\ phase \in {"idle", "written", "updated"} =>
          attached /\ last = version /\ tree = After(chain, version)
    /\ phase \in {"hashed", "finalized"} =>
          attached /\ tree \in {After(chain, last), After(chain, last + 1)}
    /\ \A n \in 0 .. Len(wal) : After(wal, n) = After(chain, n)

\* A query of a past version: the newest write not after it (GetAtVersion).
FirstVersion == IF DOMAIN vdb = {} THEN 1
                ELSE CHOOSE v \in DOMAIN vdb : \A w \in DOMAIN vdb : v =< w

GetAtVersion(k, v) ==
    LET stamps == {t \in DOMAIN vdb : t =< v /\ k \in DOMAIN vdb[t]} IN
    IF stamps = {} THEN Deleted
    ELSE vdb[CHOOSE t \in stamps : \A u \in stamps : u =< t][k]

\* From its first version on versiondb answers every query up to its latest
\* version with the state after that block, whatever was executed again: it has
\* no gap and no pair of another block.
VersiondbExact ==
    \A v \in FirstVersion .. vdbLatest :
        /\ v \in DOMAIN vdb
        /\ \A k \in Key : GetAtVersion(k, v) = LastWrite(chain, FirstVersion, v, k)

\* "it should not happens since we constraint the loaded iavl version to not
\* exceed the versiondb version": the check for a lagging versiondb, which is
\* made when the stores are loaded, never fires, also when the upgrade loader
\* loads the latest version uncapped and a snapshot is ahead of the log.
NeverLagsBehind ==
    phase = "down" /\ SnapshotFound /\ StoresFound => ~LagBehind

\* A stopped node starts again: pruning, although it does not ask versiondb, has
\* left a snapshot for the version that versiondb asks for, and the stores are
\* found.  For the new binary this is said only once the upgrade is in the log
\* and in versiondb, and when the old one has left the log at the block before
\* it; what happens in between is NewBinaryStarts.
StartsAgain ==
    phase = "down" /\ (upgraded => \/ LastCommitVersion >= UpgradeHeight /\ vdbLatest >= UpgradeHeight
                                   \/ LastCommitVersion = UpgradeHeight - 1 /\ current < UpgradeHeight)
        => CanStart

\* The wait for the WAL in checkBackgroundSnapshotRewrite does not find a log
\* that is ahead: although a capped load leaves entries in the log that are
\* committed again, no rewritten snapshot is at hand before the log's last
\* version is reached again.
NeverSpins ==
    phase = "finalized" /\ rewrite = "result" => Height >= Len(wal)

-----------------------------------------------------------------------------
(***************************************************************************)
(* The strengthening that makes the invariants inductive.                  *)
(***************************************************************************)
Executing == phase \in {"idle", "written", "hashed", "finalized"}
Committed == phase \in {"committed", "updated"}

\* The log of memiavl is a prefix of the decided blocks.
LogInv ==
    /\ chain \in Seq(ChangeSets) /\ wal \in Seq(ChangeSets)
    /\ Len(wal) =< Len(chain) /\ Len(chain) =< MaxHeight
    /\ \A i \in 1 .. Len(wal) : wal[i] = chain[i]

\* Where the writes of the block are: in the buffers of the stores, then in
\* pendingLog, then in the log, and in the listeners until versiondb has them.
BlockInv ==
    /\ buffer = IF phase = "written" THEN chain[Height] ELSE NoWrite
    /\ pending = IF phase \in {"hashed", "finalized"} THEN chain[Height] ELSE NoWrite
    /\ phase \in {"down", "idle"} => listener = NoWrite
    /\ phase \in {"written", "hashed", "finalized"} =>
          Height =< Len(chain) /\ listener = chain[Height]
    /\ phase = "finalized" => block = Height
    /\ Committed => block = version /\ version >= 1 /\ listener = chain[version]

\* What the working trees hold, and which trees the stores point to.
TreeInv ==
    /\ phase \in {"idle", "written", "committed", "updated"} => tree = After(chain, version)
    /\ phase \in {"hashed", "finalized"} => tree = After(chain, Height)
    /\ phase \notin {"down", "committed"} => last = version
    /\ phase # "committed" => attached

\* How far the database, its log and versiondb are apart: a block is in
\* versiondb before the next one is executed, so that one block at most is in
\* the log and not in versiondb; a loss of the log puts versiondb, and the
\* version of a snapshot, ahead of it.
DistanceInv ==
    /\ version =< Len(chain)
    /\ Executing => Len(wal) =< Height /\ (vdbLatest > 0 => version =< vdbLatest)
    /\ Committed => Len(wal) =< version /\ (vdbLatest > 0 => version =< vdbLatest + 1)
    /\ vdbLatest > 0 => Len(wal) =< vdbLatest + 1
    /\ vdbLatest =< Len(chain)

\* A stamp in versiondb carries the block of its number, and there is no gap
\* between a stamp and the latest version.
StampsInv ==
    /\ vdbLatest = 0 => DOMAIN vdb = {}
    /\ vdbLatest > 0 => vdbLatest \in DOMAIN vdb
    /\ \A v \in DOMAIN vdb : v \in 1 .. Len(chain) /\ vdb[v] = chain[v]
    /\ \A v \in DOMAIN vdb, w \in 1 .. vdbLatest : v =< w => w \in DOMAIN vdb

\* The last version that versiondb is known to have.
Floor == IF Committed THEN version - 1 ELSE version

\* One snapshot that is not about to be removed is in reach of versiondb.  What
\* the prune goroutine removes is older than the link and than the snapshot
\* that is being written.
SnapshotsInv ==
    /\ current \in snaps
    /\ \A s \in snaps : s \in 0 .. Len(chain)
    /\ vdbLatest > 0 => \E s \in snaps : s =< vdbLatest
    /\ phase # "down" => \E s \in snaps \ doomed : s =< Floor
    /\ phase = "down" => rewrite = "off" /\ pruner = "off"
    /\ rewrite # "off" => rewriting =< version
    /\ rewrite = "link" => rewriting \in snaps
    /\ rewrite = "result" => current = rewriting
    /\ pruner # "off" => current =< version /\ (rewrite # "off" => current =< rewriting)
    /\ pruner # "removing" => doomed = {}
    /\ doomed \subseteq {s \in snaps : s < current}

\* The new binary executes no block before the upgrade.
UpgradeInv ==
    upgraded =>
        /\ UpgradeHeight >= 1
        /\ vdbLatest = 0 \/ vdbLatest >= UpgradeHeight - 1
        /\ phase \in {"written", "hashed", "finalized"} => Height >= UpgradeHeight
        /\ Committed => version >= UpgradeHeight

StoresInv ==
    /\ TypeOK
    /\ LogInv
    /\ BlockInv
    /\ TreeInv
    /\ DistanceInv
    /\ StampsInv
    /\ SnapshotsInv
    /\ UpgradeInv

=============================================================================
