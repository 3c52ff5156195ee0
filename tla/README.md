# A TLA+ model of the Genesis/Cronos node: state storage and token conversion

The repository is a Cosmos SDK application with an EVM. Its own core logic is
the state storage it replaces the SDK's with (`memiavl`, `store/rootmulti`,
`versiondb`) and the module that converts between native coins and EVM tokens
(`x/cronos`). This directory models it in TLA+, model-checks it with TLC and
proves the most important invariants with TLAPS.

## 1. Inventory

| Component | State | Operations | What is hard |
|---|---|---|---|
| **memiavl DB** (`memiavl/db.go`, `wal.go`) | snapshot directories, the `current` link, WAL, in-memory trees, pending log, three goroutines and their channels | Load, ApplyChangeSets, Commit, RewriteSnapshotBackground, WaitAsyncCommit, Close, rollback | four threads over one directory, crashes between file operations, WAL behind or ahead of the tree, waiting on goroutines that may have failed |
| **MultiTree** (`multitree.go`) | named trees, last commit info, initial version | ApplyChangeSet(s), ApplyUpgrades, SaveVersion, CatchupWAL, WriteSnapshot, Copy | version ↔ WAL index with an initial version, idempotent replay |
| **Tree and nodes** (`tree.go`, `node.go`, `mem_node.go`, `persisted_node.go`) | copy-on-write AVL nodes, some in mmapped files | set, remove, rebalance, SaveVersion, Copy, iterate | sharing between a copy that is being written to disk and the working tree |
| **Snapshot files, export, import** | post-order node and key files | write, open, verify, export, import | layout arithmetic, goroutines connected by channels, cancellation |
| **rootmulti** (`store/`) | stores by key, last commit info, the DB | flush, WorkingHash, Commit, CacheMultiStoreWithVersion, LoadVersion, Snapshot, Restore | stale tree pointers after a switch, non-IAVL stores committed in another step |
| **versiondb** | timestamped column family, latest version | PutAtVersion, reads and iteration at a version, import | written by a listener after the memiavl commit and synced, while the memiavl WAL is not: either may be ahead after a crash |
| **versiondb tools, extsort** | change set files | dump, build, verify, restore, external sort | pure algorithms over files |
| **x/cronos keeper** | external, auto and reverse contract maps, params, permissions | token mapping messages, conversion, log handlers, IBC middleware, hooks, precompiles | agreement of three maps, conservation of supply when one of several steps fails |
| **x/e2ee, app, cmd, rpc, contracts** | – | wiring, queries, key registry | – |

How they interact: consensus delivers blocks to the application; `rootmulti`
flushes the block's change sets into the memiavl DB and commits; the DB bumps
the version, hands the entry to the WAL writer, polls its goroutines, possibly
switches to a freshly written snapshot and starts another rewrite; `versiondb`
is fed from the same commit by a listener. `x/cronos` runs inside the block.

Which store is ahead after a crash decides what the next start loads: versiondb's
latest version caps the version that memiavl loads (`app/storeloader.go`), and the
blocks above it are replayed.

The properties that make each part correct: for the DB, that whatever survives
on disk is a prefix-consistent image of the decided blocks, that nothing that is
needed is pruned, that a switch is invisible, and that Commit and Close return;
for the trees, that a copy never sees a later write; for the snapshot files,
that export, import and reopening give the same tree; for `rootmulti` and
`versiondb`, that a reader at a version sees that version; for `x/cronos`, that
forward and reverse maps agree and conversions conserve value.

## 2. Modules

| Module | What it is |
|---|---|
| `MemiavlDB` | the life cycle of one database directory: state, one action per step, properties, the inductive invariant, and small wrong variants of single definitions used as a sanity check of the properties |
| `ReplayedState` | what the database promises to its caller: an abstract specification that `MemiavlDB` implements |
| `MemiavlRollback` | extends `MemiavlDB` by `Load` with `LoadForOverwriting`, in its separate steps |
| `AvlTree` | the algorithms that change a tree on a heap of shared nodes: set, remove, balance, hash, and the lookup of a key |
| `TreeReads` | the other readers of a tree: the key of a rank, iteration, the post-order scan, ICS-23 proofs |
| `SnapshotFile` | the post-order files of a snapshot, reading them back, export and import |
| `CowTree` | the life of one `Tree` over `AvlTree`, and its properties |
| `VersionedMap` | the abstract specification that `CowTree` implements |
| `CowTreeReads` | what readers, proofs, snapshots and exports say of the trees that `CowTree` reaches |
| `NodeStores` | composes the stores of a node: `memiavlstore`, `rootmulti`, the database, `versiondb`, the choice of the version to load |
| `TokenMapping` | the contract maps of `x/cronos`, who may change them, export and import |
| `TokenConversion` | extends `TokenMapping` by the coins and tokens that conversions, the IBC middleware and the log handlers move |
| `MCMemiavlDB`, `MCMemiavlRollback`, `MCCowTree`, `MCNodeStores`, `MCTokenMapping`, `MCTokenConversion` | the instances TLC runs, some with the statements that comments, documents and tests make |
| `MemiavlDBProofs` | proofs: the invariant of the database and what follows from it |
| `MemiavlDurability` | proofs: what is committed is kept, a clean Close, which snapshots pruning leaves, and the refinement of `ReplayedState` |
| `CowTreeProofs` | proofs about the tree: set, remove, rebalancing, hashing and lookup on trees of any size, and the properties of `CowTree` |
| `MemiavlRollbackProofs` | proofs about the rollback, killed and repeated |
| `NodeStoresProofs` | proofs about the stores of a node |
| `TokenMappingProofs`, `TokenConversionProofs` | proofs about the maps and the books of `x/cronos` |
| `SetLemmas` | facts the proofs share: least and greatest elements, induction over the subsets of a finite set, sums |

### MemiavlDB and the code

*Abstraction.* A tree is the sequence of the change sets committed into it. The
node structure and hashes are a function of that sequence, so two trees are
equal exactly if the sequences are. Change sets are model values; `NoChange` is
an empty `pendingLog`. The sequence `chain` is the block store of the consensus
engine: it decides a block when it is first committed and replays the same block
at the same height after a restart, which is what makes replay deterministic.

*Threads.* `main` is the program counter of the caller of the DB's methods (they
are serialised by `db.mtx`); `writer` that of the goroutine of
`initAsyncCommit`; `rewriter` that of `rewriteSnapshotBackground`; `pruner` that
of `pruneSnapshots`. A step of the model is what the code does between two
points at which another thread or a crash can observe it: one file operation,
one channel operation, or a computation on private memory.

| Code | Actions |
|---|---|
| `Load` (+ `removeTmpDirs`, `seekSnapshot`, `CatchupWAL`) | `Load(target)` |
| `ApplyChangeSets` | `ApplyChangeSets(b)` |
| `Commit`, asynchronous | `CommitAsync`, `Send` |
| `Commit`, synchronous (`writeEntry`, `WriteBatch`) | `CommitSync` |
| `checkAsyncCommit` | `CheckAsyncCommit` |
| `checkBackgroundSnapshotRewrite`, end of `Commit`, `rewriteIfApplicable` | `CheckBackgroundNone`, `CheckBackgroundResult`, `Switch`, `PruneSnapshots` |
| `initAsyncCommit`, `channelBatchRecv` | `WriterRecv`, `WriterWrite`, `WriterFail`, `WriterEnd` |
| `rewriteSnapshotBackground`, `RewriteSnapshotWithContext`, `updateCurrentSymlink` | `RewriteWrite`, `RewriteRename`, `RewriteSymlink`, `RewriteLink`, `RewriteLoad`, `RewriteCatchup` |
| goroutine of `pruneSnapshots` | `PruneCurrent`, `PruneList`, `PruneRemove`, `PruneFirst`, `PruneTruncate` |
| `WaitAsyncCommit`, `Close` | `WaitAsyncCommit`, `WaitAsyncCommitDone`, `Close`, `CloseWal`, `CloseRewrite` |
| end or death of the process (external) | `Exit`, `Crash` |

Details kept because a property depends on them: unsigned wrap-around in
`walIndex`; `CommittedVersion` of an empty log; the rename that fails because
the snapshot is there already; the `current-tmp` link that `removeTmpDirs` does
not remove; errors that are only logged; the version that is bumped before a
failing write; the unbuffered, buffered and absent WAL channel.

External (from how `db.go` uses it): `tidwall/wal` (an indexed log with
`LastIndex`, `Read`, `WriteBatch` without gaps, `TruncateFront`), the file
system (rename is atomic), the block store, and what a crash does: a kill loses
what is in memory, a power loss also any entries at the end of the WAL, which is
opened without sync. A power loss never loses a rename or a link, and the bytes of
a torn entry, which `OpenWAL` cuts off, are not modelled: after a crash the WAL
holds whole entries.

`ApplyChangeSets` is called once per version, as `rootmulti` calls it; merging a
second call into a `pendingLog` that is not empty (`db.go:351-402`) is not modelled.

### ReplayedState

The promise: a database that is open holds a prefix of the decided blocks; opening
takes up some prefix, a commit appends the next block (a new decision, or the
recorded one when the chain is ahead), and closing or dying forgets the open state.
Everything else (WAL entries, snapshots, rewrites, switches, pruning) is a stutter.
The mapping is in `MemiavlDB`: `open` is a main thread that is not down, `state`
the tree, `chain` the block store.

### MemiavlRollback and the code

| Code (`Load` with `LoadForOverwriting`) | Actions |
|---|---|
| `seekSnapshot`, `LoadMultiTree`, `CatchupWAL` | `RollbackLoad(t)` |
| `updateCurrentSymlink` | `RollbackSymlink`, `RollbackLink` |
| `wal.TruncateBack`, and the chain that consensus abandons with it | `RollbackTruncate` |
| `traverseSnapshots` with `atomicRemoveDir` | `RollbackRemove`, `RollbackDone` |
| the process is killed | `RollbackCrash` |

It composes with every action of `MemiavlDB`, so that a killed rollback is followed
by an ordinary start or by another rollback, by other blocks at the same heights,
rewrites and pruning. A failing `atomicRemoveDir` is only logged by the code and is
not modelled.

### The tree and the code

*Abstraction.* Keys are numbers and values model values. A heap is a function from
the addresses in use to nodes with key, value, height, size, version, children and hash
(or no hash yet), and a pointer is an address, so that a node two trees share is one
node and a write in place is seen by both. `Live` drops the nodes that no root reaches.
SHA-256 is an injective function of what is hashed. `disk` marks a persisted node, which
is never written. The recursion of the code on a node is a recursive function on the
addresses of the heap (`SetAt`, `RemoveAt`, `GetAt`, `HashOf`); the step at a leaf and
the step at a branch, given what the call for the child returned, are operators of
their own.

`Persisted` is a tree opened from a snapshot: its nodes with their hashes, all of them
on disk. That the files of `SnapshotFile` really give this tree back is the property
`SnapshotReadsBack`, checked on every tree the run reaches.

| Code | Definitions |
|---|---|
| `node.go` (`setRecursive`, `removeRecursive`), `mem_node.go` (`Mutate`, balance, rotations, hash, `Get`) | operators of `AvlTree` |
| `GetByIndex`, `iterator.go`, `ScanPostOrder`, `proof.go` | operators of `TreeReads` |
| `snapshot.go` writer, `persisted_node.go`, `layout_native.go` | `SnapshotFile`: post-order sequences of leaves and branches; children are found by arithmetic, not by stored pointers |
| `export.go`, `import.go` | `SnapshotFile`: stream of exported nodes and the stack of the importer |
| `Tree.set`, `Tree.remove`, `Get` with the cache | `Set`, `Remove`, `GetUncached` |
| `RootHash`, `SaveVersion(updateHash)` | same names |
| `Copy` before a rewrite (`db.copy`) | `CommitAndCopy`, `DropCopy` |
| `NewFromSnapshot` after a start, and after a switch | `Load`, `Switch` |

`VersionedMap` is the promise: a map that is written, saved under the next version,
frozen for a copy and restored from the frozen copy. Taking a hash, filling the
cache and every rotation are stutters.

### NodeStores and the code

*Abstraction.* A block is one change set on two keys. The database is what
`MemiavlDB` shows it to be: a log, of which a crash may lose any entries, also those
of a snapshot that is published already, and snapshots from which a version can be
loaded. So a snapshot may be ahead of the log, and two versions that are easily
taken for one are kept apart: `LastCommitVersion`, which the store loader compares
with the upgrade height and which is the end of the log (`GetLatestVersion`), and
`LoadedVersion`, which is at least the version of the snapshot. An entry that is out
of order fails in the WAL writer; Commit goes on until it learns of it (`Commit`)
or panics (`CommitFails`). `BaseApp` is external, modelled from the order in which it
calls the store.

A start fails when no snapshot reaches the version asked for (`SnapshotFound`), when
the stores of the upgrade are added twice or not at all (`StoresFound`: `ApplyUpgrades`
and `loadCommitStoreFromParams`), or when versiondb lags behind (`LagBehind`). The
pruner is a goroutine of its own: it is launched by a switch and reads the link later,
when the next rewrite may have moved it. Left out: a `current-tmp` link in the way of
a rewrite (the subject of `MemiavlDB`), the hang of a Commit after the writer has
failed (likewise), and an error of `PutAtVersion`, which `ListenCommit` returns and
BaseApp handles.

| Code | Actions |
|---|---|
| `app/storeloader.go`, `LoadVersionAndUpgrade`, the check of versiondb in `app/app.go` | `Start` (not enabled when the code refuses to start) |
| `memiavlstore.Set`, `Delete` | `Write(cs)` |
| `flush`, `WorkingHash`, `ListenFinalizeBlock` | `WorkingHash`, `ListenFinalizeBlock` |
| `rootmulti.Commit`, in the two steps between which trees are replaced, and its panic | `Commit`, `UpdateTrees`, `CommitFails` |
| `PopStateCache`, `ListenCommit`, `PutAtVersion` | `ListenCommit` |
| the background rewrite, the prune goroutine | `RewriteRename`, `RewriteLink`, `PruneCurrent`, `PruneRemove` |
| the upgrade module stops the old binary | `UpgradePanic` |
| `Close`, a crash | `Close`, `Crash` |

### TokenMapping and the code

*State.* `external`, `auto` and `denomOf` are the three maps of the keeper's
store, `None` standing for no entry; `metadata` the source coins with metadata in
the bank; `nonce` that of the EVM module account, which determines the address of
its next deployment (`ModuleAddress`); `params` and `permissions` what authorises
changes. `genesis` is what `InitGenesis` has not read yet, and `exported` a record
of the exported store to compare with.

*Steps.* A transaction or proposal that returns an error is rolled back, so each
action is one successful execution. Contents of symbols and decimals are left out,
and coin movements are the subject of `TokenConversion`; the rollback of a deployment for a source
coin (its new contract has no tokens to release) is kept as a guard. The loops of
`InitGenesis` are one step per entry, in any order of the entries (the code's
order is one of them), because an entry can fail on account of an earlier one.
`Init` is the state after the default genesis, which has no mapping. A hand-written
genesis is not a start: one that names a contract twice is accepted
(`genesis_test.go:94-112`) and breaks `ReverseAgrees` at once.

| Code | Actions |
|---|---|
| `msgServer.UpdateTokenMapping`, `HasPermission` | `UpdateTokenMapping(a, d, c)` |
| `NewTokenMappingChangeProposalHandler` | `TokenMappingChange(d, c)`, also with an empty contract |
| `RegisterOrUpdateTokenMapping`, `SetExternalContractForDenom`, `DeleteExternalContractForDenom` | operators of the same name |
| `ConvertVouchersToEvmCoins`, `ConvertCoinFromNativeToCRC21`, `DeployModuleCRC21` | `ConvertVouchers(d)` |
| `UpdateParams`, `UpdatePermissions` | same names |
| `ExportGenesis`, `InitGenesis` | `ExportGenesis`, `InitGenesisExternal(d)`, `InitGenesisAuto(d)`, `InitGenesisDone` |

The IBC middleware converts only coins that have a contract already
(`canBeConverted`), so it does not change the maps.

### TokenConversion and the code

*State.* The users' coins, the coins in the account of each contract, the vouchers
of the gas token in the module account, minted gas tokens, minted and locked tokens
per contract, burned tokens, packets on their way and source coins on other chains. All users are
one holder, since no step moves anything between users. Transfers are of one
voucher; `Scale` stands for 10^10, and `TransferGas` rounds as the code does.

| Code | Actions |
|---|---|
| `MsgConvertVouchers`: `ConvertVouchersToEvmCoins`, `ConvertCoinFromNativeToCRC21` | `ConvertMapped(d)`, `ConvertDeploys(d)` |
| `IBCConversionModule.OnRecvPacket`, `convertVouchers`, `OnRecvVouchers` | `OnRecvPacket(d)` |
| `OnAcknowledgementPacket`, `OnTimeoutPacket` | `AckSuccess(d)`, `Refund(d)` |
| `SendToIbcHandler`, `SendToIbcV2Handler` | `SendToIbc(c)`, `SendSourceToIbc(c)` |
| `SendToAccountHandler` | `SendToAccount(c)` |
| `send_to_evm_chain`, `send_to_ethereum` of the module contracts, without a handler | `SendToEvmChain(c)` (burns), `LockForEvmChain(c)` (locks) |
| `MsgTransferTokens`: `IbcTransferCoins` | `TransferTokens(d)`, `TransferGas(g)` |
| everything of `TokenMapping` except its conversion | `MappingStep` |

A message that fails leaves nothing behind; the middleware runs the conversion in a
cached context and keeps the voucher when it fails. Calls of user contracts may fail
at any time and otherwise do what `ModuleCRC20` and `ModuleCRC21` do (`MayFail`). The
gas token and the deployed contracts are taken not to fail; their failure would keep
the voucher in the same way.

*Assumption.* `Fits`: whoever registers a contract registers one that was written for
that kind of coin (`isSource` for a source coin). The code cannot check this.

*Assumption.* `EarlyRegistration` says whether an address may be registered
before there is code at it. The code does not check this; the passing run and the
proofs about the maps assume it does not happen, the run `mapping_early` shows what
follows if it does, and the proofs about the books do without the assumption.

## 3. Runs

| Run | Instance | Shows |
|---|---|---|
| `memiavl_safety` | initial version 4, interval 2, one snapshot kept, synchronous and buffered WAL, targets latest and 5, failing WAL writes, one power loss | `TypeOK`, `StateAgrees`, `WalCoversSnapshots`, `CurrentNeverDangles`, `DurableOrInFlight`, `SwitchKeepsState`, `PruneKeepsRecent`, `ImplementsReplayedState` |
| `memiavl_live` | all channel sizes, loads of the latest version, one kill, failing rewrites, no I/O error of the WAL, fairness | `CleanClosePreserves`, `CommitReturns`, `CloseReturns` |
| `memiavl_rollback` | rollback to version 2 of up to 4, interval 1, two kills | `LatestAgrees`, `RollbackKeepsTarget`, `RollbackTruncates` |
| `memiavl_wal_failure` | unbuffered channel, one kill, no I/O error, fairness | **violated** `WalFailureAborts`: the WAL is behind the snapshot, its writer quits and Commit hangs |
| `memiavl_tmp_link` | one crash | **violated** `NoTmpFileConflict`: a left-over `current-tmp` blocks all later rewrites |
| `tree_cow` | five keys, two values, cache of size 0 and 1, versions up to 3 | `TypeOK`, `WellFormed`, `HashFresh`, `CacheAgrees`, `CopyProtected`, `ReadsAgree`, `ProofsVerify`, `SnapshotReadsBack`, `ExportImportsBack`, `CopyIsolated`, `ImplementsMap`, `WritesTakeEffect` |
| `node_stores` | two keys, six blocks, an upgrade at block 5, interval 2, one old snapshot kept, two crashes that lose any entries of the log | `TypeOK`, `StoresReadOneBlock`, `VersiondbExact`, `NeverLagsBehind`, `StartsAgain`, `NeverSpins` |
| `node_uncommitted_reads` | the same | **violated** `WritesVisibleAfterCommit`: reads between WorkingHash and Commit see the uncommitted block |
| `node_upgrade_start` | the same | **violated** `NewBinaryStarts`: a kill at the upgrade block leaves a binary that never starts |
| `mapping_safety` | two vouchers, two source coins (one malformed), two user contracts (one of a source coin), two deployments, two packets, one token locked or burned | `TypeOK`, `ReverseAgrees`, `AutoContractStays`, `ImportReproduces`, `TokensBacked`, `AutoTokensRedeemable`, `GasTokenBacked`, `SourceCoinsLocked` |
| `mapping_early` | an address registered before it has code | **violated** `ReversedMapForBoth`: the deployment overwrites a reverse entry |
| `mapping_export` | export and import | **violated** `ImportExportSameStore`: the import of a mapped source coin panics |

*Bounds of mapping and conversion.* Two deployments and two user contracts let a
denomination have an external and a deployed contract at once, let a contract move
from one denomination to another while tokens of it are out, and let the module's
contracts be named by a later message. Two packets let one voucher be converted
before and another after such a change; `MaxSends` bounds the tokens that are locked
or burned; with a scale of 2 and transfers of up to 3
gas tokens the rounding loses something. The two vouchers are interchangeable, which
the run uses as a symmetry. Gravity coins, which the maps treat like vouchers, are in
the runs `mapping_early` and `mapping_export` and covered by the proofs for all sets.
Deadlock is not checked since a panicking import stops the chain.

*Bounds of the tree.* Five keys are the fewest for which insertions and removals need
every rotation. The first block writes any keys in any order, so that every shape of
up to five leaves occurs; the two later ones write one key each with another value,
enough to write on top of a copy and of a reloaded snapshot. The largest version stands
for `math.MaxUint32`, where `SaveVersion` refuses: nothing more can be committed and
the model stops there (writes to the working tree at that version, whose nodes would
get the version 0, are not modelled), so deadlock is not checked. States that differ only in the addresses of their nodes are one state for
TLC (the view `UpToAddresses`, which numbers the nodes in post-order): no guard and no
property compares addresses except for equality, and `Fresh` gives an unused one, so
renaming them maps steps to steps.

*Bounds of the rollback.* Two versions above the target leave two snapshots and two
entries to remove; two kills hit a rollback and its repetition. Commits are
synchronous, without which `RollbackKeepsTarget` does not hold (below); the theorems
about the other two properties include asynchronous ones. The bound on versions stops
the system.

*Bounds of the stores.* Six blocks with interval 2 give a rewrite before and after
the upgrade; two crashes let a second one hit the replay after the first. One old
snapshot is kept, as `store/config/config.go` does by default, and this is the least
for which `StartsAgain` holds (below). A node that refuses to start is down for good, and the bound on blocks stops it: deadlock is not
checked.

*Bounds of the database.* With interval 2 and versions up to 7 (four blocks from the initial
version 4) there are two full cycles of rewrite, switch and prune, so a second
rewrite overlaps the pruning after the first; one crash can hit any step of them
and is followed by a replay of the lost blocks. The initial version above 1
exercises the index arithmetic. One block value besides `NoChange` is enough to
tell blocks at different heights apart from no block; the proofs cover every set
of values and every bound.

*Deadlock* is not checked in its runs: the bound on versions stops the system.

*Fairness.* `FairSpec` assumes weak fairness of each thread's internal steps:
the Go scheduler keeps running a goroutine that is not blocked, and a method that
was called keeps running. No fairness is assumed for the caller (it may stop
calling), for crashes or for I/O errors. What `CommitReturns` promises is limited in
two ways. It excepts a WAL writer that has failed: by an I/O error, which the run does
not have, or, as happens in the run, because a kill has left the WAL behind the
snapshot and the next entry is out of order; what Commit does then is the violation of
`memiavl_wal_failure`. And it is checked for loads of the latest version: after the
load of an older one Commit can wait for ever (below).

The violations are reported as findings in `PROJECT.json` with the line
of the code and the comment each contradicts.

*What the models showed besides.* These are limits of the properties above, met while
stating them:

* A killed rollback can leave a snapshot of the abandoned history above the end of the
  WAL. `LatestAgrees` therefore speaks of the latest version; an explicit load of, or
  a rollback to, the version of such a snapshot may still pick it up. A kill between
  `os.Symlink` and `os.Rename` leaves `current-tmp`, which then blocks rollbacks as it
  blocks rewrites.
* With asynchronous commits a crash can leave the current snapshot ahead of the end of
  the WAL. A rollback to a version between the two loads an older snapshot, replays
  what the WAL has, which is less than the target, moves the link down to it and only
  then fails, because the WAL has no entry to be cut at. The next start finds the
  version the WAL reaches, and not the one of the snapshot above. `RollbackKeepsTarget`
  and its theorem are about synchronous commits.
* With the default asynchronous commits the rewrite goroutine publishes a snapshot
  before the entry of its version is in the WAL. After a kill the reloaded tree is ahead
  of the WAL, against the comment at `memiavl/db.go:64` ("the LastIndex always match the
  current version of MultiTree"); the run `memiavl_wal_failure` goes through this state.
* After the load of an old version without overwriting, the WAL is ahead of the tree.
  The loop at `memiavl/db.go:456-457` waits for a WAL that ends exactly at the version
  being committed and never ends. It does not end after the writer has failed either.
* A crash after the commit of the upgrade block and before versiondb has written it
  leaves a new binary that loads the version before, where it asks for a store that is
  not there yet ("new store is not added in upgrades"); so does a loss of WAL entries
  across the upgrade. A snapshot of the upgrade height ahead of a log that ends before
  it makes `ApplyUpgrades` fail ("memiavl tree name conflicts") before versiondb is
  compared. `StartsAgain` says nothing of the new binary between the two states that it
  names; the run `node_upgrade_start` shows the failure.
* `StartsAgain` needs `SnapshotKeepRecent` to be at least 1. With 0, and interval 2, the
  commit of block 4 switches to the snapshot of block 2, launches the pruner and starts
  the next rewrite; if that moves the link to 4 before the pruner reads it, the
  snapshots 0 and 2 go, and a crash before versiondb has block 4 leaves nothing to load
  version 3 from ("target version is pruned").
* While versiondb's latest version is 0 the load is not capped. A crash in the first
  block can then make versiondb start at block 2, so `VersiondbExact` is stated from
  the first version it holds. `versiondb/README.md:24` says that a mismatch of versions
  makes the start fail; the code caps the load (`CHANGELOG.md:457`).
* The wait for a WAL that is ahead does not occur when versiondb is behind by the window
  of a crash only (`NeverSpins`): no rewritten snapshot is at hand before the end of
  the log is reached again.
* After a switch the tree is loaded with cache size 0 (`memiavl/db.go:775`), whatever
  `CacheSize` was configured.
* A mapping to an address without code (an empty contract in a proposal for a source
  coin gives the zero address) makes the contract call succeed without effect: the
  coin is gone and no token exists. `TokensBacked` excepts the zero address and
  `SourceCoinsLocked` is an inequality.
* `send_to_evm_chain` and `send_to_ethereum` of the module contracts, which any holder
  may call, burn tokens and write logs for which the application registers no handler
  (`app/app.go:715-720`). The coin stays in the contract's account and nobody can redeem
  it, so that the account may hold more coins than there are tokens: `TokensBacked`
  counts the burned tokens, `AutoTokensRedeemable` asks for enough coins.
* `GasTokenBacked` is about the sum over all denominations. It does not notice that a
  change of `IbcCroDenom` strands the vouchers of the old denomination: the gas tokens
  minted for them can then only be exchanged against vouchers of the new one.

## 4. Proofs

`MemiavlDBProofs` proves, for every value of the constants allowed by
`ConstantsAssumption`:

* `Invariance`: `Spec => []IInv`;
* `TypeCorrect`, `Agreement`, `Coverage`, `LinkNeverDangles`: the invariants
  `TypeOK`, `StateAgrees`, `WalCoversSnapshots`, `CurrentNeverDangles`;
* `SwitchPreserves`: the action property `SwitchKeepsState`.

The safety properties are not inductive alone. `IInv` adds

* `QueueAgrees`: an entry in the channel, in the writer's batch or in the hand of
  the caller carries the block of its index (otherwise the WAL could be written
  with something else);
* `RewriteInv`: the tree being written can still be replayed to the end of the
  WAL, its directory exists when it is linked, and the tree loaded back is not
  older than what `current` names (otherwise the switch could go back, and the
  prune after it remove too much);
* `PruneInv`: between reading the link and truncating the WAL the link does not
  move back and no older snapshot appears (the stale values the goroutine holds
  are still safe bounds);
* `SwitchInv`: the tree to switch to is ahead of the tree in use only by entries
  that the WAL holds, and starts from a snapshot that is not older (so that equal
  versions mean equal trees).

There is one lemma per action, and lemmas about versions, sections of the log and
`CatchupWAL`. `IInv` was model-checked on the instance of `memiavl_safety`.

The lemmas are about `CoreInv`, which asks only of the snapshot that the link names,
and of the one it is about to name, that it holds decided blocks (`CoreAgrees`);
`NextCore` combines them. `SnapsKeepAgreeing` adds the other snapshots, and `IInv` is
the two together (`IInvCore`). The rollback needs the core alone.

`MemiavlDurability` goes on from `IInv`, for every value of the constants:

* `DurabilityInvariance`, `NothingCommittedIsLost`: `DurableOrInFlight`. It is not
  inductive, because the entry of a committed block passes through the channel and the
  batch of a goroutine that may have ended. `WriterInv` says who holds what when (a
  writer that ended without an error has drained the channel, no error is pending while
  blocks are accepted), and `DurableInv` states the property for every state without an
  error, a closed database included. The argument is about one step: `StepCarries`
  shows that what was in the log, in the channel, in the batch or in the caller's hand
  is still in one of them, and `LongerSnapshot` that a snapshot is only removed
  while a longer one stays.
* `CleanClose`: `CleanClosePreserves`, from the hypothesis `LoadTargets = {0}`: the
  database is always opened at its latest version, as in the run `memiavl_live`.
  `LatestInv` says that then the link only moves forward, so that what is
  in some snapshot is in the one the next Load starts from. The hypothesis is needed: a
  Load with a target version may start from a snapshot that is newer than the link and
  than the end of the log.
* `RecentSnapshotsStay`: the action property `PruneKeepsRecent`. The goroutine works
  on a list it made earlier while the rewrite goroutine adds snapshots and moves the
  link. `KeepInv` says that below the cutoff enough snapshots are not on the list, for
  every snapshot still on it; they exist when the list is made, since everything above
  the newest victim was counted and skipped, and nobody else removes snapshots.

`WriterInv`, `DurableInv` and `KeepInv` were model-checked on the instance of
`memiavl_safety`, `LatestInv` there with latest versions only.

`MemiavlRollbackProofs` proves, for every number of versions and crashes, every channel
size and both kinds of commits, from the hypothesis `OneTarget`: a Load without rollback
opens the latest version, and rollbacks are to one version, as often as it takes;

* `RollbackInvariance`: `RSpec => []RollbackInv`;
* `RollbackAgreement`: `LatestAgrees`;
* `RollbackReaches`: the action property `RollbackTruncates`;
* `RollbackLosesNothing`: the action property `RollbackKeepsTarget`, with the further
  hypothesis `SyncWal` (synchronous commits, no loss of written WAL entries).

A killed rollback leaves snapshots of the abandoned history, so that `IInv` does not hold
any more. `RollbackInv` is `CoreInv`, that the snapshots up to the target agree with the
chain (`KeptAgree`), that nothing is left in memory while no process runs (`DownInv`:
the chain can be cut under it), and what each step of the rollback relies on
(`PhaseInv`): the tree was loaded from a snapshot up to the target and has reached the
target if the WAL has. `OneTarget` is needed for `KeptAgree`: a snapshot of the abandoned
history can be above the one target and below another. `LoggedInv` says that, under
`SyncWal`, no snapshot that may be linked is ahead of the WAL. `RollbackInv` and
`LoggedInv` were model-checked on the instance of `memiavl_rollback`, the former with an
initial version above 1, asynchronous commits and lost WAL entries too.

`TokenMappingProofs` proves, from `MappingAssumption`, for all sets of denominations,
contracts and accounts, `MappingTypeCorrect` (`TypeOK`), and with `~EarlyRegistration`:

* `MappingInvariance`: `Spec => []MappingInv`;
* `MapsAgree`: `ReverseAgrees`;
* `AutoStays`, `ImportCorrect`: the action properties `AutoContractStays` and
  `ImportReproduces`.

`MappingInv` adds to `ReverseAgrees` that the address of a deployment to come is in
no map (`FutureUnmapped`, which is where `~EarlyRegistration` is needed: the module
does not check the reverse map when it deploys), that no denomination has one
contract as both its external and its deployed one (`AutoNotExternal`: deleting the
external mapping would take the other's reverse entry along), that source coins get
no contract from the module or a genesis (`AutoNotSource`), and that what has been
imported and what is left make up the export, whose maps agree (`ImportInv`).
`MappingInv` was model-checked on the instance of `mapping_safety`.

`MemiavlDurability` also proves, from `IInv` and for every value of the constants,

* `Refinement`: `Spec => ImplementsReplayedState`. An initial state maps to an initial
  state; `Load` maps to `Open`, because a replay from a snapshot that agrees with the
  chain gives a prefix of it; a commit maps to `Commit`, because the tree is a prefix
  and its next entry is recorded or decided; crash and exit map to `Stop`; a switch is
  a stutter by the argument of `SwitchPreserves`.

`TokenConversionProofs` proves, from `ConversionAssumption`,

* `ConversionImplementsMapping`: `CSpec => Spec`, so that the theorems about the
  mapping hold of the conversion: a step of the conversion changes the maps by
  deploying a contract or not at all;
* `TokensRedeemable`: with `~EarlyRegistration`, `CSpec => []AutoTokensRedeemable`.
  `ConversionInv` strengthens it: the coins in the account of the contract deployed
  for a coin are its tokens and those that holders burned, also while a genesis is
  imported (`DeployedBacked`), and an address without a deployment holds nothing
  (`FutureEmpty`, without which a new contract could start with tokens out).

* `BooksInvariance`, and from it `ConversionBacked`, `GasBacked`, `SourceBacked`:
  `TokensBacked`, `GasTokenBacked`, `SourceCoinsLocked`, without an assumption on
  registrations: also an address registered too early is credited and debited on both
  sides, and a burned token leaves its coin behind. `BooksInv` adds that source coins are never put into a contract's account.
  The properties speak of sums over all denominations or contracts; the assumption
  includes that both are finite (denominations are a prefix with a hash or an address,
  addresses have 20 bytes).

A sum is defined by a recursive function over subsets. `SetLemmas` proves what is
needed of it (`SumOverInt`, `SumOverTake`, `SumOverMove`, `SumOverZero`) from the
existence of minimal elements: a subset for which a claim fails and none of whose
proper subsets fails it. That replaces the library's induction rules, which
take the property as an operator and which no prover here can instantiate.

`NodeStoresProofs` proves, from `StoresAssumption`, for every set of keys and values,
interval, number of kept snapshots (at least 1), upgrade height (not 1: an earlier block
schedules it), number of blocks and of crashes, which may lose any entries of the log:

* `StoresInvariance`: `Spec => []StoresInv`;
* `StoresTypeCorrect`, `OneBlockRead`, `VersiondbCorrect`, `VersiondbNeverLags`,
  `NodeStarts` (`StartsAgain`), `CommitNeverSpins`: all the invariants of the run `node_stores`.

`StoresInv` follows one block through the node: `LogInv` (the log is a prefix of the
decided blocks), `BlockInv` (in each phase, whether its writes are in the buffers, in
the pending log, in the log or with the listeners), `TreeInv` (what the working trees
hold), `DistanceInv` (at most one block is in the log and not in versiondb; a loss of
the log can put versiondb ahead by any number), `StampsInv` (versiondb holds the block
of each of its stamps, without a gap), `SnapshotsInv` and `UpgradeInv` (the new binary
executes no block before the upgrade). Snapshots are bounded by the decided blocks and
not by the log. `SnapshotsInv` says that some snapshot is not newer than versiondb's
version, which is what a capped load looks for, and, while the process runs, that one
such snapshot is not on the list of the pruner. For this it relates the pruner to the
rewrite: the link that the pruner reads is at most the version in memory, which is at
most one block ahead of versiondb, so that the newest snapshot below the link, which is
kept, is in versiondb's reach. `StoresInv` was model-checked on the run's instance.

`CowTreeProofs` proves, from `TreeAssumption` (keys are numbers, no value is `NoValue`),
for all keys, values, cache sizes, numbers of versions and operations, and so for trees
of any size:

* `TreeInvariant`: `Spec => []TreeInv`;
* `TypeCorrect`, `AlwaysWellFormed`, `HashesFresh`, `CacheCorrect`,
  `CopyAlwaysProtected`: the invariants `TypeOK`, `WellFormed`, `HashFresh`,
  `CacheAgrees`, `CopyProtected`;
* `CopyNeverWritten`, `NoWriteLost`: the action properties `CopyIsolated` and
  `WritesTakeEffect`;
* `TreeImplementsMap`: `Spec => ImplementsMap`, with one lemma per action that names the
  step of `VersionedMap` it is;
* `GetIsExact`: the lookup returns the value of a key that is there and nothing for
  another, with the number of smaller keys as its index.

The argument has three layers.

*Trees in a heap.* In the middle of an operation the heap holds nodes whose fields do
not fit together, and old nodes that the copy still uses. `Under(h, n)` is the least set
of addresses that holds `n` and the children of its members, so that every closed set
bounds it and no induction is needed; `WF(h, n)` says that every node under `n` is right
(`NodeOK`: types, order, balance, measured height and size, disjoint children, a fresh
hash, and persisted children of a persisted node). `UnderFrame` and `NodeFrame` say that
a tree none of whose nodes was written is the same tree in the new heap, and `Join` that
a branch over two trees that fit is a tree.

*One operation.* `Built(h, g, p, S, E, ver, cow)` is what each step of a write
establishes: the heap `g` has at `p` a tree with the entries `E`; it has changed no node
outside the old tree `S` and no protected one; what it changed carries the new version;
and it uses of the old nodes only those of `S`. It is shown for `Mutate`, for both
rotations, for both double rotations, for `reBalance` at every imbalance of at most two,
and for a leaf and a branch of `setRecursive` and `removeRecursive`, with what the caller
relies on: the height grows or shrinks by at most one, `updated` means that height and
size did not change, and the key returned by a removal is the new smallest key of the
subtree. `SetAtOK`, `RemoveAtOK`, `GetAtOK` and `SizeIsKeys` then go over the heights:
the claim for all nodes of height below `d` gives it for height `d`, and the set of such
`d` is all of the numbers because it has no least number missing (`SetOfNaturals`). A
recursive function is first shown to satisfy its equation, from a function that does.

*The specification.* `TreeInv` says that every node in the heap is well-formed and no
younger than the block being applied (`HeapInv`), the order of the three versions
(`VersionInv`), `CopyProtected`, and that the cache is no larger than its size and agrees
with the tree (`CacheInv`). `CopyIsolated` is not provable without `CopyProtected`: a node of
the copy stays because `Mutate` clones what is persisted or of a version up to
`cowVersion`, because nodes that are not persisted cannot be below a persisted root
(`DiskBelow`, where `Copy` does not raise `cowVersion`), and because every node of the
copy already has its hash, so that hashing the working tree, which shares it, writes
nothing there.

`CopyProtected` is checked by the run `tree_cow`, and the other parts of `TreeInv` are
what the run's invariants say.

Only model-checked: what the other readers of the tree return (`ReadsAgree` beyond the
lookup of a key, `ProofsVerify`) and the snapshot and export formats
(`SnapshotReadsBack`, `ExportImportsBack`), whose definitions are recursive operators on
sequences; and the liveness properties, since liveness under fairness and `ENABLED` are
outside what the prover handles.

## 5. Plan

Done: `MemiavlDB` with `ReplayedState` and its refinement, `MemiavlRollback`, the
tree and its snapshots, `NodeStores`, `TokenMapping`, `TokenConversion`.

Left, in this order:

1. `WalTail`: cutting the corrupt tail of a WAL segment (`memiavl/wal.go`), as a pure
   algorithm on the bytes of entries.
2. The named trees of a `MultiTree`: `ApplyUpgrades` and its place in the WAL, the
   commit info.
3. versiondb iterators at a version, and `FixData`; `extsort` against sorting.
4. Loads that read beside a writer (queries and state sync of `rootmulti`).
5. Precompiles inside EVM journaling; the encrypted block list.

## 6. Not modelled

Generated code (protobuf, abigen), command line, RPC and queries, byte layouts and
mmap, the encoding of hashed nodes and ICS-23 proofs (which path of hashes a proof
holds is modelled), file locks (one writing process is assumed), the worker goroutines
of exporter and importer, versiondb's change set files and offline tools, the external
sort, precompiles, `x/e2ee`, simulation and integration tests, the bundled browser
code of the API documentation and the configuration of the contract tests. Of the
database: read-only loads beside a writer, `SetInitialVersion`, the names in
`ApplyUpgrades`, `Reload`, the repair of a corrupt WAL tail, the merge of a second
`ApplyChangeSets` before `Commit`, and rewrites started from outside `Commit`. Of the
tree: writes after the last version that can be saved. Of `rootmulti`: queries at a past version, state sync snapshots, the
amended commit info of older versions. Of `x/cronos`: `ConvertCoinFromCRC21ToNative`,
which only tests call, and `TurnBridge`, which does nothing.
