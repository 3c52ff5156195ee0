---------------------------- MODULE MCNodeStores ----------------------------
(***************************************************************************)
(* NodeStores for TLC: two keys, one of which a block deletes while it     *)
(* writes the other, and what the comments of the code say of the stores.  *)
(***************************************************************************)
EXTENDS NodeStores, TLC

CONSTANTS k1, k2, v1

Blocks == {k1 :> v1, (k1 :> Deleted) @@ (k2 :> v1)}

\* "we assume Set is only called in `Commit`, so the written state is only
\* visible after commit" (memiavlstore.Store): what a read through the stores
\* sees is the last committed block until Commit has returned.
WritesVisibleAfterCommit ==
    phase \notin {"down", "committed"} => tree = After(chain, last)

\* RegisterUpgradeHandlers: "This version supports a safe jump".  The new binary
\* starts after any crash, as long as the log still reaches the block before the
\* upgrade.
NewBinaryStarts ==
    phase = "down" /\ upgraded /\ LastCommitVersion >= UpgradeHeight - 1 => CanStart

=============================================================================
