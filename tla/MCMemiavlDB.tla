---------------------------- MODULE MCMemiavlDB ----------------------------
(***************************************************************************)
(* MemiavlDB for TLC: what the comments of memiavl/db.go say about the     *)
(* database, to be compared with what the code does.                       *)
(***************************************************************************)
EXTENDS MemiavlDB

\* The sizes of the asynchronous commit queue: -1 commits synchronously, 0 is
\* the default, an unbuffered channel.
SyncOnly     == {-1}
SyncAndQueue == {-1, 1}
AllSizes     == {-1, 0, 1}

\* updateCurrentSymlink "could fail under concurrent usage for tmp file
\* conflicts": with one rewrite goroutine at a time, no conflict is met.
NoTmpFileConflict == rewriter = "symlink" => ~curTmp

\* checkAsyncCommit: "async wal writing failed, we need to abort the state
\* machine".  A Commit that is under way when the writer has failed ends by
\* returning the error.  No I/O error is needed: when a crash has left the log
\* behind the snapshot ("the LastIndex always match the current version of
\* MultiTree" does not hold), the entry of the next commit is out of order.
WalFailureAborts ==
    writer = "quit" /\ main = "send" ~> main \in {"failed", "down"}

=============================================================================
