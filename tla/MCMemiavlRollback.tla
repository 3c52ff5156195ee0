------------------------- MODULE MCMemiavlRollback -------------------------
(***************************************************************************)
(* MemiavlRollback for TLC.  Two block contents, so that other blocks can  *)
(* be decided after a rollback; commits are synchronous, without which     *)
(* RollbackKeepsTarget does not hold.                                      *)
(***************************************************************************)
EXTENDS MemiavlRollback

SyncOnly == {-1}

=============================================================================
