-------------------------- MODULE MemiavlRollback --------------------------
(***************************************************************************)
(* Rollback of a memiavl database: Load with LoadForOverwriting (the       *)
(* command line calls it through rootmulti's RollbackToVersion), added to  *)
(* the life cycle of MemiavlDB.  The rollback moves the current link down, *)
(* cuts the WAL and removes the newer snapshots, in this order, and may be *)
(* killed between any two of these steps.                                  *)
(*                                                                         *)
(* Consensus abandons the blocks above the target when the WAL is cut:     *)
(* until then the node may as well be restarted without the rollback, and  *)
(* from then on other blocks may be decided at the same heights.           *)
(***************************************************************************)
EXTENDS MemiavlDB

CONSTANT RollbackTargets    \* the values of Options.TargetVersion to roll back to

ASSUME RollbackAssumption == RollbackTargets \subseteq Nat \ {0}

VARIABLES
    rollback,   \* where the rollback is, "off" when there is none
    target      \* Options.TargetVersion of the rollback

rollbackVars == <<rollback, target>>
allVars      == <<vars, rollbackVars>>

NoTarget == 0

RInit == Init /\ rollback = "off" /\ target = NoTarget

\* The rollback ends with an error or is killed.
Abandon == ProcessGone /\ rollback' = "off" /\ target' = NoTarget

-----------------------------------------------------------------------------
\* Load up to the test of LoadForOverwriting, for a height of the chain.
RollbackLoad(t) ==
    /\ main = "down" /\ rollback = "off"
    /\ walIndex(t) =< Len(chain)
    /\ \E v \in DOMAIN snaps :
          /\ SeekSnapshot(t, v)
          /\ base' = v
          /\ IF t > v THEN CanCatchup(snaps[v], t) /\ tree' = Catchup(snaps[v], t)
                      ELSE tree' = snaps[v]
    /\ tmps' = {}
    /\ rollback' = "symlink" /\ target' = t
    /\ UNCHANGED <<snaps, current, curTmp, walVars, main, pending, err, walChanSize,
                   writerVars, rewriterVars, prunerVars, envVars>>

\* updateCurrentSymlink to the snapshot that was loaded, unless the link is
\* there already: current-tmp is created, which fails when it exists.
RollbackSymlink ==
    /\ rollback = "symlink"
    /\ IF base = current THEN rollback' = "truncate" /\ UNCHANGED <<vars, target>>
       ELSE IF curTmp THEN Abandon /\ UNCHANGED <<linkVars, walVars, envVars>>
       ELSE /\ curTmp' = TRUE /\ rollback' = "link"
            /\ UNCHANGED <<snaps, current, tmps, walVars, mainVars, writerVars,
                           rewriterVars, prunerVars, envVars, target>>

RollbackLink ==
    /\ rollback = "link"
    /\ curTmp' = FALSE /\ current' = base
    /\ rollback' = "truncate"
    /\ UNCHANGED <<snaps, tmps, walVars, mainVars, writerVars, rewriterVars,
                   prunerVars, envVars, target>>

\* wal.TruncateBack to entry i; an index outside the log is an error.
TruncateBack(i) ==
    /\ rollback = "truncate"
    /\ IF Readable(i)
         THEN /\ walLog' = SubSeq(walLog, 1, i - walFirst + 1)
              /\ chain' = SubSeq(chain, 1, walIndex(target))
              /\ rollback' = "remove"
              /\ UNCHANGED <<walFirst, linkVars, mainVars, writerVars, rewriterVars,
                             prunerVars, crashes, target>>
         ELSE Abandon /\ UNCHANGED <<linkVars, walVars, envVars>>

\* Variants: one entry too many is kept, or cut.
RollbackTruncateLate  == TruncateBack(walIndex(target) + 1)
RollbackTruncateShort == TruncateBack(walIndex(target) - 1)

RollbackTruncate == TruncateBack(walIndex(target))

Newer == {v \in DOMAIN snaps : v > target}

\* atomicRemoveDir of the newest snapshot above the target.
RollbackRemove ==
    /\ rollback = "remove"
    /\ \E v \in Newer :
          /\ \A w \in Newer : w =< v
          /\ snaps' = [w \in DOMAIN snaps \ {v} |-> snaps[w]]
    /\ UNCHANGED <<current, curTmp, tmps, walVars, mainVars, writerVars, rewriterVars,
                   prunerVars, envVars, rollbackVars>>

\* Variant: Load returns while newer snapshots are left.
RollbackDoneEarly ==
    /\ rollback = "remove"
    /\ main' = "idle" /\ walChanSize' \in WalChanSizes
    /\ rollback' = "off" /\ target' = NoTarget
    /\ UNCHANGED <<linkVars, walVars, tree, base, pending, err, writerVars,
                   rewriterVars, prunerVars, envVars>>

\* Load returns the database.
RollbackDone ==
    /\ rollback = "remove" /\ Newer = {}
    /\ main' = "idle" /\ walChanSize' \in WalChanSizes
    /\ rollback' = "off" /\ target' = NoTarget
    /\ UNCHANGED <<linkVars, walVars, tree, base, pending, err, writerVars,
                   rewriterVars, prunerVars, envVars>>

RollbackCrash ==
    /\ rollback # "off" /\ crashes < MaxCrashes
    /\ crashes' = crashes + 1
    /\ Abandon
    /\ UNCHANGED <<linkVars, walVars, chain>>

RollbackStep ==
    \/ \E t \in RollbackTargets : RollbackLoad(t)
    \/ RollbackSymlink \/ RollbackLink \/ RollbackTruncate
    \/ RollbackRemove \/ RollbackDone \/ RollbackCrash

RNext ==
    \/ rollback = "off" /\ Next /\ UNCHANGED rollbackVars
    \/ RollbackStep

RSpec == RInit /\ [][RNext]_allVars

-----------------------------------------------------------------------------
(***************************************************************************)
(* Properties.                                                             *)
(***************************************************************************)
\* Wherever a rollback was killed, and whatever other blocks were committed
\* afterwards, the database as the next Load finds it holds blocks of the new
\* history only: a snapshot of the abandoned history that was left behind never
\* becomes the current one, and the WAL is cut before it is written again.
LatestAgrees ==
    /\ current \in DOMAIN snaps
    /\ CanCatchup(snaps[current], 0)
    /\ Agrees(Recovered)
    /\ rollback = "off" => Agrees(tree)

\* A rollback that is killed or fails half way has lost no block up to the
\* target: moving the link and cutting the WAL in this order is safe.  It relies
\* on a WAL that holds what the snapshots hold, as with synchronous commits.
RollbackKeepsTarget ==
    [][rollback # "off" /\ walIndex(target) =< Len(Recovered) =>
          walIndex(target) =< Len(Recovered)']_allVars

\* LoadForOverwriting: when it returns, the target is the latest version and
\* nothing above it is left, also when it repeats a rollback that was killed.
RollbackTruncates ==
    [][rollback = "remove" /\ main' = "idle" =>
          /\ Version(tree') = target
          /\ Recovered' = tree' /\ LastIndex' = walIndex(target)
          /\ \A v \in DOMAIN snaps' : v =< target]_allVars

-----------------------------------------------------------------------------
(***************************************************************************)
(* The strengthening that makes them inductive, for rollbacks to one       *)
(* version, repeated as often as it takes, and starts at the latest one.   *)
(***************************************************************************)
\* Nothing of the last process is left in memory.
DownInv == main = "down" => walChan = <<>> /\ batch = <<>> /\ mtree = <<>>

\* Whatever a killed rollback has left above its target, the snapshots up to the
\* target hold blocks of the new history.
KeptAgree ==
    \A t \in RollbackTargets : \A v \in DOMAIN snaps : v =< t => Agrees(snaps[v])

\* What the steps of a rollback may rely on: the tree was loaded from a snapshot
\* up to the target and has reached the target if the WAL has; the link is there
\* when the WAL is cut, and the WAL ends at the target afterwards.
PhaseInv ==
    /\ rollback \in {"off", "symlink", "link", "truncate", "remove"}
    /\ rollback # "off" =>
          /\ main = "down" /\ target \in RollbackTargets
          /\ walIndex(target) =< Len(chain)
          /\ base \in DOMAIN snaps /\ base =< target
          /\ Len(snaps[base]) =< Len(tree)
          /\ Readable(walIndex(target)) => Len(tree) = walIndex(target)
    /\ rollback \in {"truncate", "remove"} => current = base
    /\ rollback = "remove" => Readable(walIndex(target)) /\ LastIndex = walIndex(target)

RollbackInv == CoreInv /\ DownInv /\ KeptAgree /\ PhaseInv

\* With synchronous commits and a WAL that loses nothing, the snapshots that may be
\* loaded hold nothing that the WAL does not.
LoggedInv ==
    /\ writer = "off"
    /\ main # "down" => walChanSize < 0
    /\ Len(snaps[current]) =< LastIndex
    /\ \A t \in RollbackTargets : \A v \in DOMAIN snaps :
          v =< t => Len(snaps[v]) =< LastIndex
    /\ main \notin {"down", "failed"} => Len(tree) =< LastIndex
    /\ rewriter \in {"write", "rename", "symlink", "link"} => Len(mtree) =< LastIndex

=============================================================================
