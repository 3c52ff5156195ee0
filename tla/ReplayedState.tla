--------------------------- MODULE ReplayedState ---------------------------
(***************************************************************************)
(* What the memiavl database promises to the state machine above it: while *)
(* it is open its state is a prefix of the decided blocks, which grows by  *)
(* one block with each commit and changes in no other way; after a stop it *)
(* may open at an earlier block, and the blocks decided before are then    *)
(* committed again, unchanged.                                             *)
(***************************************************************************)
EXTENDS Integers, Sequences

CONSTANT Data       \* what a block may change

VARIABLES
    open,           \* whether the database is open
    state,          \* the blocks its state consists of
    chain           \* the blocks decided so far

vars == <<open, state, chain>>

Init == open = FALSE /\ state = <<>> /\ chain = <<>>

IsPrefixOfChain(s) == Len(s) =< Len(chain) /\ \A i \in 1 .. Len(s) : s[i] = chain[i]

Open ==
    /\ ~open /\ open'
    /\ state' \in Seq(Data) /\ IsPrefixOfChain(state')
    /\ UNCHANGED chain

Commit(b) ==
    /\ open
    /\ state' = Append(state, b)
    /\ IF Len(state) < Len(chain)
         THEN b = chain[Len(state) + 1] /\ UNCHANGED chain
         ELSE chain' = Append(chain, b)
    /\ UNCHANGED open

Stop ==
    /\ open /\ ~open'
    /\ state' = <<>>
    /\ UNCHANGED chain

Next == Open \/ (\E b \in Data : Commit(b)) \/ Stop

Spec == Init /\ [][Next]_vars

=============================================================================
