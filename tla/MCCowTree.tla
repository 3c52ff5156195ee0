----------------------------- MODULE MCCowTree -----------------------------
(***************************************************************************)
(* CowTree with five keys, which every rotation of an insertion and of a   *)
(* removal needs.  The first block writes any of them; the later blocks    *)
(* write fewer keys, and another value.                                    *)
(***************************************************************************)
EXTENDS CowTreeReads

CONSTANTS MaxKey, v1, v2

MCKey == 1 .. MaxKey

MCKeysAt(v) ==
    CASE v = 0 -> MCKey
      [] v = 1 -> {MaxKey - 1}
      [] OTHER -> {1}

MCValuesAt(v) == IF v = 0 THEN {v1} ELSE {v2}

\* The state up to the addresses of the nodes: nothing in the specification or
\* the properties depends on them.  The nodes are numbered in post-order, those
\* of the working tree first.
UpToAddresses ==
    LET ofRoot == ScanPostOrder(heap, root)
        shared == {ofRoot[i] : i \in DOMAIN ofRoot}
        live   == ofRoot \o SelectSeq(ScanPostOrder(heap, copyRoot), LAMBDA n : n \notin shared)
        Number(n) == IF n = Nil THEN Nil ELSE CHOOSE i \in DOMAIN live : live[i] = n
    IN <<[i \in DOMAIN live |->
            [heap[live[i]] EXCEPT !.left = Number(@), !.right = Number(@)]],
         Number(root), version, cowVersion, cacheSize, cache, Number(copyRoot), copyVersion>>

=============================================================================
