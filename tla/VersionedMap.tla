---------------------------- MODULE VersionedMap ----------------------------
(***************************************************************************)
(* What a memiavl Tree promises to its users: a map from keys to values    *)
(* with a version number, and at most one frozen copy of an earlier        *)
(* version that later writes do not touch.  A map is the set of its        *)
(* entries <<key, value>>.                                                 *)
(***************************************************************************)
EXTENDS Integers

CONSTANTS Key, Value

VARIABLES
    entries,        \* the working map
    version,        \* the last saved version
    frozen,         \* the copied map, or the empty map without a copy
    frozenVersion   \* the version of the copy, NoCopy without one

vars == <<entries, version, frozen, frozenVersion>>

NoCopy == -1

Without(map, k) == {e \in map : e[1] # k}

Init ==
    /\ entries = {} /\ version = 0
    /\ frozen = {} /\ frozenVersion = NoCopy

Write(k, v) ==
    /\ entries' = Without(entries, k) \cup {<<k, v>>}
    /\ UNCHANGED <<version, frozen, frozenVersion>>

Delete(k) ==
    /\ entries' = Without(entries, k)
    /\ UNCHANGED <<version, frozen, frozenVersion>>

Save ==
    /\ version' = version + 1
    /\ UNCHANGED <<entries, frozen, frozenVersion>>

\* A version is saved and a copy of it is taken.
SaveAndFreeze ==
    /\ frozenVersion = NoCopy
    /\ version' = version + 1
    /\ frozen' = entries /\ frozenVersion' = version + 1
    /\ UNCHANGED entries

Thaw ==
    /\ frozen' = {} /\ frozenVersion' = NoCopy
    /\ UNCHANGED <<entries, version>>

\* The working map becomes the copy again.
Restore ==
    /\ frozenVersion # NoCopy
    /\ entries' = frozen /\ version' = frozenVersion
    /\ frozen' = {} /\ frozenVersion' = NoCopy

Next ==
    \/ \E k \in Key, v \in Value : Write(k, v)
    \/ \E k \in Key : Delete(k)
    \/ Save \/ SaveAndFreeze \/ Thaw \/ Restore

Spec == Init /\ [][Next]_vars

=============================================================================
