--------------------------- MODULE MCTokenMapping ---------------------------
(***************************************************************************)
(* TokenMapping for TLC, with what the documents and the simulation test   *)
(* say about the mapping and its export.                                   *)
(***************************************************************************)
EXTENDS TokenMapping, TLC

CONSTANTS a0, a1, a2

\* The addresses of the module's deployments.
ModuleAddresses == 0 :> a0 @@ 1 :> a1 @@ 2 :> a2

\* "ContractToDenom stores the reversed map for both external and auto-deployed
\* contracts" (x/cronos/spec/02_state.md).
ReversedMapForBoth ==
    \A d \in Denom : /\ external[d] # None => denomOf[external[d]] = d
                     /\ auto[d] # None => denomOf[auto[d]] = d

\* The simulation test requires that InitGenesis of an exported state succeeds and
\* that the stores of the module then have no different key (app/sim_test.go).
ImportExportSameStore ==
    [][phase = "importing" /\ phase' # "importing" =>
          phase' = "running" /\ Store' = exported]_vars
=============================================================================
