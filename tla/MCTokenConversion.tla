------------------------- MODULE MCTokenConversion -------------------------
(***************************************************************************)
(* TokenConversion for TLC.                                                *)
(***************************************************************************)
EXTENDS TokenConversion, TLC

CONSTANTS a0, a1, a2

\* The addresses of the module's deployments.
ModuleAddresses == 0 :> a0 @@ 1 :> a1 @@ 2 :> a2

\* The two vouchers are interchangeable.
Vouchers == Permutations(IbcDenom)
=============================================================================
