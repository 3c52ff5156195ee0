---------------------------- MODULE TokenMapping ----------------------------
(***************************************************************************)
(* The token mapping of x/cronos: which contract stands for a native       *)
(* denomination.  The keeper stores three maps (keeper/keeper.go): from a  *)
(* denomination to its external contract, registered by message or by      *)
(* governance; from a denomination to the contract the module deployed for *)
(* it; and one reverse map shared by both.  The module also models who may *)
(* change them (permissions.go, params.go) and the export of the state and *)
(* its import into a new chain (genesis.go).                               *)
(*                                                                         *)
(* A transaction or a proposal that returns an error is rolled back by the *)
(* application, so an action is enabled exactly when the handler succeeds. *)
(***************************************************************************)
EXTENDS Integers

CONSTANTS
    IbcDenom,       \* vouchers, "ibc/..."
    GravityDenom,   \* "gravity0x..."
    SourceDenom,    \* "cronos0x...": coins that originate from a contract
    NotHex,         \* the SourceDenom whose suffix is not a hex address
    UserContract,   \* contracts deployed by users
    ZeroAddress,    \* common.HexToAddress("")
    ModuleAddress,  \* ModuleAddress[n]: what the module's nth deployment creates
    Account,        \* accounts that may sign a message
    None,           \* no entry, or the empty string
    EarlyRegistration, \* whether an address may be registered before it has code
    MaxNonce        \* bound on the deployments

\* The nonces of the module account, and the address of each deployment.
Nonce == 0 .. MaxNonce
Denom == IbcDenom \cup GravityDenom \cup SourceDenom
Contract ==
    UserContract \cup {ZeroAddress} \cup {ModuleAddress[n] : n \in Nonce}

\* The denominations differ by their prefixes, and crypto.CreateAddress gives a
\* new address for every nonce.
ASSUME MappingAssumption ==
    /\ MaxNonce \in Nat
    /\ NotHex \subseteq SourceDenom
    /\ IbcDenom # {}
    /\ SourceDenom \cap (IbcDenom \cup GravityDenom) = {}
    /\ \A m, n \in Nonce : ModuleAddress[m] = ModuleAddress[n] => m = n
    /\ \A n \in Nonce : ModuleAddress[n] \notin UserContract \cup {ZeroAddress}
    /\ None \notin Denom /\ None \notin Contract /\ None \notin Account
    /\ EarlyRegistration \in BOOLEAN

VARIABLES
    external,    \* DenomToExternalContract
    auto,        \* DenomToAutoContract
    denomOf,     \* ContractToDenom
    metadata,    \* the source denominations with metadata in the bank
    nonce,       \* the nonce of the EVM module account
    params,      \* the parameters that matter for the mapping
    permissions, \* AdminToPermissions, the bits set for an account
    phase,       \* the chain runs, imports a genesis, or failed to
    genesis,     \* the mappings of the genesis not yet imported
    exported     \* the store that was exported, while it is being imported

maps == <<external, auto, denomOf>>
vars == <<external, auto, denomOf, metadata, nonce, params, permissions,
          phase, genesis, exported>>

\* The bits of a permission.
CanChangeTokenMapping == "CanChangeTokenMapping"
CanTurnBridge == "CanTurnBridge"
Permission == {CanChangeTokenMapping, CanTurnBridge}

EmptyMap(S) == [x \in S |-> None]
NoGenesis == [external |-> EmptyMap(Denom), auto |-> EmptyMap(Denom)]
Store == [external |-> external, auto |-> auto, denomOf |-> denomOf,
          params |-> params, permissions |-> permissions]

Params ==
    [admin : Account \cup {None}, autoDeploy : BOOLEAN, ibcCroDenom : IbcDenom]
DenomMap == [Denom -> Contract \cup {None}]
StoreType ==
    [external : DenomMap, auto : DenomMap, denomOf : [Contract -> Denom \cup {None}],
     params : Params, permissions : [Account -> SUBSET Permission]]

TypeOK ==
    /\ external \in DenomMap
    /\ auto \in DenomMap
    /\ denomOf \in [Contract -> Denom \cup {None}]
    /\ metadata \in SUBSET SourceDenom
    /\ nonce \in Nat
    /\ params \in Params
    /\ permissions \in [Account -> SUBSET Permission]
    /\ phase \in {"running", "importing", "panicked"}
    /\ genesis \in [external : DenomMap, auto : DenomMap]
    /\ exported \in StoreType \cup {None}

\* The default genesis, with any parameters.
Init ==
    /\ external = EmptyMap(Denom)
    /\ auto = EmptyMap(Denom)
    /\ denomOf = EmptyMap(Contract)
    /\ metadata = {}
    /\ nonce = 0
    /\ params \in Params
    /\ permissions = [a \in Account |-> {}]
    /\ phase = "running"
    /\ genesis = NoGenesis
    /\ exported = None

-----------------------------------------------------------------------------
IsSourceCoin(d) == d \in SourceDenom

GetContractByDenom(d) ==
    IF external[d] # None THEN external[d] ELSE auto[d]

\* Does not check that the contract is free.
SetExternalUnchecked(d, c) ==
    /\ external' = [external EXCEPT ![d] = c]
    /\ denomOf' = [x \in Contract |->
                      IF x = c THEN d
                      ELSE IF x = external[d] THEN None ELSE denomOf[x]]

\* An update that also forgets the reverse entry of the contract it replaces.
\* The entry is deleted before the new one is set.
SetExternalContractForDenom(d, c) ==
    /\ denomOf[c] = None
    /\ external' = [external EXCEPT ![d] = c]
    /\ denomOf' = [x \in Contract |->
                      IF x = c THEN d
                      ELSE IF x = external[d] THEN None ELSE denomOf[x]]

\* A mapping that does not exist is deleted without an error.
DeleteExternalContractForDenom(d) ==
    /\ external' = [external EXCEPT ![d] = None]
    /\ denomOf' = [x \in Contract |->
                      IF x = external[d] THEN None ELSE denomOf[x]]

SetAutoContractForDenom(d, c) ==
    /\ auto' = [auto EXCEPT ![d] = c]
    /\ denomOf' = [denomOf EXCEPT ![c] = d]

\* A contract the sender of a mapping may name.  Only with EarlyRegistration may
\* it be an address at which the module has not deployed yet.
Registrable(c) ==
    \/ EarlyRegistration
    \/ c \in UserContract \cup {ZeroAddress}
    \/ \E n \in Nonce : n < nonce /\ c = ModuleAddress[n]

\* common.HexToAddress: the empty string is the zero address.
HexToAddress(c) == IF c = None THEN ZeroAddress ELSE c

\* Registers metadata for every coin.
RegisterWithMetadata(d, c) ==
    /\ metadata' = metadata \cup {d}
    /\ IF c = None THEN DeleteExternalContractForDenom(d)
                   ELSE SetExternalContractForDenom(d, c)

\* c is None for an empty Contract field.
RegisterOrUpdateTokenMapping(d, c) ==
    \/ /\ IsSourceCoin(d)
       /\ d \notin NotHex
       /\ metadata' = metadata \cup {d}
       /\ SetExternalContractForDenom(d, HexToAddress(c))
    \/ /\ ~IsSourceCoin(d)
       /\ IF c = None THEN DeleteExternalContractForDenom(d)
                      ELSE SetExternalContractForDenom(d, c)
       /\ UNCHANGED metadata

\* The admin has every permission.
HasPermission(a, p) == a = params.admin \/ p \in permissions[a]

\* The message requires a hex address.
UpdateTokenMapping(a, d, c) ==
    /\ phase = "running"
    /\ HasPermission(a, CanChangeTokenMapping)
    /\ Registrable(c)
    /\ RegisterOrUpdateTokenMapping(d, c)
    /\ UNCHANGED <<auto, nonce, params, permissions, phase, genesis, exported>>

\* A proposal that passed; its contract is not validated and may be empty.
TokenMappingChange(d, c) ==
    /\ phase = "running"
    /\ c = None \/ Registrable(c)
    /\ RegisterOrUpdateTokenMapping(d, c)
    /\ UNCHANGED <<auto, nonce, params, permissions, phase, genesis, exported>>

\* crypto.CreateAddress of the module account's nonce, which the EVM increases.
DeployModuleCRC21(c) ==
    /\ nonce < MaxNonce
    /\ c = ModuleAddress[nonce]
    /\ nonce' = nonce + 1

\* Looks for an external contract only: a second contract is deployed for a
\* denomination that has one.
ConvertCoinAgain(d) ==
    /\ external[d] = None
    /\ params.autoDeploy
    /\ ~IsSourceCoin(d)
    /\ \E c \in Contract : DeployModuleCRC21(c) /\ SetAutoContractForDenom(d, c)

\* The conversion of a coin that has no contract yet.  For a source coin the new
\* contract owns no tokens to release, so that the call of
\* transfer_from_cronos_module fails and the deployment is rolled back.
ConvertCoinFromNativeToCRC21(d) ==
    /\ GetContractByDenom(d) = None
    /\ params.autoDeploy
    /\ ~IsSourceCoin(d)
    /\ \E c \in Contract : DeployModuleCRC21(c) /\ SetAutoContractForDenom(d, c)

\* MsgConvertVouchers as far as it changes the mapping: the voucher of the gas token
\* is converted without a contract, and a mapped coin keeps its contract.  A message
\* with several coins is as many steps.
ConvertVouchers(d) ==
    /\ phase = "running"
    /\ d # params.ibcCroDenom
    /\ ConvertCoinFromNativeToCRC21(d)
    /\ UNCHANGED <<external, metadata, params, permissions, phase, genesis, exported>>

UpdateParams(p) ==
    /\ phase = "running"
    /\ params' = p
    /\ UNCHANGED <<external, auto, denomOf, metadata, nonce, permissions, phase,
                   genesis, exported>>

UpdatePermissions(from, a, ps) ==
    /\ phase = "running"
    /\ from = params.admin
    /\ permissions' = [permissions EXCEPT ![a] = ps]
    /\ UNCHANGED <<external, auto, denomOf, metadata, nonce, params, phase, genesis,
                   exported>>

-----------------------------------------------------------------------------
\* ExportGenesis, and a new chain that starts with SetParams of InitGenesis.  The
\* bank, the accounts and the contracts come with it; of this module's store only
\* the parameters and the two forward maps do.
ExportGenesis ==
    /\ phase = "running"
    /\ exported' = Store
    /\ genesis' = [external |-> external, auto |-> auto]
    /\ external' = EmptyMap(Denom)
    /\ auto' = EmptyMap(Denom)
    /\ denomOf' = EmptyMap(Contract)
    /\ permissions' = [a \in Account |-> {}]
    /\ phase' = "importing"
    /\ UNCHANGED <<metadata, nonce, params>>

\* "Only allowed to bootstrap external token at genesis"
Bootstrappable(d) == d \in IbcDenom \cup GravityDenom

InitGenesisPanics ==
    /\ phase' = "panicked"
    /\ UNCHANGED <<external, auto, denomOf, metadata, nonce, params, permissions,
                   genesis, exported>>

\* One round of the loop over ExternalContracts, and of that over AutoContracts.
InitGenesisExternal(d) ==
    /\ phase = "importing"
    /\ genesis.external[d] # None
    /\ \/ /\ Bootstrappable(d)
          /\ SetExternalContractForDenom(d, genesis.external[d])
          /\ genesis' = [genesis EXCEPT !.external[d] = None]
          /\ UNCHANGED <<auto, metadata, nonce, params, permissions, phase, exported>>
       \/ /\ ~Bootstrappable(d) \/ denomOf[genesis.external[d]] # None
          /\ InitGenesisPanics

\* Forgets the reverse entry.
InitGenesisAutoForward(d) ==
    /\ phase = "importing"
    /\ genesis.external = EmptyMap(Denom)
    /\ genesis.auto[d] # None
    /\ auto' = [auto EXCEPT ![d] = genesis.auto[d]]
    /\ genesis' = [genesis EXCEPT !.auto[d] = None]
    /\ UNCHANGED <<external, denomOf, metadata, nonce, params, permissions, phase,
                   exported>>

InitGenesisAuto(d) ==
    /\ phase = "importing"
    /\ genesis.external = EmptyMap(Denom)
    /\ genesis.auto[d] # None
    /\ \/ /\ Bootstrappable(d)
          /\ SetAutoContractForDenom(d, genesis.auto[d])
          /\ genesis' = [genesis EXCEPT !.auto[d] = None]
          /\ UNCHANGED <<external, metadata, nonce, params, permissions, phase, exported>>
       \/ /\ ~Bootstrappable(d)
          /\ InitGenesisPanics

InitGenesisDone ==
    /\ phase = "importing"
    /\ genesis = NoGenesis
    /\ phase' = "running"
    /\ exported' = None
    /\ UNCHANGED <<external, auto, denomOf, metadata, nonce, params, permissions,
                   genesis>>

-----------------------------------------------------------------------------
Next ==
    \/ \E a \in Account, d \in Denom, c \in Contract : UpdateTokenMapping(a, d, c)
    \/ \E d \in Denom, c \in Contract \cup {None} : TokenMappingChange(d, c)
    \/ \E d \in Denom : ConvertVouchers(d)
    \/ \E p \in Params : UpdateParams(p)
    \/ \E from, a \in Account, ps \in SUBSET Permission :
          UpdatePermissions(from, a, ps)
    \/ ExportGenesis
    \/ \E d \in Denom : InitGenesisExternal(d)
    \/ \E d \in Denom : InitGenesisAuto(d)
    \/ InitGenesisDone

Spec == Init /\ [][Next]_vars

-----------------------------------------------------------------------------
\* The two forward maps and the reverse map tell the same: conversion to the EVM
\* (GetContractByDenom) and back (GetDenomByContract) use the same pairs, no
\* contract stands for two denominations, and no reverse entry outlives the
\* mapping it came from.  A mapped source coin has metadata in the bank.
ReverseAgrees ==
    /\ \A d \in Denom : external[d] # None =>
          /\ denomOf[external[d]] = d
          /\ IsSourceCoin(d) => d \in metadata
    /\ \A d \in Denom : auto[d] # None => denomOf[auto[d]] = d
    /\ \A c \in Contract : denomOf[c] # None =>
          c \in {external[denomOf[c]], auto[denomOf[c]]}

\* Tokens of a contract the module deployed can always be converted back: whatever
\* external contract is registered or deleted, and also after automatic deployment
\* is switched off, the contract stays mapped in both directions.
AutoContractStays ==
    [][phase = "running" /\ phase' = "running" =>
          \A d \in Denom : auto[d] # None =>
             auto'[d] = auto[d] /\ denomOf'[auto[d]] = d]_vars

\* InitGenesis of what ExportGenesis wrote ends with the three maps that were
\* exported, although the reverse map is rebuilt from the forward maps; it panics
\* exactly if a source coin is mapped, never over a contract registered twice.
ImportReproduces ==
    [][phase = "importing" /\ phase' # "importing" =>
          IF \E d \in SourceDenom : exported.external[d] # None
          THEN phase' = "panicked"
          ELSE /\ phase' = "running"
               /\ external' = exported.external
               /\ auto' = exported.auto
               /\ denomOf' = exported.denomOf]_vars

-----------------------------------------------------------------------------
(***************************************************************************)
(* The inductive invariant, for addresses that are registered only once    *)
(* they have code.                                                         *)
(***************************************************************************)
\* The address of a deployment still to come is in no map.
FutureUnmapped ==
    \A n \in Nonce : n >= nonce =>
       /\ denomOf[ModuleAddress[n]] = None
       /\ \A d \in Denom : /\ genesis.external[d] # ModuleAddress[n]
                           /\ genesis.auto[d] # ModuleAddress[n]

\* An imported mapping and one still to be imported make up the exported one, and
\* the exported maps agree with each other.
ImportInv ==
    IF phase = "running" THEN genesis = NoGenesis
    ELSE /\ exported \in StoreType
         /\ \A d \in Denom :
               /\ \/ genesis.external[d] = None /\ external[d] = exported.external[d]
                  \/ genesis.external[d] = exported.external[d] /\ external[d] = None
               /\ \/ genesis.auto[d] = None /\ auto[d] = exported.auto[d]
                  \/ genesis.auto[d] = exported.auto[d] /\ auto[d] = None
         /\ \A d \in Denom : exported.external[d] # None =>
               /\ exported.denomOf[exported.external[d]] = d
               /\ IsSourceCoin(d) => d \in metadata
         /\ \A d \in Denom : exported.auto[d] # None =>
               exported.denomOf[exported.auto[d]] = d
         /\ \A c \in Contract : exported.denomOf[c] # None =>
               c \in {exported.external[exported.denomOf[c]],
                      exported.auto[exported.denomOf[c]]}

\* No source coin gets a contract from the module, or any contract from a genesis.
AutoNotSource ==
    \A d \in SourceDenom :
       /\ auto[d] = None /\ genesis.auto[d] = None
       /\ phase # "running" => exported.auto[d] = None /\ external[d] = None

\* A denomination has not the same contract twice.
AutoNotExternal ==
    /\ \A d \in Denom : auto[d] # None => auto[d] # external[d]
    /\ phase # "running" =>
          \A d \in Denom : exported.auto[d] # None => exported.auto[d] # exported.external[d]

MappingInv ==
    /\ TypeOK
    /\ ReverseAgrees
    /\ FutureUnmapped
    /\ ImportInv
    /\ AutoNotSource
    /\ AutoNotExternal
=============================================================================
