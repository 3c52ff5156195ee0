------------------------- MODULE TokenMappingProofs -------------------------
(***************************************************************************)
(* Proofs about the token mapping, for all sets of denominations,          *)
(* contracts and accounts and any number of deployments, when contracts    *)
(* are registered only once they have code.                                *)
(***************************************************************************)
EXTENDS TokenMapping, TLAPS

\* What the rest of the proof needs to know about the constants.
LEMMA Constants ==
    /\ IbcDenom \subseteq Denom /\ SourceDenom \subseteq Denom
    /\ None \notin Denom /\ None \notin Contract
    /\ ZeroAddress \in Contract
    /\ \A n \in Nonce : ModuleAddress[n] \in Contract
    /\ \A d \in Denom : Bootstrappable(d) <=> d \notin SourceDenom
  BY MappingAssumption DEF Denom, Contract, Bootstrappable

\* The maps start empty.
LEMMA InitLemma == Init => MappingInv
  BY MappingAssumption, Constants
     DEF Init, MappingInv, TypeOK, ReverseAgrees, FutureUnmapped, ImportInv,
         AutoNotSource, AutoNotExternal, DenomMap, EmptyMap, NoGenesis, Nonce

\* Registering a contract that is in no map, or forgetting one, keeps the maps in
\* agreement.
LEMMA SetExternalLemma ==
    ASSUME MappingInv, NEW d \in Denom, NEW c \in Contract,
           SetExternalContractForDenom(d, c), auto' = auto,
           metadata \subseteq metadata', IsSourceCoin(d) => d \in metadata'
    PROVE  /\ external' \in DenomMap
           /\ denomOf' \in [Contract -> Denom \cup {None}]
           /\ ReverseAgrees'
  <1>1. /\ external \in DenomMap /\ auto \in DenomMap
        /\ denomOf \in [Contract -> Denom \cup {None}]
    BY DEF MappingInv, TypeOK
  <1>2. external' \in DenomMap /\ denomOf' \in [Contract -> Denom \cup {None}]
    BY <1>1 DEF SetExternalContractForDenom, DenomMap
  <1>3. ASSUME NEW e \in Denom, external'[e] # None
        PROVE  /\ denomOf'[external'[e]] = e
               /\ IsSourceCoin(e) => e \in metadata'
    BY <1>1, <1>3, Constants
       DEF SetExternalContractForDenom, DenomMap, MappingInv, ReverseAgrees
  <1>4. ASSUME NEW e \in Denom, auto'[e] # None
        PROVE  denomOf'[auto'[e]] = e
    <2>1. auto[e] \in Contract /\ denomOf[auto[e]] = e
      BY <1>1, <1>4 DEF DenomMap, MappingInv, ReverseAgrees
    <2>2. auto[e] # c
      BY <2>1, Constants DEF SetExternalContractForDenom
    <2>3. auto[e] # external[d]
      BY <2>1, <1>1, Constants DEF MappingInv, ReverseAgrees, AutoNotExternal, DenomMap
    <2> QED
      BY <2>1, <2>2, <2>3 DEF SetExternalContractForDenom
  <1>5. ASSUME NEW x \in Contract, denomOf'[x] # None
        PROVE  x \in {external'[denomOf'[x]], auto'[denomOf'[x]]}
    BY <1>1, <1>5, Constants
       DEF SetExternalContractForDenom, DenomMap, MappingInv, ReverseAgrees
  <1> QED
    BY <1>2, <1>3, <1>4, <1>5 DEF ReverseAgrees

\* The same for the deletion of an external contract.
LEMMA DeleteExternalLemma ==
    ASSUME MappingInv, NEW d \in Denom, DeleteExternalContractForDenom(d),
           auto' = auto, metadata' = metadata
    PROVE  /\ external' \in DenomMap
           /\ denomOf' \in [Contract -> Denom \cup {None}]
           /\ ReverseAgrees'
  <1>1. /\ external \in DenomMap /\ auto \in DenomMap
        /\ denomOf \in [Contract -> Denom \cup {None}]
    BY DEF MappingInv, TypeOK
  <1>2. external' \in DenomMap /\ denomOf' \in [Contract -> Denom \cup {None}]
    BY <1>1 DEF DeleteExternalContractForDenom, DenomMap
  <1>3. ASSUME NEW e \in Denom, external'[e] # None
        PROVE  /\ denomOf'[external'[e]] = e
               /\ IsSourceCoin(e) => e \in metadata'
    BY <1>1, <1>3, Constants
       DEF DeleteExternalContractForDenom, DenomMap, MappingInv, ReverseAgrees
  <1>4. ASSUME NEW e \in Denom, auto'[e] # None
        PROVE  denomOf'[auto'[e]] = e
    <2>1. auto[e] \in Contract /\ denomOf[auto[e]] = e
      BY <1>1, <1>4 DEF DenomMap, MappingInv, ReverseAgrees
    <2>2. auto[e] # external[d]
      BY <2>1, <1>1, Constants DEF MappingInv, ReverseAgrees, AutoNotExternal, DenomMap
    <2> QED
      BY <2>1, <2>2 DEF DeleteExternalContractForDenom
  <1>5. ASSUME NEW x \in Contract, denomOf'[x] # None
        PROVE  x \in {external'[denomOf'[x]], auto'[denomOf'[x]]}
    BY <1>1, <1>5, Constants
       DEF DeleteExternalContractForDenom, DenomMap, MappingInv, ReverseAgrees
  <1> QED
    BY <1>2, <1>3, <1>4, <1>5 DEF ReverseAgrees

\* A message or a proposal, on a running chain.
LEMMA RegisterLemma ==
    ASSUME ~EarlyRegistration, MappingInv, phase = "running",
           NEW d \in Denom, NEW c \in Contract \cup {None},
           c = None \/ Registrable(c), RegisterOrUpdateTokenMapping(d, c),
           UNCHANGED <<auto, nonce, params, permissions, phase, genesis, exported>>
    PROVE  MappingInv'
  <1>1. CASE /\ ~IsSourceCoin(d) /\ c = None
             /\ DeleteExternalContractForDenom(d) /\ UNCHANGED metadata
    <2>1. /\ external' \in DenomMap
          /\ denomOf' \in [Contract -> Denom \cup {None}]
          /\ ReverseAgrees'
      BY <1>1, DeleteExternalLemma
    <2>2. TypeOK'
      BY <1>1, <2>1 DEF MappingInv, TypeOK
    <2>3. FutureUnmapped'
      BY <1>1, Constants
         DEF MappingInv, TypeOK, FutureUnmapped, DeleteExternalContractForDenom
    <2>4. ImportInv' /\ AutoNotSource' /\ AutoNotExternal'
      BY <1>1, Constants DEF MappingInv, TypeOK, ImportInv, AutoNotSource,
         AutoNotExternal, DeleteExternalContractForDenom, DenomMap
    <2> QED
      BY <2>1, <2>2, <2>3, <2>4 DEF MappingInv
  <1>2. ASSUME NEW x \in Contract, SetExternalContractForDenom(d, x),
               x = ZeroAddress \/ Registrable(x),
               metadata' \in SUBSET SourceDenom, metadata \subseteq metadata',
               IsSourceCoin(d) => d \in metadata'
        PROVE  MappingInv'
    <2>1. /\ external' \in DenomMap
          /\ denomOf' \in [Contract -> Denom \cup {None}]
          /\ ReverseAgrees'
      BY <1>2, SetExternalLemma
    <2>2. TypeOK'
      BY <1>2, <2>1 DEF MappingInv, TypeOK
    <2>3. FutureUnmapped'
      <3>1. ASSUME NEW n \in Nonce, n >= nonce PROVE x # ModuleAddress[n]
        <4>1. x # ZeroAddress => x \in UserContract \/ \E m \in Nonce :
                                    m < nonce /\ x = ModuleAddress[m]
          BY <1>2 DEF Registrable
        <4>2. ASSUME NEW m \in Nonce, m < nonce PROVE ModuleAddress[m] # ModuleAddress[n]
          BY <3>1, <4>2, MappingAssumption DEF Nonce, MappingInv, TypeOK
        <4> QED
          BY <4>1, <4>2, MappingAssumption
      <3> QED
        BY <3>1, <1>2, Constants
           DEF MappingInv, TypeOK, FutureUnmapped, SetExternalContractForDenom
    <2>4. ImportInv' /\ AutoNotSource'
      BY DEF MappingInv, ImportInv, AutoNotSource
    <2>5. AutoNotExternal'
      <3>1. ASSUME NEW e \in Denom, auto[e] # None PROVE auto[e] # external'[e]
        BY <3>1, <1>2, Constants DEF MappingInv, TypeOK, ReverseAgrees,
           AutoNotExternal, SetExternalContractForDenom, DenomMap
      <3> QED
        BY <3>1 DEF AutoNotExternal
    <2> QED
      BY <2>1, <2>2, <2>3, <2>4, <2>5 DEF MappingInv
  <1>3. CASE /\ ~IsSourceCoin(d) /\ c # None
             /\ SetExternalContractForDenom(d, c) /\ UNCHANGED metadata
    BY <1>2, <1>3 DEF MappingInv, TypeOK
  <1>4. CASE /\ IsSourceCoin(d) /\ metadata' = metadata \cup {d}
             /\ SetExternalContractForDenom(d, HexToAddress(c))
    BY <1>2, <1>4, Constants DEF HexToAddress, IsSourceCoin, MappingInv, TypeOK
  <1> QED
    BY <1>1, <1>3, <1>4 DEF RegisterOrUpdateTokenMapping

\* The module maps a contract it has just deployed.
LEMMA ConvertLemma ==
    ASSUME MappingInv, NEW d \in Denom, ConvertVouchers(d)
    PROVE  MappingInv'
  <1> DEFINE c == ModuleAddress[nonce]
  <1>1. /\ nonce \in Nonce /\ c \in Contract /\ denomOf[c] = None
        /\ auto[d] = None /\ external[d] = None
    BY Constants, MappingAssumption
       DEF ConvertVouchers, ConvertCoinFromNativeToCRC21, DeployModuleCRC21,
           MappingInv, TypeOK, FutureUnmapped, Nonce, GetContractByDenom
  <1>2. /\ auto' = [auto EXCEPT ![d] = c]
        /\ denomOf' = [denomOf EXCEPT ![c] = d]
        /\ nonce' = nonce + 1
        /\ UNCHANGED <<external, metadata, params, permissions, phase, genesis, exported>>
        /\ phase = "running" /\ d \notin SourceDenom
    BY DEF ConvertVouchers, ConvertCoinFromNativeToCRC21, DeployModuleCRC21,
           SetAutoContractForDenom, IsSourceCoin
  <1>3. /\ external \in DenomMap /\ auto \in DenomMap
        /\ denomOf \in [Contract -> Denom \cup {None}]
    BY DEF MappingInv, TypeOK
  <1> HIDE DEF c
  <1>4. TypeOK'
    BY <1>1, <1>2 DEF MappingInv, TypeOK, DenomMap
  <1>5. ReverseAgrees'
    BY <1>1, <1>2, <1>3, Constants DEF MappingInv, ReverseAgrees, DenomMap
  <1>6. FutureUnmapped'
    <2>1. ASSUME NEW n \in Nonce, n >= nonce' PROVE n >= nonce /\ ModuleAddress[n] # c
      BY <1>1, <1>2, <2>1, MappingAssumption DEF Nonce, c
    <2> QED
      BY <2>1, <1>2, <1>3, Constants DEF MappingInv, FutureUnmapped
  <1>7. ImportInv' /\ AutoNotSource' /\ AutoNotExternal'
    BY <1>1, <1>2, <1>3, Constants
       DEF MappingInv, ImportInv, AutoNotSource, AutoNotExternal, DenomMap
  <1> QED
    BY <1>4, <1>5, <1>6, <1>7 DEF MappingInv

\* The new chain starts from empty maps.
LEMMA ExportLemma ==
    ASSUME MappingInv, ExportGenesis
    PROVE  MappingInv'
  <1>1. /\ external \in DenomMap /\ auto \in DenomMap
        /\ denomOf \in [Contract -> Denom \cup {None}]
    BY DEF MappingInv, TypeOK
  <1>2. TypeOK'
    BY <1>1 DEF ExportGenesis, MappingInv, TypeOK, DenomMap, EmptyMap, Store, StoreType
  <1>3. ReverseAgrees'
    BY Constants DEF ExportGenesis, ReverseAgrees, EmptyMap
  <1>4. FutureUnmapped'
    BY <1>1, Constants
       DEF ExportGenesis, MappingInv, FutureUnmapped, ReverseAgrees, EmptyMap, DenomMap
  <1>5. exported' \in StoreType
    BY <1>1 DEF ExportGenesis, MappingInv, TypeOK, Store, StoreType
  <1>6. ImportInv'
    BY <1>1, <1>5, Constants
       DEF ExportGenesis, MappingInv, ImportInv, ReverseAgrees, EmptyMap, Store
  <1>7. AutoNotSource' /\ AutoNotExternal'
    BY <1>1, Constants
       DEF ExportGenesis, MappingInv, AutoNotSource, AutoNotExternal, EmptyMap, Store
  <1> QED
    BY <1>2, <1>3, <1>4, <1>6, <1>7 DEF MappingInv

\* A mapping of the genesis that has not been imported yet is in no map: the
\* contract is free, and neither it nor one of the imported ones changes its
\* denomination.
LEMMA ImportFacts ==
    ASSUME MappingInv, phase = "importing", NEW d \in Denom
    PROVE  /\ genesis.external[d] # None =>
                 /\ genesis.external[d] \in Contract
                 /\ external[d] = None
                 /\ genesis.external[d] = exported.external[d]
                 /\ denomOf[genesis.external[d]] = None
           /\ genesis.auto[d] # None =>
                 /\ genesis.auto[d] \in Contract
                 /\ auto[d] = None
                 /\ genesis.auto[d] = exported.auto[d]
                 /\ denomOf[genesis.auto[d]] = None
  <1>1. /\ external \in DenomMap /\ auto \in DenomMap
        /\ denomOf \in [Contract -> Denom \cup {None}]
        /\ genesis.external \in DenomMap /\ genesis.auto \in DenomMap
        /\ exported.external \in DenomMap /\ exported.auto \in DenomMap
        /\ exported.denomOf \in [Contract -> Denom \cup {None}]
    BY DEF MappingInv, TypeOK, ImportInv, StoreType
  <1>2. ASSUME NEW x \in Contract, denomOf[x] # None
        PROVE  exported.denomOf[x] = denomOf[x]
    <2> DEFINE e == denomOf[x]
    <2>1. e \in Denom /\ x \in {external[e], auto[e]}
      BY <1>1, <1>2 DEF MappingInv, ReverseAgrees
    <2>2. x \in {exported.external[e], exported.auto[e]}
      BY <2>1, Constants DEF MappingInv, ImportInv
    <2> QED
      BY <2>1, <2>2, Constants DEF MappingInv, ImportInv
  <1>3. ASSUME genesis.external[d] # None
        PROVE  /\ genesis.external[d] \in Contract
               /\ external[d] = None
               /\ genesis.external[d] = exported.external[d]
               /\ denomOf[genesis.external[d]] = None
    <2> DEFINE x == genesis.external[d]
    <2>1. /\ x \in Contract /\ external[d] = None /\ x = exported.external[d]
          /\ exported.denomOf[x] = d
      BY <1>1, <1>3 DEF DenomMap, MappingInv, ImportInv
    <2>2. ASSUME denomOf[x] # None PROVE FALSE
      <3>1. denomOf[x] = d /\ x = auto[d]
        BY <1>2, <2>1, <2>2, Constants DEF MappingInv, ReverseAgrees
      <3> QED
        BY <3>1, <2>1, Constants DEF MappingInv, ImportInv, AutoNotExternal
    <2> QED
      BY <2>1, <2>2
  <1>4. ASSUME genesis.auto[d] # None
        PROVE  /\ genesis.auto[d] \in Contract
               /\ auto[d] = None
               /\ genesis.auto[d] = exported.auto[d]
               /\ denomOf[genesis.auto[d]] = None
    <2> DEFINE x == genesis.auto[d]
    <2>1. /\ x \in Contract /\ auto[d] = None /\ x = exported.auto[d]
          /\ exported.denomOf[x] = d
      BY <1>1, <1>4 DEF DenomMap, MappingInv, ImportInv
    <2>2. ASSUME denomOf[x] # None PROVE FALSE
      <3>1. denomOf[x] = d /\ x = external[d]
        BY <1>2, <2>1, <2>2, Constants DEF MappingInv, ReverseAgrees
      <3> QED
        BY <3>1, <2>1, Constants DEF MappingInv, ImportInv, AutoNotExternal
    <2> QED
      BY <2>1, <2>2
  <1> QED
    BY <1>3, <1>4

\* A panic leaves the maps alone.
LEMMA PanicLemma ==
    ASSUME MappingInv, phase = "importing", InitGenesisPanics
    PROVE  MappingInv'
  <1>1. TypeOK' /\ ReverseAgrees' /\ FutureUnmapped'
    BY DEF InitGenesisPanics, MappingInv, TypeOK, ReverseAgrees, FutureUnmapped
  <1>2. ImportInv' /\ AutoNotSource' /\ AutoNotExternal'
    BY DEF InitGenesisPanics, MappingInv, ImportInv, AutoNotSource, AutoNotExternal
  <1> QED
    BY <1>1, <1>2 DEF MappingInv

\* One round of the first loop of InitGenesis.
LEMMA ImportExternalLemma ==
    ASSUME MappingInv, NEW d \in Denom, InitGenesisExternal(d)
    PROVE  MappingInv'
  <1> DEFINE c == genesis.external[d]
  <1>1. phase = "importing" /\ c # None
    BY DEF InitGenesisExternal
  <1>2. c \in Contract /\ external[d] = None /\ c = exported.external[d]
    BY <1>1, ImportFacts
  <1>3. CASE InitGenesisPanics
    BY <1>1, <1>3, PanicLemma
  <1>4. CASE /\ Bootstrappable(d) /\ SetExternalContractForDenom(d, c)
             /\ genesis' = [genesis EXCEPT !.external[d] = None]
             /\ UNCHANGED <<auto, metadata, nonce, params, permissions, phase, exported>>
    <2>1. ~IsSourceCoin(d)
      BY <1>4, Constants DEF IsSourceCoin
    <2>2. /\ external' \in DenomMap
          /\ denomOf' \in [Contract -> Denom \cup {None}]
          /\ ReverseAgrees'
      BY <1>2, <1>4, <2>1, SetExternalLemma
    <2>3. /\ genesis \in [external : DenomMap, auto : DenomMap]
          /\ external \in DenomMap /\ auto \in DenomMap
          /\ denomOf \in [Contract -> Denom \cup {None}]
      BY DEF MappingInv, TypeOK
    <2>4. /\ genesis' \in [external : DenomMap, auto : DenomMap]
          /\ genesis'.auto = genesis.auto
          /\ genesis'.external = [genesis.external EXCEPT ![d] = None]
      BY <1>4, <2>3 DEF DenomMap
    <2>5. external' = [external EXCEPT ![d] = c]
      BY <1>4 DEF SetExternalContractForDenom
    <2>6. TypeOK'
      BY <1>4, <2>2, <2>4 DEF MappingInv, TypeOK
    <2>7. FutureUnmapped'
      <3>1. ASSUME NEW n \in Nonce, n >= nonce
            PROVE  denomOf'[ModuleAddress[n]] = None
        BY <1>4, <3>1, Constants
           DEF MappingInv, FutureUnmapped, SetExternalContractForDenom
      <3>2. ASSUME NEW n \in Nonce, n >= nonce, NEW e \in Denom
            PROVE  /\ genesis'.external[e] # ModuleAddress[n]
                   /\ genesis'.auto[e] # ModuleAddress[n]
        BY <2>3, <2>4, <3>2, Constants DEF MappingInv, FutureUnmapped, DenomMap
      <3> QED
        BY <1>4, <3>1, <3>2 DEF FutureUnmapped
    <2>8. ImportInv'
      <3>1. ASSUME NEW e \in Denom
            PROVE  \/ genesis'.external[e] = None /\ external'[e] = exported.external[e]
                   \/ genesis'.external[e] = exported.external[e] /\ external'[e] = None
        BY <1>1, <1>2, <2>3, <2>4, <2>5 DEF DenomMap, MappingInv, ImportInv
      <3> QED
        BY <1>1, <1>4, <2>4, <3>1 DEF MappingInv, ImportInv
    <2>9. AutoNotSource'
      BY <1>4, <2>1, <2>3, <2>4, <2>5, Constants
         DEF MappingInv, AutoNotSource, IsSourceCoin, DenomMap
    <2>10. AutoNotExternal'
      <3>1. ASSUME NEW e \in Denom, auto[e] # None PROVE auto[e] # external'[e]
        BY <1>1, <1>2, <2>3, <2>5, <3>1, Constants
           DEF DenomMap, MappingInv, AutoNotExternal, ImportInv
      <3> QED
        BY <1>4, <3>1 DEF MappingInv, AutoNotExternal
    <2> QED
      BY <2>2, <2>6, <2>7, <2>8, <2>9, <2>10 DEF MappingInv
  <1> QED
    BY <1>3, <1>4 DEF InitGenesisExternal

\* One round of the second loop.
LEMMA ImportAutoLemma ==
    ASSUME MappingInv, NEW d \in Denom, InitGenesisAuto(d)
    PROVE  MappingInv'
  <1> DEFINE c == genesis.auto[d]
  <1>1. phase = "importing" /\ c # None
    BY DEF InitGenesisAuto
  <1>2. c \in Contract /\ auto[d] = None /\ c = exported.auto[d] /\ denomOf[c] = None
    BY <1>1, ImportFacts
  <1>3. CASE InitGenesisPanics
    BY <1>1, <1>3, PanicLemma
  <1>4. CASE /\ Bootstrappable(d) /\ SetAutoContractForDenom(d, c)
             /\ genesis' = [genesis EXCEPT !.auto[d] = None]
             /\ UNCHANGED <<external, metadata, nonce, params, permissions, phase,
                            exported>>
    <2>1. /\ d \notin SourceDenom
          /\ auto' = [auto EXCEPT ![d] = c]
          /\ denomOf' = [denomOf EXCEPT ![c] = d]
      BY <1>4, Constants DEF SetAutoContractForDenom
    <2>2. /\ genesis \in [external : DenomMap, auto : DenomMap]
          /\ external \in DenomMap /\ auto \in DenomMap
          /\ denomOf \in [Contract -> Denom \cup {None}]
      BY DEF MappingInv, TypeOK
    <2>3. /\ genesis' \in [external : DenomMap, auto : DenomMap]
          /\ genesis'.external = genesis.external
          /\ genesis'.auto = [genesis.auto EXCEPT ![d] = None]
      BY <1>4, <2>2 DEF DenomMap
    <2>4. TypeOK'
      BY <1>2, <1>4, <2>1, <2>2, <2>3 DEF MappingInv, TypeOK, DenomMap
    <2>5. ReverseAgrees'
      BY <1>2, <1>4, <2>1, <2>2, Constants DEF MappingInv, ReverseAgrees, DenomMap
    <2>6. FutureUnmapped'
      <3>1. ASSUME NEW n \in Nonce, n >= nonce
            PROVE  denomOf'[ModuleAddress[n]] = None
        BY <2>1, <2>2, <3>1, Constants DEF MappingInv, FutureUnmapped
      <3>2. ASSUME NEW n \in Nonce, n >= nonce, NEW e \in Denom
            PROVE  /\ genesis'.external[e] # ModuleAddress[n]
                   /\ genesis'.auto[e] # ModuleAddress[n]
        BY <2>2, <2>3, <3>2, Constants DEF MappingInv, FutureUnmapped, DenomMap
      <3> QED
        BY <1>4, <3>1, <3>2 DEF FutureUnmapped
    <2>7. ImportInv'
      <3>1. ASSUME NEW e \in Denom
            PROVE  \/ genesis'.auto[e] = None /\ auto'[e] = exported.auto[e]
                   \/ genesis'.auto[e] = exported.auto[e] /\ auto'[e] = None
        BY <1>1, <1>2, <2>1, <2>2, <2>3 DEF DenomMap, MappingInv, ImportInv
      <3> QED
        BY <1>1, <1>4, <2>3, <3>1 DEF MappingInv, ImportInv
    <2>8. AutoNotSource'
      BY <1>4, <2>1, <2>2, <2>3, Constants DEF MappingInv, AutoNotSource, DenomMap
    <2>9. AutoNotExternal'
      <3>1. ASSUME NEW e \in Denom, auto'[e] # None PROVE auto'[e] # external[e]
        BY <1>1, <1>2, <2>1, <2>2, <3>1, Constants
           DEF DenomMap, MappingInv, AutoNotExternal, ImportInv
      <3> QED
        BY <1>4, <3>1 DEF MappingInv, AutoNotExternal
    <2> QED
      BY <2>4, <2>5, <2>6, <2>7, <2>8, <2>9 DEF MappingInv
  <1> QED
    BY <1>3, <1>4 DEF InitGenesisAuto

\* Steps that do not touch the maps.
LEMMA OtherLemma ==
    ASSUME MappingInv,
           \/ \E p \in Params : UpdateParams(p)
           \/ \E from, a \in Account, ps \in SUBSET Permission :
                 UpdatePermissions(from, a, ps)
           \/ InitGenesisDone
           \/ UNCHANGED vars
    PROVE  MappingInv'
  <1>1. /\ UNCHANGED <<external, auto, denomOf, metadata, nonce, genesis>>
        /\ params' \in Params
        /\ permissions' \in [Account -> SUBSET Permission]
        /\ \/ UNCHANGED <<phase, exported>>
           \/ phase' = "running" /\ exported' = None /\ genesis = NoGenesis
    BY DEF UpdateParams, UpdatePermissions, InitGenesisDone, vars, MappingInv, TypeOK
  <1>2. TypeOK' /\ ReverseAgrees' /\ FutureUnmapped'
    BY <1>1 DEF MappingInv, TypeOK, ReverseAgrees, FutureUnmapped
  <1>3. ImportInv' /\ AutoNotSource' /\ AutoNotExternal'
    BY <1>1 DEF MappingInv, ImportInv, AutoNotSource, AutoNotExternal
  <1> QED
    BY <1>2, <1>3 DEF MappingInv

\* Every step preserves the invariant.
LEMMA NextLemma ==
    ASSUME ~EarlyRegistration, MappingInv, [Next]_vars
    PROVE  MappingInv'
  <1>1. CASE \E a \in Account, d \in Denom, c \in Contract : UpdateTokenMapping(a, d, c)
    BY <1>1, RegisterLemma DEF UpdateTokenMapping
  <1>2. CASE \E d \in Denom, c \in Contract \cup {None} : TokenMappingChange(d, c)
    BY <1>2, RegisterLemma DEF TokenMappingChange
  <1>3. CASE \E d \in Denom : ConvertVouchers(d)
    BY <1>3, ConvertLemma
  <1>4. CASE ExportGenesis
    BY <1>4, ExportLemma
  <1>5. CASE \E d \in Denom : InitGenesisExternal(d)
    BY <1>5, ImportExternalLemma
  <1>6. CASE \E d \in Denom : InitGenesisAuto(d)
    BY <1>6, ImportAutoLemma
  <1> QED
    BY <1>1, <1>2, <1>3, <1>4, <1>5, <1>6, OtherLemma DEF Next

\* MappingInv holds in every reachable state: whatever messages, proposals,
\* conversions, parameter changes, exports and imports are executed.
THEOREM MappingInvariance ==
    ASSUME ~EarlyRegistration
    PROVE  Spec => []MappingInv
  <1>1. Init => MappingInv
    BY InitLemma
  <1>2. MappingInv /\ [Next]_vars => MappingInv'
    BY NextLemma
  <1> QED
    BY <1>1, <1>2, PTL DEF Spec

\* TypeOK is inductive by itself, also when an address is registered before it has
\* code.
LEMMA TypeLemma ==
    ASSUME TypeOK, [Next]_vars
    PROVE  TypeOK'
  <1>1. ASSUME NEW d \in Denom, NEW c \in Contract, SetExternalContractForDenom(d, c)
        PROVE  external' \in DenomMap /\ denomOf' \in [Contract -> Denom \cup {None}]
    BY <1>1 DEF SetExternalContractForDenom, TypeOK, DenomMap
  <1>2. ASSUME NEW d \in Denom, DeleteExternalContractForDenom(d)
        PROVE  external' \in DenomMap /\ denomOf' \in [Contract -> Denom \cup {None}]
    BY <1>2 DEF DeleteExternalContractForDenom, TypeOK, DenomMap
  <1>3. ASSUME NEW d \in Denom, NEW c \in Contract, SetAutoContractForDenom(d, c)
        PROVE  auto' \in DenomMap /\ denomOf' \in [Contract -> Denom \cup {None}]
    BY <1>3 DEF SetAutoContractForDenom, TypeOK, DenomMap
  <1>4. ASSUME NEW d \in Denom, NEW c \in Contract \cup {None},
               RegisterOrUpdateTokenMapping(d, c),
               UNCHANGED <<auto, nonce, params, permissions, phase, genesis, exported>>
        PROVE  TypeOK'
    <2>1. CASE IsSourceCoin(d)
      <3>1. HexToAddress(c) \in Contract
        BY Constants DEF HexToAddress
      <3> QED
        BY <1>1, <1>4, <2>1, <3>1 DEF RegisterOrUpdateTokenMapping, IsSourceCoin, TypeOK
    <2>2. CASE ~IsSourceCoin(d)
      BY <1>1, <1>2, <1>4, <2>2 DEF RegisterOrUpdateTokenMapping, TypeOK
    <2> QED
      BY <2>1, <2>2
  <1>5. CASE \E a \in Account, d \in Denom, c \in Contract : UpdateTokenMapping(a, d, c)
    BY <1>4, <1>5 DEF UpdateTokenMapping
  <1>6. CASE \E d \in Denom, c \in Contract \cup {None} : TokenMappingChange(d, c)
    BY <1>4, <1>6 DEF TokenMappingChange
  <1>7. CASE \E d \in Denom : ConvertVouchers(d)
    BY <1>3, <1>7
       DEF ConvertVouchers, ConvertCoinFromNativeToCRC21, DeployModuleCRC21, TypeOK
  <1>8. CASE \E p \in Params : UpdateParams(p)
    BY <1>8 DEF UpdateParams, TypeOK
  <1>9. CASE \E from, a \in Account, ps \in SUBSET Permission : UpdatePermissions(from, a, ps)
    BY <1>9 DEF UpdatePermissions, TypeOK
  <1>10. CASE ExportGenesis
    <2>1. exported' \in StoreType
      BY <1>10 DEF ExportGenesis, Store, StoreType, TypeOK
    <2>2. /\ external' \in DenomMap /\ auto' \in DenomMap
          /\ denomOf' \in [Contract -> Denom \cup {None}]
          /\ permissions' \in [Account -> SUBSET Permission]
          /\ genesis' \in [external : DenomMap, auto : DenomMap]
      BY <1>10 DEF ExportGenesis, EmptyMap, DenomMap, TypeOK
    <2> QED
      BY <1>10, <2>1, <2>2 DEF ExportGenesis, TypeOK
  <1>11. CASE \E d \in Denom : InitGenesisExternal(d)
    <2> PICK d \in Denom : InitGenesisExternal(d)
      BY <1>11
    <2>1. genesis.external[d] \in Contract
      BY DEF InitGenesisExternal, TypeOK, DenomMap
    <2>2. [genesis EXCEPT !.external[d] = None] \in [external : DenomMap, auto : DenomMap]
      BY DEF TypeOK, DenomMap
    <2> QED
      BY <1>1, <2>1, <2>2 DEF InitGenesisExternal, InitGenesisPanics, TypeOK
  <1>12. CASE \E d \in Denom : InitGenesisAuto(d)
    <2> PICK d \in Denom : InitGenesisAuto(d)
      BY <1>12
    <2>1. genesis.auto[d] \in Contract
      BY DEF InitGenesisAuto, TypeOK, DenomMap
    <2>2. [genesis EXCEPT !.auto[d] = None] \in [external : DenomMap, auto : DenomMap]
      BY DEF TypeOK, DenomMap
    <2> QED
      BY <1>3, <2>1, <2>2 DEF InitGenesisAuto, InitGenesisPanics, TypeOK
  <1>13. CASE InitGenesisDone \/ UNCHANGED vars
    BY <1>13 DEF InitGenesisDone, vars, TypeOK
  <1> QED
    BY <1>5, <1>6, <1>7, <1>8, <1>9, <1>10, <1>11, <1>12, <1>13 DEF Next

\* The state of the keeper keeps its type, also when an address is registered before
\* it has code.
THEOREM MappingTypeCorrect == Spec => []TypeOK
  <1>1. Init => TypeOK
    BY InitLemma DEF MappingInv
  <1>2. TypeOK /\ [Next]_vars => TypeOK'
    BY TypeLemma
  <1> QED
    BY <1>1, <1>2, PTL DEF Spec

\* The forward maps and the reverse map agree in every reachable state.
THEOREM MapsAgree ==
    ASSUME ~EarlyRegistration
    PROVE  Spec => []ReverseAgrees
  <1>1. MappingInv => ReverseAgrees
    BY DEF MappingInv
  <1> QED
    BY <1>1, MappingInvariance, PTL

\* A contract deployed by the module stays mapped in both directions.
THEOREM AutoStays ==
    ASSUME ~EarlyRegistration
    PROVE  Spec => AutoContractStays
  <1>1. ASSUME MappingInv, MappingInv', [Next]_vars,
               phase = "running", phase' = "running",
               NEW d \in Denom, auto[d] # None
        PROVE  auto'[d] = auto[d] /\ denomOf'[auto[d]] = d
    <2>1. auto \in DenomMap
      BY <1>1 DEF MappingInv, TypeOK
    <2>2. auto'[d] = auto[d]
      <3>1. CASE \E e \in Denom : ConvertVouchers(e)
        <4>1. PICK e \in Denom : ConvertVouchers(e)
          BY <3>1
        <4>2. auto[e] = None /\ auto' = [auto EXCEPT ![e] = ModuleAddress[nonce]]
          BY <4>1 DEF ConvertVouchers, ConvertCoinFromNativeToCRC21,
                      DeployModuleCRC21, GetContractByDenom, SetAutoContractForDenom
        <4> QED
          BY <1>1, <2>1, <4>2 DEF DenomMap
      <3>2. CASE ~\E e \in Denom : ConvertVouchers(e)
        BY <1>1, <3>2
           DEF Next, vars, UpdateTokenMapping, TokenMappingChange, UpdateParams,
               UpdatePermissions, ExportGenesis, InitGenesisExternal, InitGenesisAuto,
               InitGenesisDone
      <3> QED
        BY <3>1, <3>2
    <2> QED
      BY <1>1, <2>2 DEF MappingInv, ReverseAgrees
  <1>2. MappingInv /\ MappingInv' /\ [Next]_vars =>
           [phase = "running" /\ phase' = "running" =>
               \A d \in Denom : auto[d] # None =>
                  auto'[d] = auto[d] /\ denomOf'[auto[d]] = d]_vars
    BY <1>1
  <1> QED
    BY <1>2, MappingInvariance, PTL DEF Spec, AutoContractStays

\* When nothing of the genesis is left, the maps are the exported ones.
LEMMA DoneLemma ==
    ASSUME MappingInv, phase = "importing", genesis = NoGenesis
    PROVE  /\ external = exported.external
           /\ auto = exported.auto
           /\ denomOf = exported.denomOf
  <1>1. /\ external \in DenomMap /\ auto \in DenomMap
        /\ denomOf \in [Contract -> Denom \cup {None}]
        /\ exported.external \in DenomMap /\ exported.auto \in DenomMap
        /\ exported.denomOf \in [Contract -> Denom \cup {None}]
    BY DEF MappingInv, TypeOK, ImportInv, StoreType
  <1>2. ASSUME NEW d \in Denom
        PROVE  external[d] = exported.external[d] /\ auto[d] = exported.auto[d]
    BY DEF MappingInv, ImportInv, NoGenesis, EmptyMap
  <1>3. external = exported.external /\ auto = exported.auto
    BY <1>1, <1>2 DEF DenomMap
  <1>4. ASSUME NEW c \in Contract
        PROVE  denomOf[c] = exported.denomOf[c]
    <2>1. CASE exported.denomOf[c] # None
      BY <1>1, <1>3, <2>1, Constants DEF MappingInv, ImportInv, ReverseAgrees
    <2>2. CASE denomOf[c] # None
      BY <1>1, <1>3, <2>2, Constants DEF MappingInv, ImportInv, ReverseAgrees
    <2> QED
      BY <2>1, <2>2
  <1> QED
    BY <1>1, <1>3, <1>4

\* Importing what was exported gives the same maps, or panics over a source coin.
THEOREM ImportCorrect ==
    ASSUME ~EarlyRegistration
    PROVE  Spec => ImportReproduces
  <1> DEFINE Outcome ==
        IF \E d \in SourceDenom : exported.external[d] # None
        THEN phase' = "panicked"
        ELSE /\ phase' = "running"
             /\ external' = exported.external
             /\ auto' = exported.auto
             /\ denomOf' = exported.denomOf
  <1>1. ASSUME MappingInv, [Next]_vars, phase = "importing", phase' # "importing"
        PROVE  Outcome
    <2>1. CASE InitGenesisDone
      <3>1. /\ external = exported.external
            /\ auto = exported.auto
            /\ denomOf = exported.denomOf
        BY <1>1, <2>1, DoneLemma DEF InitGenesisDone
      <3>2. ~\E d \in SourceDenom : exported.external[d] # None
        BY <1>1, <3>1 DEF MappingInv, AutoNotSource
      <3> QED
        BY <2>1, <3>1, <3>2 DEF InitGenesisDone
    <2>2. ASSUME NEW d \in Denom, InitGenesisExternal(d)
          PROVE  Outcome
      <3>1. /\ phase' = "panicked" /\ genesis.external[d] # None
            /\ ~Bootstrappable(d) \/ denomOf[genesis.external[d]] # None
        BY <1>1, <2>2 DEF InitGenesisExternal, InitGenesisPanics
      <3>2. d \in SourceDenom /\ exported.external[d] # None
        BY <1>1, <3>1, ImportFacts, Constants
      <3> QED
        BY <3>1, <3>2
    <2>3. ASSUME NEW d \in Denom, InitGenesisAuto(d)
          PROVE  FALSE
      <3>1. genesis.auto[d] # None /\ ~Bootstrappable(d)
        BY <1>1, <2>3 DEF InitGenesisAuto, InitGenesisPanics
      <3> QED
        BY <1>1, <3>1, Constants DEF MappingInv, AutoNotSource
    <2> QED
      BY <1>1, <2>1, <2>2, <2>3
         DEF Next, vars, UpdateTokenMapping, TokenMappingChange, ConvertVouchers,
             UpdateParams, UpdatePermissions, ExportGenesis
  <1>2. MappingInv /\ [Next]_vars =>
           [phase = "importing" /\ phase' # "importing" => Outcome]_vars
    BY <1>1
  <1> QED
    BY <1>2, MappingInvariance, PTL DEF Spec, ImportReproduces
=============================================================================
