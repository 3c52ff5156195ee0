----------------------- MODULE TokenConversionProofs -----------------------
(***************************************************************************)
(* Proofs about the conversion, for all sets of denominations, contracts   *)
(* and accounts and any number of packets, when contracts are registered   *)
(* only once they have code: it implements the token mapping, and every    *)
(* token of a contract that the module deployed can be exchanged back.     *)
(* The sums (tokens and coins, gas tokens and vouchers, locked tokens and  *)
(* source coins) agree also without that condition.                        *)
(***************************************************************************)
EXTENDS TokenConversion, TokenMappingProofs, SetLemmas

\* Every step of the conversion is a step of the mapping or leaves it alone.
LEMMA StepRefines == [CNext]_allVars => [Next]_vars
  <1>1. CASE MappingStep
    BY <1>1 DEF MappingStep, Next
  <1>2. CASE \E d \in Denom : ConvertDeploys(d)
    BY <1>2 DEF ConvertDeploys, Next
  <1>3. CASE \E d \in Denom : \/ ConvertMapped(d) \/ OnRecvPacket(d) \/ Refund(d)
                              \/ AckSuccess(d) \/ TransferTokens(d)
    BY <1>3 DEF ConvertMapped, OnRecvPacket, Refund, AckSuccess, TransferTokens
  <1>4. CASE \E c \in Contract : \/ SendToIbc(c) \/ SendSourceToIbc(c) \/ SendToAccount(c)
                                 \/ SendToEvmChain(c) \/ LockForEvmChain(c)
    BY <1>4 DEF SendToIbc, SendSourceToIbc, SendToAccount, SendToEvmChain, LockForEvmChain
  <1>5. CASE \E g \in 1 .. MaxGas : TransferGas(g)
    BY <1>5 DEF TransferGas
  <1>6. CASE UNCHANGED allVars
    BY <1>6 DEF allVars
  <1> QED
    BY <1>1, <1>2, <1>3, <1>4, <1>5, <1>6 DEF CNext

\* The conversion implements the token mapping: converting, receiving, refunding
\* and sending change the maps only by the deployment of MsgConvertVouchers, so
\* that what is proved of the mapping holds of the conversion.
THEOREM ConversionImplementsMapping == CSpec => Spec
  <1>1. CInit => Init
    BY DEF CInit
  <1> QED
    BY <1>1, StepRefines, PTL DEF CSpec, Spec

-----------------------------------------------------------------------------
\* The invariant holds before any coin has been converted.
LEMMA ConversionInit == CInit => ConversionInv
  <1> SUFFICES ASSUME CInit PROVE ConversionInv
    OBVIOUS
  <1>1. MappingInv
    BY InitLemma DEF CInit
  <1>2. FundsType
    BY DEF CInit, FundsType, Zero
  <1>3. DeployedBacked
    BY DEF CInit, Init, DeployedBacked, Deployed, EmptyMap
  <1>4. FutureEmpty
    BY Constants DEF CInit, FutureEmpty, Zero
  <1> QED
    BY <1>1, <1>2, <1>3, <1>4 DEF ConversionInv

\* What the maps say about the contract of a coin: it is mapped back to it, so
\* that it is not still to be deployed, and it is the deployed contract of no
\* other coin.
LEMMA MappedContract ==
    ASSUME ConversionInv, phase = "running",
           NEW d \in Denom, NEW c \in Contract, denomOf[c] = d
    PROVE  /\ \A n \in Nonce : n >= nonce => ModuleAddress[n] # c
           /\ \A e \in Denom : Deployed(e) = c => e = d
  <1>1. None \notin Denom /\ None \notin Contract
    BY Constants
  <1>2. \A n \in Nonce : n >= nonce => ModuleAddress[n] # c
    BY <1>1 DEF ConversionInv, MappingInv, FutureUnmapped
  <1>3. \A e \in Denom : Deployed(e) = c => e = d
    BY <1>1 DEF ConversionInv, MappingInv, ReverseAgrees, Deployed
  <1> QED
    BY <1>2, <1>3

\* k coins and k tokens more; the zero address mints and burns nothing.
Moved(d, c, k) ==
    /\ burned' = burned
    /\ escrow' = [escrow EXCEPT ![d][c] = @ + k]
    /\ tokens' \in {tokens, [tokens EXCEPT ![c] = @ + k]}
    /\ c # ZeroAddress => tokens' = [tokens EXCEPT ![c] = @ + k]

\* A coin and a token more, or less, in the same place keep the balance.
LEMMA BothHalves ==
    ASSUME ConversionInv, phase = "running", UNCHANGED vars,
           NEW d \in Denom, NEW c \in Contract, denomOf[c] = d, NEW k \in Int,
           Moved(d, c, k)
    PROVE  FundsType' /\ DeployedBacked' /\ FutureEmpty'
  <1>1. FundsType /\ DeployedBacked /\ FutureEmpty
    BY DEF ConversionInv
  <1>2. /\ \A n \in Nonce : n >= nonce => ModuleAddress[n] # c
        /\ \A e \in Denom : Deployed(e) = c => e = d
    BY MappedContract
  <1>3. \A e \in Denom : Deployed(e)' = Deployed(e) /\ Deployed(e) \in Contract \cup {None}
    BY DEF ConversionInv, MappingInv, TypeOK, DenomMap, Deployed, vars
  <1>4. FundsType'
    BY <1>1 DEF FundsType, Moved
  <1>5. \A e \in Denom, x \in Contract : x # c => escrow'[e][x] = escrow[e][x] /\ tokens'[x] = tokens[x]
    BY <1>1 DEF FundsType, Moved
  <1>6. c # ZeroAddress => escrow'[d][c] = escrow[d][c] + k /\ tokens'[c] = tokens[c] + k
    BY <1>1 DEF FundsType, Moved
  <1>7. DeployedBacked'
    <2> SUFFICES ASSUME NEW e \in Denom, Deployed(e) # None
                 PROVE  /\ Deployed(e) # ZeroAddress
                        /\ escrow'[e][Deployed(e)] = tokens'[Deployed(e)] + burned[Deployed(e)]
      BY <1>3 DEF DeployedBacked, Moved
    <2>1. /\ Deployed(e) # ZeroAddress
          /\ escrow[e][Deployed(e)] = tokens[Deployed(e)] + burned[Deployed(e)]
      BY <1>1 DEF DeployedBacked
    <2>2. CASE Deployed(e) = c
      <3>1. tokens[c] \in Int /\ burned[c] \in Int
        BY <1>1 DEF FundsType
      <3> QED
        BY <2>1, <2>2, <3>1, <1>2, <1>6
    <2>3. CASE Deployed(e) # c
      BY <2>1, <2>3, <1>3, <1>5
    <2> QED
      BY <2>2, <2>3
  <1>8. FutureEmpty'
    <2> SUFFICES ASSUME NEW n \in Nonce, n >= nonce
                 PROVE  /\ tokens'[ModuleAddress[n]] = 0 /\ burned[ModuleAddress[n]] = 0
                        /\ \A e \in Denom : escrow'[e][ModuleAddress[n]] = 0
      BY DEF FutureEmpty, vars, Moved
    <2> QED
      BY <1>1, <1>2, <1>5, Constants DEF FutureEmpty
  <1> QED
    BY <1>4, <1>7, <1>8

\* Steps that move nothing between coins and tokens of a contract and do not
\* change the maps.
LEMMA NothingConverted ==
    ASSUME ConversionInv, UNCHANGED <<vars, escrow, tokens, burned>>
    PROVE  FundsType' /\ DeployedBacked' /\ FutureEmpty'
  BY DEF ConversionInv, FundsType, DeployedBacked, Deployed, FutureEmpty, vars

\* A token that is burned without its coin stays counted.
Stranded(c) ==
    /\ tokens[c] > 0 /\ UNCHANGED escrow
    /\ tokens' = Lose(tokens, c)
    /\ burned' = Gain(burned, c)

LEMMA StrandedFacts ==
    ASSUME FundsType, NEW c \in Contract, Stranded(c)
    PROVE  /\ FundsType'
           /\ \A x \in Contract : tokens'[x] + burned'[x] = tokens[x] + burned[x]
           /\ \A x \in Contract : x # c => tokens'[x] = tokens[x] /\ burned'[x] = burned[x]
  <1>1. /\ tokens \in [Contract -> Int] /\ burned \in [Contract -> Nat]
        /\ tokens' = [tokens EXCEPT ![c] = @ - 1] /\ burned' = [burned EXCEPT ![c] = @ + 1]
    BY DEF FundsType, Stranded, Gain, Lose
  <1>2. tokens' \in [Contract -> Int] /\ burned' \in [Contract -> Nat]
    BY <1>1
  <1>3. \A x \in Contract : x # c => tokens'[x] = tokens[x] /\ burned'[x] = burned[x]
    BY <1>1
  <1>4. tokens'[c] + burned'[c] = tokens[c] + burned[c]
    BY <1>1
  <1>5. FundsType'
    BY <1>2 DEF FundsType, Stranded
  <1> QED
    BY <1>3, <1>4, <1>5

LEMMA StrandedLemma ==
    ASSUME ConversionInv, phase = "running", UNCHANGED vars, NEW c \in Contract, Stranded(c)
    PROVE  FundsType' /\ DeployedBacked' /\ FutureEmpty'
  <1>1. /\ FundsType'
        /\ \A x \in Contract : tokens'[x] + burned'[x] = tokens[x] + burned[x]
        /\ \A x \in Contract : x # c => tokens'[x] = tokens[x] /\ burned'[x] = burned[x]
    BY StrandedFacts DEF ConversionInv
  <1>2. \A e \in Denom : Deployed(e)' = Deployed(e) /\ Deployed(e) \in Contract \cup {None}
    BY DEF ConversionInv, MappingInv, TypeOK, DenomMap, Deployed, vars
  <1>3. DeployedBacked'
    BY <1>1, <1>2 DEF ConversionInv, DeployedBacked, Stranded
  <1>4. \A n \in Nonce : n >= nonce => ModuleAddress[n] # c
    BY DEF ConversionInv, FutureEmpty, Stranded
  <1>5. FutureEmpty'
    BY <1>1, <1>4, Constants DEF ConversionInv, FutureEmpty, Stranded, vars
  <1> QED
    BY <1>1, <1>3, <1>5

\* The contract of a coin is mapped back to it.
LEMMA ContractOfCoin ==
    ASSUME ConversionInv, NEW d \in Denom, GetContractByDenom(d) # None
    PROVE  GetContractByDenom(d) \in Contract /\ denomOf[GetContractByDenom(d)] = d
  BY Constants
     DEF ConversionInv, MappingInv, TypeOK, DenomMap, ReverseAgrees, GetContractByDenom

LEMMA ToEvmLemma ==
    ASSUME ConversionInv, phase = "running", UNCHANGED <<vars, burned>>, NEW d \in Denom, ToEvm(d)
    PROVE  FundsType' /\ DeployedBacked' /\ FutureEmpty'
  <1>1. CASE ToGas(d)
    BY <1>1, NothingConverted DEF ToGas
  <1>2. ASSUME GetContractByDenom(d) # None, Unlock(GetContractByDenom(d))
        PROVE  FundsType' /\ DeployedBacked' /\ FutureEmpty'
    BY <1>2, NothingConverted DEF Unlock
  <1>3. ASSUME GetContractByDenom(d) # None, Mint(d, GetContractByDenom(d))
        PROVE  FundsType' /\ DeployedBacked' /\ FutureEmpty'
    <2> DEFINE c == GetContractByDenom(d)
    <2>1. c \in Contract /\ denomOf[c] = d
      BY <1>3, ContractOfCoin
    <2>2. Moved(d, c, 1)
      BY <1>3 DEF Mint, Gain, Moved
    <2> HIDE DEF c
    <2> QED
      BY <2>1, <2>2, 1 \in Int, BothHalves
  <1> QED
    BY <1>1, <1>2, <1>3 DEF ToEvm

LEMMA CreditLemma ==
    ASSUME ConversionInv, phase = "running", UNCHANGED <<vars, burned>>, NEW d \in Denom, Credit(d)
    PROVE  FundsType' /\ DeployedBacked' /\ FutureEmpty'
  BY ToEvmLemma, NothingConverted DEF Credit

\* A contract that gives a voucher back burns a token.
LEMMA BurnLemma ==
    ASSUME ConversionInv, phase = "running", UNCHANGED <<vars, burned>>,
           NEW c \in Contract, denomOf[c] \in Denom,
           tokens' = Lose(tokens, c),
           escrow' = [escrow EXCEPT ![denomOf[c]][c] = @ - 1]
    PROVE  FundsType' /\ DeployedBacked' /\ FutureEmpty'
  <1>1. Moved(denomOf[c], c, -1)
    BY DEF ConversionInv, FundsType, Lose, Moved
  <1> QED
    BY <1>1, -1 \in Int, BothHalves

\* A contract is deployed at an address that holds nothing, and gets its first
\* coin and token.
LEMMA DeployLemma ==
    ASSUME ConversionInv, NEW d \in Denom, ConvertDeploys(d)
    PROVE  FundsType' /\ DeployedBacked' /\ FutureEmpty'
  <1> DEFINE c == ModuleAddress[nonce]
  <1>1. /\ nonce \in Nonce /\ nonce + 1 \in Nonce /\ c \in Contract /\ c # ZeroAddress
        /\ tokens[c] = 0 /\ burned[c] = 0 /\ \A e \in Denom : escrow[e][c] = 0
        /\ denomOf[c] = None
    BY Constants, MappingAssumption
       DEF ConvertDeploys, ConvertVouchers, ConvertCoinFromNativeToCRC21, DeployModuleCRC21,
           ConversionInv, MappingInv, TypeOK, FutureEmpty, FutureUnmapped, Nonce
  <1>2. /\ auto' = [auto EXCEPT ![d] = c] /\ nonce' = nonce + 1
        /\ phase = "running" /\ phase' = "running"
    BY DEF ConvertDeploys, ConvertVouchers, ConvertCoinFromNativeToCRC21, DeployModuleCRC21,
           SetAutoContractForDenom
  <1>3. auto \in [Denom -> Contract \cup {None}] /\ FundsType
    BY DEF ConversionInv, MappingInv, TypeOK, DenomMap
  <1>4. auto'[d] = c
    BY <1>2, <1>3
  <1>5. /\ escrow' = [escrow EXCEPT ![d][c] = @ + 1] /\ tokens' = [tokens EXCEPT ![c] = @ + 1]
        /\ burned' = burned
    BY <1>1, <1>4 DEF ConvertDeploys, Mint, Gain
  <1>6. \A e \in Denom, x \in Contract : x # c => escrow'[e][x] = escrow[e][x] /\ tokens'[x] = tokens[x]
    BY <1>3, <1>5 DEF FundsType
  <1>7. escrow'[d][c] = 1 /\ tokens'[c] = 1
    BY <1>1, <1>3, <1>5 DEF FundsType
  <1> HIDE DEF c
  <1>8. FundsType'
    BY <1>1, <1>3, <1>5 DEF FundsType
  <1>9. DeployedBacked'
    <2> SUFFICES ASSUME NEW e \in Denom, auto'[e] # None
                 PROVE  /\ auto'[e] # ZeroAddress
                        /\ escrow'[e][auto'[e]] = tokens'[auto'[e]] + burned[auto'[e]]
      BY <1>2, <1>5 DEF DeployedBacked, Deployed
    <2>1. CASE e = d
      BY <2>1, <1>1, <1>4, <1>7
    <2>2. CASE e # d
      <3>1. auto'[e] = auto[e] /\ auto[e] \in Contract
        BY <2>2, <1>2, <1>3
      <3>2. auto[e] # c
        BY <3>1, <1>1, Constants DEF ConversionInv, MappingInv, ReverseAgrees
      <3>3. auto[e] # ZeroAddress /\ escrow[e][auto[e]] = tokens[auto[e]] + burned[auto[e]]
        BY <3>1, <1>2 DEF ConversionInv, DeployedBacked, Deployed
      <3> QED
        BY <3>1, <3>2, <3>3, <1>6
    <2> QED
      BY <2>1, <2>2
  <1>10. FutureEmpty'
    <2> SUFFICES ASSUME NEW n \in Nonce, n >= nonce + 1
                 PROVE  /\ tokens'[ModuleAddress[n]] = 0 /\ burned[ModuleAddress[n]] = 0
                        /\ \A e \in Denom : escrow'[e][ModuleAddress[n]] = 0
      BY <1>2, <1>5 DEF FutureEmpty
    <2>1. n >= nonce /\ ModuleAddress[n] # c /\ ModuleAddress[n] \in Contract
      BY <1>1, MappingAssumption, Constants DEF Nonce, c
    <2> QED
      BY <2>1, <1>6 DEF ConversionInv, FutureEmpty
  <1> QED
    BY <1>8, <1>9, <1>10

\* Changes of the mapping, exports and imports leave the deployed contracts and
\* the funds as they are.
LEMMA MappingStepLemma ==
    ASSUME ConversionInv, MappingStep, UNCHANGED funds
    PROVE  FundsType' /\ DeployedBacked' /\ FutureEmpty'
  <1>1. UNCHANGED <<escrow, tokens, burned>>
    BY DEF funds
  <1>2. nonce' = nonce
    BY DEF MappingStep, UpdateTokenMapping, TokenMappingChange, UpdateParams,
           UpdatePermissions, ExportGenesis, InitGenesisExternal, InitGenesisAuto,
           InitGenesisDone, InitGenesisPanics
  <1>3. FundsType' /\ FutureEmpty'
    BY <1>1, <1>2 DEF ConversionInv, FundsType, FutureEmpty
  <1>4. \A d \in Denom : Deployed(d)' = Deployed(d)
    <2>1. CASE UNCHANGED <<auto, phase, exported>>
      BY <2>1 DEF Deployed
    <2>2. CASE ExportGenesis
      BY <2>2 DEF ExportGenesis, Deployed, Store
    <2>3. CASE InitGenesisDone
      BY <2>3, Constants
         DEF InitGenesisDone, Deployed, ConversionInv, MappingInv, ImportInv, NoGenesis, EmptyMap
    <2>4. CASE (\E d \in Denom : InitGenesisExternal(d)) \/ (\E d \in Denom : InitGenesisAuto(d))
      BY <2>4 DEF InitGenesisExternal, InitGenesisAuto, InitGenesisPanics, Deployed
    <2> QED
      BY <2>1, <2>2, <2>3, <2>4
         DEF MappingStep, UpdateTokenMapping, TokenMappingChange, UpdateParams, UpdatePermissions
  <1>5. DeployedBacked'
    BY <1>1, <1>4 DEF ConversionInv, DeployedBacked
  <1> QED
    BY <1>3, <1>5

\* Every step preserves the invariant.
LEMMA ConversionNext ==
    ASSUME ~EarlyRegistration, ConversionInv, [CNext]_allVars
    PROVE  ConversionInv'
  <1>1. MappingInv'
    BY StepRefines, NextLemma DEF ConversionInv
  <1>2. CASE MappingStep /\ UNCHANGED funds
    BY <1>1, <1>2, MappingStepLemma DEF ConversionInv
  <1>3. CASE \E d \in Denom : ConvertMapped(d)
    BY <1>1, <1>3, ToEvmLemma DEF ConvertMapped, ConversionInv
  <1>4. CASE \E d \in Denom : ConvertDeploys(d)
    BY <1>1, <1>4, DeployLemma DEF ConversionInv
  <1>5. CASE \E d \in Denom : OnRecvPacket(d) \/ Refund(d)
    BY <1>1, <1>5, CreditLemma DEF OnRecvPacket, Refund, ConversionInv
  <1>6. CASE \E d \in Denom : AckSuccess(d) \/ TransferTokens(d)
    BY <1>1, <1>6, NothingConverted DEF AckSuccess, TransferTokens, ConversionInv
  <1>7. CASE \E c \in Contract : SendToIbc(c) \/ SendToAccount(c)
    <2> PICK c \in Contract : SendToIbc(c) \/ SendToAccount(c)
      BY <1>7
    <2>1. denomOf[c] \in Denom
      BY Constants DEF SendToIbc, SendToAccount, ConversionInv, MappingInv, TypeOK
    <2> QED
      BY <1>1, <2>1, BurnLemma DEF SendToIbc, SendToAccount, ConversionInv
  <1>8. CASE \E c \in Contract : SendSourceToIbc(c) \/ LockForEvmChain(c)
    BY <1>1, <1>8, NothingConverted DEF SendSourceToIbc, LockForEvmChain, ConversionInv
  <1>11. CASE \E c \in Contract : SendToEvmChain(c)
    BY <1>1, <1>11, StrandedLemma DEF SendToEvmChain, Stranded, ConversionInv
  <1>9. CASE \E g \in 1 .. MaxGas : TransferGas(g)
    BY <1>1, <1>9, NothingConverted DEF TransferGas, ConversionInv
  <1>10. CASE UNCHANGED allVars
    BY <1>1, <1>10, NothingConverted DEF allVars, funds, ConversionInv
  <1> QED
    BY <1>2, <1>3, <1>4, <1>5, <1>6, <1>7, <1>8, <1>9, <1>10, <1>11 DEF CNext

\* Every token of a contract that the module deployed can be exchanged for the
\* coin it was minted for, in every reachable state: after any conversions,
\* refunds, burns of send_to_evm_chain, changes of the mapping, and an export and
\* import of the chain.
THEOREM TokensRedeemable ==
    ASSUME ~EarlyRegistration
    PROVE  CSpec => []AutoTokensRedeemable
  <1>1. CInit => ConversionInv
    BY ConversionInit
  <1>2. ConversionInv /\ [CNext]_allVars => ConversionInv'
    BY ConversionNext
  <1>3. ConversionInv => AutoTokensRedeemable
    <2> SUFFICES ASSUME ConversionInv, phase = "running", NEW d \in Denom, auto[d] # None
                 PROVE  denomOf[auto[d]] = d /\ tokens[auto[d]] =< escrow[d][auto[d]]
      BY DEF AutoTokensRedeemable
    <2>1. auto[d] \in Contract /\ denomOf[auto[d]] = d
      BY DEF ConversionInv, MappingInv, TypeOK, DenomMap, ReverseAgrees
    <2>2. escrow[d][auto[d]] = tokens[auto[d]] + burned[auto[d]]
      BY DEF ConversionInv, DeployedBacked, Deployed
    <2>3. tokens[auto[d]] \in Int /\ burned[auto[d]] \in Nat
      BY <2>1 DEF ConversionInv, FundsType
    <2> QED
      BY <2>1, <2>2, <2>3
  <1> QED
    BY <1>1, <1>2, <1>3, PTL DEF CSpec

-----------------------------------------------------------------------------
(***************************************************************************)
(* The sums.                                                               *)
(***************************************************************************)
\* The fold of the library is the sum of SetLemmas.
LEMMA TotalIsSum ==
    ASSUME NEW f
    PROVE  Total(f) = SumOver(f, DOMAIN f)
  BY Zenon DEF Total, MapThenSumSet, MapThenFoldSet, SumOver, IsSum, SumStep, Pick

\* The total is an integer, and changes with one value as much as it does.
LEMMA TotalMove ==
    ASSUME NEW S, IsFiniteSet(S), NEW a \in S, NEW f \in [S -> Int], NEW e \in [S -> Int],
           \A x \in S : x # a => e[x] = f[x]
    PROVE  Total(f) \in Int /\ Total(e) = Total(f) + (e[a] - f[a])
  <1>1. Total(f) = SumOver(f, S) /\ Total(e) = SumOver(e, S)
    BY TotalIsSum
  <1>2. (\A x \in S : f[x] \in Int) /\ (\A x \in S : e[x] \in Int)
    OBVIOUS
  <1>3. SumOver(f, S) \in Int
    BY <1>2, SumOverInt
  <1>4. SumOver(e, S) = SumOver(f, S) + (e[a] - f[a])
    BY <1>2, SumOverMove
  <1> QED
    BY <1>1, <1>3, <1>4

\* The total of zeros.
LEMMA TotalZero ==
    ASSUME NEW S, IsFiniteSet(S), NEW f \in [S -> Int], \A x \in S : f[x] = 0
    PROVE  Total(f) = 0
  BY TotalIsSum, SumOverZero

\* The totals of equal functions; a total is an integer.
LEMMA TotalInt ==
    ASSUME NEW S, IsFiniteSet(S), NEW f \in [S -> Int]
    PROVE  Total(f) \in Int
  BY TotalIsSum, SumOverInt

\* The contract of a coin, as far as the types tell.
LEMMA ContractType ==
    ASSUME TypeOK, NEW d \in Denom, GetContractByDenom(d) # None
    PROVE  GetContractByDenom(d) \in Contract
  BY DEF TypeOK, DenomMap, GetContractByDenom

\* What a step does to the tokens of contracts and the coins in their accounts:
\* nothing, or a coin of a contract that mints comes or goes with its token, or the
\* token is burned without it.
EscrowMoves ==
    \/ UNCHANGED <<escrow, tokens, burned>>
    \/ \E c \in Contract : Stranded(c)
    \/ \E d \in Denom, c \in Contract : Moved(d, c, 1) /\ ~IsSourceCoin(d)
    \/ \E d \in Denom, c \in Contract : Moved(d, c, -1) /\ escrow[d][c] > 0

LEMMA MintMoves ==
    ASSUME NEW d \in Denom, NEW c \in Contract, Mint(d, c), ~IsSourceCoin(d), UNCHANGED burned
    PROVE  EscrowMoves
  <1>1. Moved(d, c, 1)
    BY DEF Mint, Gain, Moved
  <1> QED
    BY <1>1 DEF EscrowMoves

LEMMA ToEvmMoves ==
    ASSUME TypeOK, NEW d \in Denom, ToEvm(d), UNCHANGED burned
    PROVE  EscrowMoves
  <1>1. CASE ToGas(d)
    BY <1>1 DEF ToGas, EscrowMoves
  <1>2. ASSUME NEW c, Unlock(c) PROVE EscrowMoves
    BY <1>2 DEF Unlock, EscrowMoves
  <1> QED
    BY <1>1, <1>2, ContractType, MintMoves DEF ToEvm

\* The contract that MsgConvertVouchers deploys.
LEMMA DeployFacts ==
    ASSUME TypeOK, NEW d \in Denom, ConvertDeploys(d)
    PROVE  auto'[d] \in Contract /\ ~IsSourceCoin(d)
  BY DEF ConvertDeploys, ConvertVouchers, ConvertCoinFromNativeToCRC21,
         SetAutoContractForDenom, TypeOK, DenomMap

LEMMA BurnMoves ==
    ASSUME FundsType, NEW c \in Contract, NEW d \in Denom, escrow[d][c] > 0, UNCHANGED burned,
           tokens' = Lose(tokens, c), escrow' = [escrow EXCEPT ![d][c] = @ - 1]
    PROVE  EscrowMoves
  <1>1. Moved(d, c, -1)
    BY DEF FundsType, Lose, Moved
  <1> QED
    BY <1>1 DEF EscrowMoves

LEMMA EveryStepMoves ==
    ASSUME TypeOK, FundsType, [CNext]_allVars
    PROVE  EscrowMoves
  <1>1. CASE MappingStep /\ UNCHANGED funds
    BY <1>1 DEF funds, EscrowMoves
  <1>2. CASE \E d \in Denom : ConvertMapped(d) \/ OnRecvPacket(d) \/ Refund(d)
    BY <1>2, ToEvmMoves DEF ConvertMapped, OnRecvPacket, Refund, Credit, EscrowMoves
  <1>3. CASE \E d \in Denom : ConvertDeploys(d)
    BY <1>3, DeployFacts, MintMoves DEF ConvertDeploys
  <1>4. CASE \E d \in Denom : AckSuccess(d) \/ TransferTokens(d)
    BY <1>4 DEF AckSuccess, TransferTokens, EscrowMoves
  <1>5. CASE \E c \in Contract : SendToIbc(c) \/ SendToAccount(c)
    <2> PICK c \in Contract : SendToIbc(c) \/ SendToAccount(c)
      BY <1>5
    <2>1. denomOf[c] \in Denom
      BY Constants DEF SendToIbc, SendToAccount, TypeOK
    <2> QED
      BY <2>1, BurnMoves DEF SendToIbc, SendToAccount
  <1>6. CASE \E c \in Contract : SendSourceToIbc(c) \/ LockForEvmChain(c)
    BY <1>6 DEF SendSourceToIbc, LockForEvmChain, EscrowMoves
  <1>9. CASE \E c \in Contract : SendToEvmChain(c)
    BY <1>9 DEF SendToEvmChain, Stranded, EscrowMoves
  <1>7. CASE \E g \in 1 .. MaxGas : TransferGas(g)
    BY <1>7 DEF TransferGas, EscrowMoves
  <1>8. CASE UNCHANGED allVars
    BY <1>8 DEF allVars, funds, EscrowMoves
  <1> QED
    BY <1>1, <1>2, <1>3, <1>4, <1>5, <1>6, <1>7, <1>8, <1>9 DEF CNext

\* Coins and tokens of a contract move together.
LEMMA MovedBacked ==
    ASSUME FundsType, TokensBacked, NEW d \in Denom, NEW c \in Contract, NEW k \in Int,
           Moved(d, c, k)
    PROVE  FundsType' /\ TokensBacked'
  <1>1. FundsType'
    BY DEF FundsType, Moved
  <1>2. ASSUME NEW x \in Contract, x # ZeroAddress
        PROVE  tokens'[x] + burned[x] = Total([e \in Denom |-> escrow'[e][x]])
    <2> DEFINE f == [e \in Denom |-> escrow[e][x]]
               g == [e \in Denom |-> escrow'[e][x]]
    <2>1. f \in [Denom -> Int] /\ g \in [Denom -> Int]
      BY <1>1 DEF FundsType
    <2>2. tokens[x] + burned[x] = Total(f) /\ tokens[x] \in Int /\ burned[x] \in Int
      BY <1>2 DEF TokensBacked, FundsType
    <2>3. CASE x = c
      <3>1. \A e \in Denom : e # d => g[e] = f[e]
        BY DEF Moved, FundsType
      <3>2. g[d] = f[d] + k /\ f[d] \in Int /\ tokens'[x] = tokens[x] + k
        BY <1>2, <2>3 DEF Moved, FundsType
      <3> HIDE DEF f, g
      <3>3. Total(f) \in Int /\ Total(g) = Total(f) + (g[d] - f[d])
        BY <2>1, <3>1, TotalMove, ConversionAssumption
      <3>4. tokens'[x] + burned[x] = Total(g)
        BY <2>2, <3>2, <3>3
      <3> QED
        BY <3>4 DEF g
    <2>4. CASE x # c
      <3>1. f = g /\ tokens'[x] = tokens[x]
        BY <2>4 DEF Moved, FundsType
      <3> QED
        BY <2>2, <3>1
    <2> QED
      BY <2>3, <2>4
  <1> QED
    BY <1>1, <1>2 DEF TokensBacked, Moved

LEMMA EscrowBooks ==
    ASSUME BooksInv, EscrowMoves
    PROVE  FundsType' /\ TokensBacked' /\ SourceNotEscrowed'
  <1>1. FundsType /\ TokensBacked /\ SourceNotEscrowed
    BY DEF BooksInv
  <1>2. CASE UNCHANGED <<escrow, tokens, burned>>
    BY <1>1, <1>2 DEF FundsType, TokensBacked, SourceNotEscrowed
  <1>5. ASSUME NEW c \in Contract, Stranded(c)
        PROVE  FundsType' /\ TokensBacked' /\ SourceNotEscrowed'
    <2>1. FundsType' /\ \A x \in Contract : tokens'[x] + burned'[x] = tokens[x] + burned[x]
      BY <1>1, <1>5, StrandedFacts
    <2>2. escrow' = escrow
      BY <1>5 DEF Stranded
    <2>3. TokensBacked'
      BY <1>1, <2>1, <2>2 DEF TokensBacked
    <2> QED
      BY <1>1, <2>1, <2>2, <2>3 DEF SourceNotEscrowed
  <1>3. ASSUME NEW d \in Denom, NEW c \in Contract, Moved(d, c, 1), ~IsSourceCoin(d)
        PROVE  FundsType' /\ TokensBacked' /\ SourceNotEscrowed'
    <2>1. FundsType' /\ TokensBacked'
      BY <1>1, <1>3, 1 \in Int, MovedBacked
    <2>2. SourceNotEscrowed'
      BY <1>1, <1>3, Constants DEF Moved, FundsType, SourceNotEscrowed, IsSourceCoin
    <2> QED
      BY <2>1, <2>2
  <1>4. ASSUME NEW d \in Denom, NEW c \in Contract, Moved(d, c, -1), escrow[d][c] > 0
        PROVE  FundsType' /\ TokensBacked' /\ SourceNotEscrowed'
    <2>1. FundsType' /\ TokensBacked'
      BY <1>1, <1>4, -1 \in Int, MovedBacked
    <2>2. d \notin SourceDenom
      BY <1>1, <1>4 DEF SourceNotEscrowed
    <2>3. SourceNotEscrowed'
      BY <1>1, <1>4, <2>2, Constants DEF Moved, FundsType, SourceNotEscrowed
    <2> QED
      BY <2>1, <2>3
  <1> QED
    BY <1>2, <1>3, <1>4, <1>5 DEF EscrowMoves

-----------------------------------------------------------------------------
\* What a step does to the gas tokens: vouchers and the gas tokens for them come
\* and go together.
GasMoves ==
    \/ UNCHANGED <<held, minted>>
    \/ \E d \in Denom, k \in Int :
          held' = [held EXCEPT ![d] = @ + k] /\ minted' = minted + Scale * k

\* What is sent of an amount of gas tokens, without the remainder, is a number of
\* whole vouchers.
LEMMA WholeVouchers ==
    ASSUME NEW g \in Int
    PROVE  g \div Scale \in Int /\ g - (g % Scale) = Scale * (g \div Scale)
  BY ConversionAssumption

LEMMA GasSent ==
    ASSUME TypeOK, BooksType, NEW g \in Int, TransferGas(g)
    PROVE  GasMoves
  <1>1. PICK k \in Int : k = -(g \div Scale)
    BY WholeVouchers
  <1>2. params.ibcCroDenom \in Denom
    BY Constants DEF TypeOK, Params
  <1>3. PICK d \in Denom : d = params.ibcCroDenom
    BY <1>2
  <1>4. held' = [held EXCEPT ![d] = @ + k]
    BY <1>1, <1>3, WholeVouchers DEF TransferGas, BooksType
  <1>5. minted' = minted - Scale * (g \div Scale)
    BY WholeVouchers DEF TransferGas
  <1>6. minted' = minted + Scale * k
    BY <1>1, <1>5, WholeVouchers, ConversionAssumption DEF BooksType
  <1> QED
    BY <1>4, <1>6 DEF GasMoves

LEMMA GasMinted ==
    ASSUME NEW d \in Denom, ToEvm(d)
    PROVE  GasMoves
  <1>1. CASE ToGas(d)
    <2>1. held' = [held EXCEPT ![d] = @ + 1] /\ minted' = minted + Scale * 1
      BY <1>1, ConversionAssumption DEF ToGas, Gain
    <2> QED
      BY <2>1, 1 \in Int DEF GasMoves
  <1>2. ASSUME NEW c, Unlock(c) \/ Mint(d, c) PROVE GasMoves
    BY <1>2 DEF Unlock, Mint, GasMoves
  <1> QED
    BY <1>1, <1>2 DEF ToEvm

LEMMA EveryStepMovesGas ==
    ASSUME TypeOK, BooksType, [CNext]_allVars
    PROVE  GasMoves
  <1>1. CASE MappingStep /\ UNCHANGED funds
    BY <1>1 DEF funds, GasMoves
  <1>2. CASE \E d \in Denom : ConvertMapped(d) \/ OnRecvPacket(d) \/ Refund(d)
    BY <1>2, GasMinted DEF ConvertMapped, OnRecvPacket, Refund, Credit, GasMoves
  <1>3. CASE \E d \in Denom : ConvertDeploys(d) \/ AckSuccess(d) \/ TransferTokens(d)
    BY <1>3 DEF ConvertDeploys, Mint, AckSuccess, TransferTokens, GasMoves
  <1>4. CASE \E c \in Contract : \/ SendToIbc(c) \/ SendSourceToIbc(c) \/ SendToAccount(c)
                                 \/ SendToEvmChain(c) \/ LockForEvmChain(c)
    BY <1>4 DEF SendToIbc, SendSourceToIbc, SendToAccount, SendToEvmChain, LockForEvmChain, GasMoves
  <1>5. CASE \E g \in 1 .. MaxGas : TransferGas(g)
    BY <1>5, GasSent, ConversionAssumption
  <1>6. CASE UNCHANGED allVars
    BY <1>6 DEF allVars, funds, GasMoves
  <1> QED
    BY <1>1, <1>2, <1>3, <1>4, <1>5, <1>6 DEF CNext

LEMMA GasBooks ==
    ASSUME BooksType, GasTokenBacked, GasMoves
    PROVE  held' \in [Denom -> Int] /\ minted' \in Int /\ GasTokenBacked'
  <1>1. held \in [Denom -> Int] /\ minted \in Int
    BY DEF BooksType
  <1>2. CASE UNCHANGED <<held, minted>>
    BY <1>1, <1>2 DEF GasTokenBacked
  <1>3. ASSUME NEW d \in Denom, NEW k \in Int,
               held' = [held EXCEPT ![d] = @ + k], minted' = minted + Scale * k
        PROVE  held' \in [Denom -> Int] /\ minted' \in Int /\ GasTokenBacked'
    <2>1. held' \in [Denom -> Int] /\ held'[d] - held[d] = k
      BY <1>1, <1>3
    <2>2. \A x \in Denom : x # d => held'[x] = held[x]
      BY <1>1, <1>3
    <2>3. Total(held) \in Int /\ Total(held') = Total(held) + (held'[d] - held[d])
      BY <1>1, <2>1, <2>2, TotalMove, ConversionAssumption
    <2>4. Total(held) \in Int /\ Total(held') = Total(held) + k
      BY <2>1, <2>3
    <2>5. \A s, a, b \in Int : s * (a + b) = s * a + s * b
      OBVIOUS
    <2>6. Scale * (Total(held) + k) = Scale * Total(held) + Scale * k
      BY <2>4, <2>5, ConversionAssumption
    <2>7. minted' = Scale * Total(held')
      BY <1>3, <2>4, <2>6 DEF GasTokenBacked
    <2>8. minted' \in Int
      BY <1>1, <1>3, ConversionAssumption
    <2> QED
      BY <2>1, <2>7, <2>8 DEF GasTokenBacked
  <1> QED
    BY <1>2, <1>3 DEF GasMoves

-----------------------------------------------------------------------------
\* The coins of d with users here, on their way or on other chains.
Out(d) == coins[d] + sent[d] + abroad[d]

\* What a step does to the source coins: nothing, or one more or less with the
\* token locked for it; some of them may be lost to the zero address, and tokens may
\* be locked for a chain that nobody serves.
SourceMoves ==
    \/ (\A d \in SourceDenom : Out(d)' = Out(d)) /\ locked' = locked
    \/ /\ \A d \in SourceDenom : Out(d)' = Out(d)
       /\ \E c \in Contract : locked' = [locked EXCEPT ![c] = @ + 1]
    \/ \E s \in SourceDenom, k \in Int :
          /\ \A d \in SourceDenom : d # s => Out(d)' = Out(d)
          /\ Out(s)' = Out(s) + k
          /\ \/ k =< 0 /\ locked' = locked
             \/ \E c \in Contract : locked' = [locked EXCEPT ![c] = @ + k]

LEMMA OutInt ==
    ASSUME BooksType, NEW d \in Denom
    PROVE  Out(d) \in Int /\ coins[d] \in Int /\ sent[d] \in Int /\ abroad[d] \in Int
  BY DEF BooksType, Out

\* The types of what a step changes.
LEMMA GainLoseType ==
    ASSUME NEW S, NEW f \in [S -> Int], NEW x \in S
    PROVE  /\ Gain(f, x) \in [S -> Int] /\ Lose(f, x) \in [S -> Int]
           /\ Gain(f, x)[x] = f[x] + 1 /\ Lose(f, x)[x] = f[x] - 1
           /\ \A y \in S : y # x => Gain(f, x)[y] = f[y] /\ Lose(f, x)[y] = f[y]
  BY DEF Gain, Lose

\* A step that is about a coin that is not a source coin.
LEMMA OtherCoin ==
    ASSUME NEW d \in Denom, ~IsSourceCoin(d), locked' = locked,
           \A x \in Denom : x # d => Out(x)' = Out(x)
    PROVE  SourceMoves
  BY Constants DEF SourceMoves, IsSourceCoin

\* Conversion to the EVM releases a token of the module at most for a source coin.
LEMMA ToEvmUnlocks ==
    ASSUME TypeOK, NEW d \in Denom, ToEvm(d)
    PROVE  \/ locked' = locked
           \/ IsSourceCoin(d) /\ \E c \in Contract : locked' = Lose(locked, c)
  <1>1. CASE ToGas(d)
    BY <1>1 DEF ToGas
  <1>2. CASE GetContractByDenom(d) # None /\ IsSourceCoin(d) /\ Unlock(GetContractByDenom(d))
    BY <1>2, ContractType DEF Unlock
  <1>3. CASE Mint(d, GetContractByDenom(d))
    BY <1>3 DEF Mint
  <1> QED
    BY <1>1, <1>2, <1>3 DEF ToEvm

\* A coin that leaves the users' books, converted to a token.
LEMMA Converted ==
    ASSUME TypeOK, BooksType, NEW d \in Denom, ToEvm(d),
           \A x \in Denom : x # d => Out(x)' = Out(x),
           Out(d)' = Out(d) - 1
    PROVE  SourceMoves
  <1>1. CASE ~IsSourceCoin(d)
    BY <1>1, ToEvmUnlocks, OtherCoin
  <1>2. CASE IsSourceCoin(d)
    <2>1. d \in SourceDenom /\ Out(d)' = Out(d) + (-1) /\ -1 \in Int /\ -1 =< 0
      BY <1>2, OutInt DEF IsSourceCoin
    <2>2. \A x \in SourceDenom : x # d => Out(x)' = Out(x)
      BY Constants
    <2>3. locked' = locked \/ \E c \in Contract : locked' = [locked EXCEPT ![c] = @ + (-1)]
      <3>1. ASSUME NEW c \in Contract, locked' = Lose(locked, c)
            PROVE  locked' = [locked EXCEPT ![c] = @ + (-1)]
        BY <3>1 DEF Lose, BooksType
      <3> QED
        BY <3>1, ToEvmUnlocks
    <2> QED
      BY <2>1, <2>2, <2>3 DEF SourceMoves
  <1> QED
    BY <1>1, <1>2

\* A coin that arrives or returns and is credited; before, a source coin was away.
LEMMA CreditSource ==
    ASSUME TypeOK, BooksType, NEW d \in Denom, Credit(d),
           \A x \in Denom : x # d => (sent'[x] = sent[x] /\ abroad'[x] = abroad[x]),
           \/ ~IsSourceCoin(d)
           \/ sent'[d] + abroad'[d] = sent[d] + abroad[d] - 1 /\ sent'[d] \in Int /\ abroad'[d] \in Int
    PROVE  SourceMoves
  <1>1. CASE ToEvm(d) /\ coins' = coins
    <2>1. \A x \in Denom : x # d => Out(x)' = Out(x)
      BY <1>1 DEF Out
    <2>2. CASE ~IsSourceCoin(d)
      BY <1>1, <2>1, <2>2, ToEvmUnlocks, OtherCoin
    <2>3. CASE IsSourceCoin(d)
      <3>1. Out(d)' = Out(d) - 1
        BY <1>1, <2>3, OutInt DEF Out
      <3> QED
        BY <1>1, <2>1, <3>1, Converted
    <2> QED
      BY <2>2, <2>3
  <1>2. CASE coins' = Gain(coins, d) /\ locked' = locked
    <2>1. /\ coins'[d] = coins[d] + 1
          /\ \A x \in Denom : x # d => coins'[x] = coins[x]
      BY <1>2, GainLoseType DEF BooksType
    <2>2. \A x \in Denom : x # d => Out(x)' = Out(x)
      BY <2>1 DEF Out
    <2>3. CASE ~IsSourceCoin(d)
      BY <1>2, <2>2, <2>3, OtherCoin
    <2>4. CASE IsSourceCoin(d)
      <3>1. Out(d)' = Out(d)
        <4>1. coins[d] \in Int /\ sent[d] \in Int /\ abroad[d] \in Int
          BY OutInt
        <4>2. /\ sent'[d] + abroad'[d] = sent[d] + abroad[d] - 1
              /\ sent'[d] \in Int /\ abroad'[d] \in Int
          BY <2>4
        <4> QED
          BY <2>1, <4>1, <4>2 DEF Out
      <3> QED
        BY <1>2, <2>2, <3>1, Constants DEF SourceMoves
    <2> QED
      BY <2>3, <2>4
  <1> QED
    BY <1>1, <1>2 DEF Credit

LEMMA EveryStepMovesSource ==
    ASSUME BooksInv, [CNext]_allVars
    PROVE  SourceMoves
  <1>0. /\ TypeOK /\ BooksType
        /\ coins \in [Denom -> Int] /\ sent \in [Denom -> Int] /\ abroad \in [Denom -> Int]
    BY DEF BooksInv, BooksType
  <1>1. CASE (MappingStep /\ UNCHANGED funds) \/ UNCHANGED allVars
    BY <1>1 DEF funds, allVars, Out, SourceMoves
  <1>2. ASSUME NEW d \in Denom, ConvertMapped(d) PROVE SourceMoves
    <2>1. /\ coins'[d] = coins[d] - 1
          /\ \A x \in Denom : x # d => coins'[x] = coins[x]
      BY <1>0, <1>2, GainLoseType DEF ConvertMapped
    <2>2. (\A x \in Denom : x # d => Out(x)' = Out(x)) /\ Out(d)' = Out(d) - 1
      BY <1>0, <1>2, <2>1, OutInt DEF ConvertMapped, Out
    <2> QED
      BY <1>0, <1>2, <2>2, Converted DEF ConvertMapped
  <1>3. ASSUME NEW d \in Denom, ConvertDeploys(d) PROVE SourceMoves
    <2>1. \A x \in Denom : x # d => coins'[x] = coins[x]
      BY <1>0, <1>3, GainLoseType DEF ConvertDeploys
    <2>2. \A x \in Denom : x # d => Out(x)' = Out(x)
      BY <1>3, <2>1 DEF ConvertDeploys, Out
    <2> QED
      BY <1>0, <1>3, <2>2, DeployFacts, OtherCoin DEF ConvertDeploys, Mint
  <1>4. ASSUME NEW d \in Denom, OnRecvPacket(d) PROVE SourceMoves
    <2>1. CASE d \in IbcDenom /\ UNCHANGED abroad
      <3>1. ~IsSourceCoin(d)
        BY <2>1, MappingAssumption DEF IsSourceCoin
      <3> QED
        BY <1>0, <1>4, <2>1, <3>1, CreditSource DEF OnRecvPacket
    <2>2. CASE abroad' = Lose(abroad, d)
      <3>1. /\ abroad'[d] = abroad[d] - 1
            /\ \A x \in Denom : x # d => abroad'[x] = abroad[x]
        BY <1>0, <2>2, GainLoseType
      <3>2. /\ sent'[d] + abroad'[d] = sent[d] + abroad[d] - 1
            /\ sent'[d] \in Int /\ abroad'[d] \in Int
        BY <1>0, <1>4, <3>1, OutInt DEF OnRecvPacket
      <3> QED
        BY <1>0, <1>4, <3>1, <3>2, CreditSource DEF OnRecvPacket
    <2> QED
      BY <1>4, <2>1, <2>2 DEF OnRecvPacket
  <1>5. ASSUME NEW d \in Denom, Refund(d) PROVE SourceMoves
    <2>1. /\ sent'[d] = sent[d] - 1
          /\ \A x \in Denom : x # d => sent'[x] = sent[x]
      BY <1>0, <1>5, GainLoseType DEF Refund
    <2>2. /\ sent'[d] + abroad'[d] = sent[d] + abroad[d] - 1
          /\ sent'[d] \in Int /\ abroad'[d] \in Int
      BY <1>0, <1>5, <2>1, OutInt DEF Refund
    <2> QED
      BY <1>0, <1>5, <2>1, <2>2, CreditSource DEF Refund
  <1>6. ASSUME NEW d \in Denom, AckSuccess(d) PROVE SourceMoves
    <2>1. /\ sent'[d] = sent[d] - 1
          /\ \A x \in Denom : x # d => sent'[x] = sent[x]
      BY <1>0, <1>6, GainLoseType DEF AckSuccess
    <2>2. /\ \A x \in Denom : x # d => abroad'[x] = abroad[x]
          /\ IsSourceCoin(d) => abroad'[d] = abroad[d] + 1
      BY <1>0, <1>6, GainLoseType DEF AckSuccess
    <2>3. \A x \in Denom : x # d => Out(x)' = Out(x)
      BY <1>6, <2>1, <2>2 DEF AckSuccess, Out
    <2>4. CASE ~IsSourceCoin(d)
      BY <1>6, <2>3, <2>4, OtherCoin DEF AckSuccess
    <2>5. CASE IsSourceCoin(d)
      <3>1. Out(d)' = Out(d)
        BY <1>0, <1>6, <2>1, <2>2, <2>5, OutInt DEF AckSuccess, Out
      <3> QED
        BY <1>6, <2>3, <3>1, Constants DEF AckSuccess, SourceMoves
    <2> QED
      BY <2>4, <2>5
  <1>7. ASSUME NEW d \in Denom, TransferTokens(d) PROVE SourceMoves
    <2>1. ~IsSourceCoin(d)
      BY <1>7, MappingAssumption DEF TransferTokens, IsSourceCoin
    <2>2. \A x \in Denom : x # d => coins'[x] = coins[x] /\ sent'[x] = sent[x]
      BY <1>0, <1>7, GainLoseType DEF TransferTokens
    <2>3. \A x \in Denom : x # d => Out(x)' = Out(x)
      BY <1>7, <2>2 DEF TransferTokens, Out
    <2> QED
      BY <1>7, <2>1, <2>3, OtherCoin DEF TransferTokens
  <1>8. ASSUME NEW c \in Contract, SendToIbc(c) PROVE SourceMoves
    <2>1. PICK d \in Denom : d = denomOf[c] /\ ~IsSourceCoin(d)
      BY <1>8, Constants, MappingAssumption DEF SendToIbc, IsSourceCoin
    <2>2. \A x \in Denom : x # d => sent'[x] = sent[x]
      BY <1>0, <1>8, <2>1, GainLoseType DEF SendToIbc
    <2>3. \A x \in Denom : x # d => Out(x)' = Out(x)
      BY <1>8, <2>2 DEF SendToIbc, Out
    <2> QED
      BY <1>8, <2>1, <2>3, OtherCoin DEF SendToIbc
  <1>9. ASSUME NEW c \in Contract, SendSourceToIbc(c) PROVE SourceMoves
    <2>1. PICK d \in Denom : d = denomOf[c] /\ d \in SourceDenom
      BY <1>9, Constants DEF SendSourceToIbc, IsSourceCoin
    <2>2. sent'[d] = sent[d] + 1 /\ \A x \in Denom : x # d => sent'[x] = sent[x]
      BY <1>0, <1>9, <2>1, GainLoseType DEF SendSourceToIbc
    <2>3. (\A x \in SourceDenom : x # d => Out(x)' = Out(x)) /\ Out(d)' = Out(d) + 1
      BY <1>0, <1>9, <2>2, OutInt, Constants DEF SendSourceToIbc, Out
    <2>4. locked' = [locked EXCEPT ![c] = @ + 1]
      BY <1>9 DEF SendSourceToIbc, Gain
    <2> QED
      BY <2>1, <2>3, <2>4, 1 \in Int DEF SourceMoves
  <1>10. ASSUME NEW c \in Contract, SendToAccount(c) PROVE SourceMoves
    <2>1. denomOf[c] \in Denom
      BY <1>0, <1>10 DEF SendToAccount, TypeOK
    <2>2. PICK d \in Denom : d = denomOf[c]
      BY <2>1
    <2>3. ~IsSourceCoin(d)
      BY <1>10, <2>2 DEF SendToAccount, BooksInv, SourceNotEscrowed, IsSourceCoin
    <2>4. \A x \in Denom : x # d => coins'[x] = coins[x]
      BY <1>0, <1>10, <2>2, GainLoseType DEF SendToAccount
    <2>5. \A x \in Denom : x # d => Out(x)' = Out(x)
      BY <1>10, <2>4 DEF SendToAccount, Out
    <2> QED
      BY <1>10, <2>3, <2>5, OtherCoin DEF SendToAccount
  <1>11. ASSUME NEW g \in 1 .. MaxGas, TransferGas(g) PROVE SourceMoves
    <2>1. PICK d \in Denom : d = params.ibcCroDenom /\ ~IsSourceCoin(d)
      BY <1>0, Constants, MappingAssumption DEF TypeOK, Params, IsSourceCoin
    <2>2. \A x \in Denom : x # d => sent'[x] = sent[x]
      BY <1>0, <1>11, <2>1 DEF TransferGas
    <2>3. \A x \in Denom : x # d => Out(x)' = Out(x)
      BY <1>11, <2>2 DEF TransferGas, Out
    <2> QED
      BY <1>11, <2>1, <2>3, OtherCoin DEF TransferGas
  <1>12. ASSUME NEW c \in Contract, SendToEvmChain(c) \/ LockForEvmChain(c) PROVE SourceMoves
    BY <1>12 DEF SendToEvmChain, LockForEvmChain, Gain, Out, SourceMoves
  <1> QED
    BY <1>1, <1>2, <1>3, <1>4, <1>5, <1>6, <1>7, <1>8, <1>9, <1>10, <1>11, <1>12 DEF CNext

\* The source coins stay within what is locked for them.
LEMMA SourceBooks ==
    ASSUME BooksType, BooksType', SourceCoinsLocked, SourceMoves
    PROVE  SourceCoinsLocked'
  <1> DEFINE f == [d \in SourceDenom |-> coins[d] + sent[d] + abroad[d]]
             g == [d \in SourceDenom |-> coins'[d] + sent'[d] + abroad'[d]]
  <1>1. f \in [SourceDenom -> Int] /\ g \in [SourceDenom -> Int]
    BY Constants DEF BooksType
  <1>2. \A d \in SourceDenom : f[d] = Out(d) /\ g[d] = Out(d)'
    BY DEF Out
  <1>3. IsFiniteSet(SourceDenom) /\ IsFiniteSet(Contract)
    BY FS_Subset, Constants, ConversionAssumption
  <1>4. Total(f) =< Total(locked)
    BY DEF SourceCoinsLocked
  <1>5. Total(f) \in Int /\ Total(locked) \in Int
    <2> HIDE DEF f
    <2> QED
      BY <1>1, <1>3, TotalInt DEF BooksType
  <1>6. CASE (\A d \in SourceDenom : Out(d)' = Out(d)) /\ locked' = locked
    <2>1. f = g
      BY <1>2, <1>6
    <2> QED
      BY <1>4, <1>6, <2>1 DEF SourceCoinsLocked
  <1>8. ASSUME NEW c \in Contract, \A d \in SourceDenom : Out(d)' = Out(d),
               locked' = [locked EXCEPT ![c] = @ + 1]
        PROVE  SourceCoinsLocked'
    <2>1. f = g
      BY <1>2, <1>8
    <2>2. /\ locked \in [Contract -> Int] /\ locked' \in [Contract -> Int]
          /\ locked'[c] - locked[c] = 1
          /\ \A x \in Contract : x # c => locked'[x] = locked[x]
      BY <1>8 DEF BooksType
    <2>3. Total(locked') = Total(locked) + (locked'[c] - locked[c])
      BY <1>3, <2>2, TotalMove
    <2>4. Total(g) =< Total(locked')
      <3> HIDE DEF f, g
      <3> QED
        BY <1>4, <1>5, <2>1, <2>2, <2>3
    <2> QED
      BY <2>4 DEF SourceCoinsLocked
  <1>7. ASSUME NEW s \in SourceDenom, NEW k \in Int,
               \A d \in SourceDenom : d # s => Out(d)' = Out(d),
               Out(s)' = Out(s) + k,
               \/ k =< 0 /\ locked' = locked
               \/ \E c \in Contract : locked' = [locked EXCEPT ![c] = @ + k]
        PROVE  SourceCoinsLocked'
    <2>1. (\A d \in SourceDenom : d # s => g[d] = f[d]) /\ g[s] - f[s] = k
      BY <1>1, <1>2, <1>7
    <2>2. Total(g) = Total(f) + k
      <3> HIDE DEF f, g
      <3>1. Total(g) = Total(f) + (g[s] - f[s])
        BY <1>1, <1>3, <2>1, TotalMove
      <3> QED
        BY <2>1, <3>1
    <2>3. CASE k =< 0 /\ locked' = locked
      <3>1. Total(g) =< Total(locked)
        <4> HIDE DEF f, g
        <4> QED
          BY <1>4, <1>5, <2>2, <2>3
      <3> QED
        BY <2>3, <3>1 DEF SourceCoinsLocked
    <2>4. ASSUME NEW c \in Contract, locked' = [locked EXCEPT ![c] = @ + k]
          PROVE  SourceCoinsLocked'
      <3>1. /\ locked \in [Contract -> Int] /\ locked' \in [Contract -> Int]
            /\ locked'[c] - locked[c] = k
            /\ \A x \in Contract : x # c => locked'[x] = locked[x]
        BY <2>4 DEF BooksType
      <3>2. Total(locked') = Total(locked) + (locked'[c] - locked[c])
        BY <1>3, <3>1, TotalMove
      <3>3. Total(g) =< Total(locked')
        <4> HIDE DEF f, g
        <4> QED
          BY <1>4, <1>5, <2>2, <3>1, <3>2
      <3> QED
        BY <3>3 DEF SourceCoinsLocked
    <2> QED
      BY <1>7, <2>3, <2>4
  <1> QED
    BY <1>6, <1>7, <1>8 DEF SourceMoves

\* The types of the users' books.
LEMMA BooksTypeNext ==
    ASSUME TypeOK, BooksType, [CNext]_allVars
    PROVE  BooksType'
  <1>0. /\ coins \in [Denom -> Int] /\ sent \in [Denom -> Int] /\ abroad \in [Denom -> Int]
        /\ locked \in [Contract -> Int] /\ held \in [Denom -> Int] /\ minted \in Int
    BY DEF BooksType
  <1>1. ASSUME NEW d \in Denom, ToEvm(d)
        PROVE  held' \in [Denom -> Int] /\ minted' \in Int /\ locked' \in [Contract -> Int]
    <2>1. CASE ToGas(d)
      BY <1>0, <2>1, GainLoseType, ConversionAssumption DEF ToGas
    <2>2. ASSUME NEW c \in Contract, Unlock(c) \/ Mint(d, c)
          PROVE  held' \in [Denom -> Int] /\ minted' \in Int /\ locked' \in [Contract -> Int]
      BY <1>0, <2>2, GainLoseType DEF Unlock, Mint
    <2> QED
      BY <1>1, <2>1, <2>2, ContractType DEF ToEvm
  <1>2. ASSUME NEW d \in Denom, Credit(d)
        PROVE  /\ held' \in [Denom -> Int] /\ minted' \in Int /\ locked' \in [Contract -> Int]
               /\ coins' \in [Denom -> Int]
    BY <1>0, <1>1, <1>2, GainLoseType DEF Credit
  <1>3. CASE (MappingStep /\ UNCHANGED funds) \/ UNCHANGED allVars
    BY <1>0, <1>3 DEF funds, allVars, BooksType
  <1>4. CASE \E d \in Denom : ConvertMapped(d)
    BY <1>0, <1>1, <1>4, GainLoseType, SMTT(30) DEF ConvertMapped, BooksType
  <1>5. CASE \E d \in Denom : ConvertDeploys(d)
    BY <1>0, <1>5, GainLoseType DEF ConvertDeploys, Mint, BooksType
  <1>6. CASE \E d \in Denom : OnRecvPacket(d)
    BY <1>0, <1>2, <1>6, GainLoseType DEF OnRecvPacket, BooksType
  <1>7. CASE \E d \in Denom : Refund(d)
    BY <1>0, <1>2, <1>7, GainLoseType DEF Refund, BooksType
  <1>8. ASSUME NEW d \in Denom, AckSuccess(d) \/ TransferTokens(d) PROVE BooksType'
    <2>1. /\ Lose(sent, d) \in [Denom -> Int] /\ Gain(sent, d) \in [Denom -> Int]
          /\ Lose(coins, d) \in [Denom -> Int] /\ Gain(abroad, d) \in [Denom -> Int]
      BY <1>0, GainLoseType
    <2>2. CASE AckSuccess(d)
      BY <1>0, <2>1, <2>2 DEF AckSuccess, BooksType
    <2>3. CASE TransferTokens(d)
      BY <1>0, <2>1, <2>3 DEF TransferTokens, BooksType
    <2> QED
      BY <1>8, <2>2, <2>3
  <1>9. ASSUME NEW c \in Contract, SendToIbc(c) \/ SendSourceToIbc(c) \/ SendToAccount(c)
        PROVE  BooksType'
    <2>1. PICK d \in Denom : d = denomOf[c]
      BY <1>9, Constants DEF SendToIbc, SendSourceToIbc, SendToAccount, IsSourceCoin, TypeOK
    <2> QED
      BY <1>0, <1>9, <2>1, GainLoseType, SMTT(30)
         DEF SendToIbc, SendSourceToIbc, SendToAccount, BooksType
  <1>10. ASSUME NEW g \in 1 .. MaxGas, TransferGas(g) PROVE BooksType'
    <2>1. held' \in [Denom -> Int] /\ sent' \in [Denom -> Int]
      <3>1. PICK k \in Int : k = g \div Scale
        BY WholeVouchers, ConversionAssumption
      <3>2. /\ held' = [held EXCEPT ![params.ibcCroDenom] = @ - k]
            /\ sent' = [sent EXCEPT ![params.ibcCroDenom] = @ + k]
        BY <1>10, <3>1 DEF TransferGas
      <3>3. ASSUME NEW f \in [Denom -> Int], NEW d \in Denom, NEW j \in Int
            PROVE  /\ [f EXCEPT ![d] = @ + j] \in [Denom -> Int]
                   /\ [f EXCEPT ![d] = @ - j] \in [Denom -> Int]
        OBVIOUS
      <3>4. params.ibcCroDenom \in Denom
        BY Constants DEF TypeOK, Params
      <3> QED
        BY <1>0, <3>1, <3>2, <3>3, <3>4
    <2>2. minted' \in Int
      BY <1>0, <1>10, ConversionAssumption DEF TransferGas
    <2> QED
      BY <1>0, <1>10, <2>1, <2>2 DEF TransferGas, BooksType
  <1>11. ASSUME NEW c \in Contract, SendToEvmChain(c) \/ LockForEvmChain(c) PROVE BooksType'
    BY <1>0, <1>11, GainLoseType DEF SendToEvmChain, LockForEvmChain, BooksType
  <1> QED
    BY <1>3, <1>4, <1>5, <1>6, <1>7, <1>8, <1>9, <1>10, <1>11 DEF CNext

\* The books balance when there is nothing in them.
LEMMA BooksInit == CInit => BooksInv
  <1> SUFFICES ASSUME CInit PROVE BooksInv
    OBVIOUS
  <1>1. TypeOK
    BY InitLemma DEF CInit, MappingInv
  <1>2. FundsType /\ BooksType /\ SourceNotEscrowed
    BY Constants DEF CInit, FundsType, BooksType, SourceNotEscrowed, Zero
  <1>3. TokensBacked
    <2> SUFFICES ASSUME NEW c \in Contract
                 PROVE  tokens[c] + burned[c] = Total([d \in Denom |-> escrow[d][c]])
      BY DEF TokensBacked
    <2> DEFINE f == [d \in Denom |-> escrow[d][c]]
    <2>1. f \in [Denom -> Int] /\ \A d \in Denom : f[d] = 0
      BY DEF CInit, Zero
    <2> HIDE DEF f
    <2>2. Total(f) = 0
      BY <2>1, TotalZero, ConversionAssumption
    <2> QED
      BY <2>2 DEF CInit, Zero, f
  <1>4. GasTokenBacked
    <2>1. held \in [Denom -> Int] /\ \A d \in Denom : held[d] = 0
      BY DEF CInit, Zero
    <2>2. Total(held) = 0
      BY <2>1, TotalZero, ConversionAssumption
    <2> QED
      BY <2>2, ConversionAssumption DEF CInit, GasTokenBacked
  <1>5. SourceCoinsLocked
    <2> DEFINE f == [d \in SourceDenom |-> coins[d] + sent[d] + abroad[d]]
    <2>1. f \in [SourceDenom -> Int] /\ \A d \in SourceDenom : f[d] = 0
      BY Constants, MappingAssumption DEF CInit, Zero
    <2>2. IsFiniteSet(SourceDenom)
      BY FS_Subset, Constants, ConversionAssumption
    <2>3. locked \in [Contract -> Int] /\ \A c \in Contract : locked[c] = 0
      BY DEF CInit, Zero
    <2> HIDE DEF f
    <2>4. Total(f) = 0
      BY <2>1, <2>2, TotalZero
    <2>5. Total(locked) = 0
      BY <2>3, TotalZero, ConversionAssumption
    <2> QED
      BY <2>4, <2>5 DEF SourceCoinsLocked, f
  <1> QED
    BY <1>1, <1>2, <1>3, <1>4, <1>5 DEF BooksInv

\* Every step keeps the books balanced.
LEMMA BooksNext ==
    ASSUME BooksInv, [CNext]_allVars
    PROVE  BooksInv'
  <1>1. TypeOK'
    BY StepRefines, TypeLemma DEF BooksInv
  <1>2. BooksType'
    BY BooksTypeNext DEF BooksInv
  <1>3. FundsType' /\ TokensBacked' /\ SourceNotEscrowed'
    BY EveryStepMoves, EscrowBooks DEF BooksInv
  <1>4. GasTokenBacked'
    BY EveryStepMovesGas, GasBooks DEF BooksInv
  <1>5. SourceCoinsLocked'
    BY <1>2, EveryStepMovesSource, SourceBooks DEF BooksInv
  <1> QED
    BY <1>1, <1>2, <1>3, <1>4, <1>5 DEF BooksInv

\* The books balance in every reachable state, for any number of denominations and
\* contracts, however they are registered.
THEOREM BooksInvariance == CSpec => []BooksInv
  <1>1. CInit => BooksInv
    BY BooksInit
  <1>2. BooksInv /\ [CNext]_allVars => BooksInv'
    BY BooksNext
  <1> QED
    BY <1>1, <1>2, PTL DEF CSpec

\* Every contract has as many coins in its account as it issued tokens for: a
\* conversion that fails, is refunded or came before the contract was mapped to
\* something else did both of its halves or none, and only the tokens burned by
\* send_to_evm_chain left their coin behind.
THEOREM ConversionBacked == CSpec => []TokensBacked
  <1>1. BooksInv => TokensBacked
    BY DEF BooksInv
  <1> QED
    BY <1>1, BooksInvariance, PTL

\* The gas tokens that were minted and not burned are Scale times the vouchers in
\* the module account, for every Scale and although amounts are rounded down and the
\* denomination of the voucher changes.
THEOREM GasBacked == CSpec => []GasTokenBacked
  <1>1. BooksInv => GasTokenBacked
    BY DEF BooksInv
  <1> QED
    BY <1>1, BooksInvariance, PTL

\* There are never more source coins than tokens locked for them.
THEOREM SourceBacked == CSpec => []SourceCoinsLocked
  <1>1. BooksInv => SourceCoinsLocked
    BY DEF BooksInv
  <1> QED
    BY <1>1, BooksInvariance, PTL
=============================================================================
