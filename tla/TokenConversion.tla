-------------------------- MODULE TokenConversion --------------------------
(***************************************************************************)
(* The conversion of coins by x/cronos, on top of the token mapping:       *)
(* vouchers that arrive or return over IBC become tokens of the mapped     *)
(* contract or gas tokens (middleware/conversion_middleware.go,            *)
(* keeper/ibc.go, keeper/evm.go), and tokens are sent away through the     *)
(* logs of their contracts (keeper/evm_hooks.go, keeper/evmhandlers).      *)
(*                                                                         *)
(* Every transfer is of one voucher, and of some gas tokens; Scale stands  *)
(* for 10^10.  All users are one holder, as no step moves anything between *)
(* users.  A message that fails leaves no trace; the middleware instead    *)
(* keeps the voucher and drops the conversion.  The bank, the EVM and the  *)
(* transfer module of IBC are external.                                    *)
(***************************************************************************)
EXTENDS TokenMapping, FiniteSetsExt

CONSTANTS
    SourceContract, \* the user contracts with isSource, which lock what is sent away
    Scale,          \* gas tokens per voucher, types.TenPowTen
    MaxGas,         \* bound on the gas tokens of a transfer
    MaxArrivals,    \* bound on the packets received
    MaxSends        \* bound on the tokens that are locked or burned

\* There are finitely many denominations (a prefix and a hash or an address) and
\* addresses of contracts (20 bytes).
ASSUME ConversionAssumption ==
    /\ IsFiniteSet(Denom) /\ IsFiniteSet(Contract)
    /\ SourceContract \subseteq UserContract
    /\ Scale \in Nat \ {0} /\ MaxGas \in Nat
    /\ MaxArrivals \in Nat /\ MaxSends \in Nat

VARIABLES
    coins,      \* the users' coins in the bank
    escrow,     \* escrow[d][c]: the coins of d in the account of the contract c
    held,       \* the vouchers in the module account
    minted,     \* gas tokens minted by the module and not burned
    tokens,     \* tokens minted for vouchers, per contract
    burned,     \* tokens burned to be sent to a chain that nobody serves, per contract
    locked,     \* tokens of a source contract in the module's account
    sent,       \* packets on their way
    abroad,     \* source coins on other chains
    arrivals    \* packets received

funds == <<coins, escrow, held, minted, tokens, burned, locked, sent, abroad, arrivals>>

Zero(S) == [x \in S |-> 0]

CInit ==
    /\ Init
    /\ coins = [d \in Denom |-> IF d \in GravityDenom THEN 1 ELSE 0]
    /\ escrow = [d \in Denom |-> Zero(Contract)]
    /\ held = Zero(Denom) /\ minted = 0
    /\ tokens = Zero(Contract) /\ burned = Zero(Contract) /\ locked = Zero(Contract)
    /\ sent = Zero(Denom) /\ abroad = Zero(Denom) /\ arrivals = 0

Gain(f, x) == [f EXCEPT ![x] = @ + 1]
Lose(f, x) == [f EXCEPT ![x] = @ - 1]
Total(f)   == MapThenSumSet(LAMBDA x : f[x], DOMAIN f)

-----------------------------------------------------------------------------
(***************************************************************************)
(* From vouchers to the EVM: what ConvertVouchersToEvmCoins does with one  *)
(* coin that the caller has already taken from the sender.                 *)
(***************************************************************************)
\* The voucher of the gas token is kept and gas tokens are minted.
ToGas(d) ==
    /\ d = params.ibcCroDenom
    /\ held' = Gain(held, d)
    /\ minted' = minted + Scale
    /\ UNCHANGED <<escrow, tokens, locked>>

\* The coin goes to the account of the contract, which mints.  A call of an
\* address without code succeeds and does nothing.
Mint(d, c) ==
    /\ escrow' = [escrow EXCEPT ![d][c] = @ + 1]
    /\ tokens' = IF c = ZeroAddress THEN tokens ELSE Gain(tokens, c)
    /\ UNCHANGED <<held, minted, locked>>

\* The source coin is burned and the contract releases a token of the module.
Unlock(c) ==
    /\ c = ZeroAddress \/ locked[c] > 0
    /\ locked' = IF c = ZeroAddress THEN locked ELSE Lose(locked, c)
    /\ UNCHANGED <<escrow, held, minted, tokens>>

\* The conversion of a coin that has a contract, or is the gas token's voucher.
ToEvm(d) ==
    \/ ToGas(d)
    \/ /\ d # params.ibcCroDenom /\ GetContractByDenom(d) # None
       /\ IF IsSourceCoin(d) THEN Unlock(GetContractByDenom(d))
                             ELSE Mint(d, GetContractByDenom(d))

\* The call of a contract that users wrote may fail, and no contract releases
\* tokens that it does not hold for the module.
MayFail(d) ==
    /\ d # params.ibcCroDenom
    /\ GetContractByDenom(d) \in UserContract

\* MsgConvertVouchers for a coin that needs no new contract.
ConvertMapped(d) ==
    /\ phase = "running" /\ coins[d] > 0
    /\ ToEvm(d)
    /\ coins' = Lose(coins, d)
    /\ UNCHANGED <<burned, sent, abroad, arrivals, vars>>

\* MsgConvertVouchers for a coin whose contract is deployed first.
ConvertDeploys(d) ==
    /\ coins[d] > 0
    /\ ConvertVouchers(d)
    /\ coins' = Lose(coins, d)
    /\ Mint(d, auto'[d])
    /\ UNCHANGED <<burned, sent, abroad, arrivals>>

canBeConverted(d) == d = params.ibcCroDenom \/ GetContractByDenom(d) # None

\* Variant: a conversion that fails leaves the coin with the contract.
CreditPartly(d) ==
    \/ /\ canBeConverted(d) /\ ToEvm(d)
       /\ UNCHANGED coins
    \/ /\ canBeConverted(d) /\ MayFail(d)
       /\ escrow' = [escrow EXCEPT ![d][GetContractByDenom(d)] = @ + 1]
       /\ UNCHANGED <<coins, held, minted, tokens, locked>>
    \/ /\ ~canBeConverted(d)
       /\ coins' = Gain(coins, d)
       /\ UNCHANGED <<escrow, held, minted, tokens, locked>>

\* Variant: the coin is converted and not taken from the receiver.
CreditTwice(d) ==
    /\ coins' = Gain(coins, d)
    /\ \/ canBeConverted(d) /\ ToEvm(d)
       \/ /\ ~canBeConverted(d) \/ MayFail(d)
          /\ UNCHANGED <<escrow, held, minted, tokens, locked>>

\* A voucher that the transfer module has credited, and OnRecvVouchers: it is
\* converted at once or, when that fails or is not possible, it stays a coin.
Credit(d) ==
    \/ /\ canBeConverted(d) /\ ToEvm(d)
       /\ UNCHANGED coins
    \/ /\ ~canBeConverted(d) \/ MayFail(d)
       /\ coins' = Gain(coins, d)
       /\ UNCHANGED <<escrow, held, minted, tokens, locked>>

\* A voucher arrives, or a source coin comes back.
OnRecvPacket(d) ==
    /\ phase = "running" /\ arrivals < MaxArrivals
    /\ arrivals' = arrivals + 1
    /\ \/ d \in IbcDenom /\ UNCHANGED abroad
       \/ IsSourceCoin(d) /\ abroad[d] > 0 /\ abroad' = Lose(abroad, d)
    /\ Credit(d)
    /\ UNCHANGED <<burned, sent, vars>>

\* A timeout or an error acknowledgement: the sender is refunded, and what is
\* refunded is converted again.
Refund(d) ==
    /\ phase = "running" /\ sent[d] > 0
    /\ sent' = Lose(sent, d)
    /\ Credit(d)
    /\ UNCHANGED <<burned, abroad, arrivals, vars>>

\* The packet was received by the other chain.
AckSuccess(d) ==
    /\ phase = "running" /\ sent[d] > 0
    /\ sent' = Lose(sent, d)
    /\ abroad' = IF IsSourceCoin(d) THEN Gain(abroad, d) ELSE abroad
    /\ UNCHANGED <<coins, escrow, held, minted, tokens, burned, locked, arrivals, vars>>

-----------------------------------------------------------------------------
(***************************************************************************)
(* From the EVM to other chains.                                           *)
(***************************************************************************)
\* Variant: the voucher is taken from the contract that the module deployed.
SendToIbcAuto(c) ==
    LET d == denomOf[c] IN
    /\ phase = "running" /\ tokens[c] > 0
    /\ d \in IbcDenom /\ auto[d] # None /\ escrow[d][auto[d]] > 0
    /\ tokens' = Lose(tokens, c)
    /\ escrow' = [escrow EXCEPT ![d][auto[d]] = @ - 1]
    /\ sent' = Gain(sent, d)
    /\ UNCHANGED <<coins, held, minted, burned, locked, abroad, arrivals, vars>>

\* send_to_ibc of a contract that burns, its log, and IbcTransferCoins of the
\* voucher that the contract's account gives back.
SendToIbc(c) ==
    LET d == denomOf[c] IN
    /\ phase = "running" /\ tokens[c] > 0
    /\ d \in IbcDenom /\ escrow[d][c] > 0
    /\ GetContractByDenom(d) # None
    /\ tokens' = Lose(tokens, c)
    /\ escrow' = [escrow EXCEPT ![d][c] = @ - 1]
    /\ sent' = Gain(sent, d)
    /\ UNCHANGED <<coins, held, minted, burned, locked, abroad, arrivals, vars>>

\* The same for a contract that locks: the source coin is minted for the sender
\* and goes into the escrow of the channel.
SendSourceToIbc(c) ==
    LET d == denomOf[c] IN
    /\ phase = "running" /\ c \in SourceContract
    /\ Total(locked) + Total(burned) < MaxSends
    /\ IsSourceCoin(d) /\ GetContractByDenom(d) # None
    /\ locked' = Gain(locked, c)
    /\ sent' = Gain(sent, d)
    /\ UNCHANGED <<coins, escrow, held, minted, tokens, burned, abroad, arrivals, vars>>

\* send_to_evm_chain of a contract that burns, and send_to_ethereum of the older
\* one: no handler is registered for their logs, and what the contract's account
\* holds for the token stays there.
SendToEvmChain(c) ==
    /\ phase = "running" /\ c \notin SourceContract /\ tokens[c] > 0
    /\ Total(locked) + Total(burned) < MaxSends
    /\ tokens' = Lose(tokens, c)
    /\ burned' = Gain(burned, c)
    /\ UNCHANGED <<coins, escrow, held, minted, locked, sent, abroad, arrivals, vars>>

\* send_to_evm_chain of a contract that locks.
LockForEvmChain(c) ==
    /\ phase = "running" /\ c \in SourceContract
    /\ Total(locked) + Total(burned) < MaxSends
    /\ locked' = Gain(locked, c)
    /\ UNCHANGED <<coins, escrow, held, minted, tokens, burned, sent, abroad, arrivals, vars>>

\* The log __CronosSendToAccount of a contract that burns; no contract that the
\* module deploys writes it.
SendToAccount(c) ==
    LET d == denomOf[c] IN
    /\ phase = "running" /\ c \in UserContract /\ tokens[c] > 0
    /\ d # None /\ escrow[d][c] > 0
    /\ tokens' = Lose(tokens, c)
    /\ escrow' = [escrow EXCEPT ![d][c] = @ - 1]
    /\ coins' = Gain(coins, d)
    /\ UNCHANGED <<held, minted, burned, locked, sent, abroad, arrivals, vars>>

\* MsgTransferTokens with a voucher; it names no channel for a source coin.
TransferTokens(d) ==
    /\ phase = "running" /\ coins[d] > 0
    /\ d \in IbcDenom /\ GetContractByDenom(d) # None
    /\ coins' = Lose(coins, d)
    /\ sent' = Gain(sent, d)
    /\ UNCHANGED <<escrow, held, minted, tokens, burned, locked, abroad, arrivals, vars>>

\* Variant: the remainder is burned too.
TransferGasAll(g) ==
    LET d == params.ibcCroDenom IN
    /\ phase = "running"
    /\ g \div Scale > 0 /\ g \div Scale =< held[d]
    /\ minted' = minted - g
    /\ held' = [held EXCEPT ![d] = @ - (g \div Scale)]
    /\ sent' = [sent EXCEPT ![d] = @ + (g \div Scale)]
    /\ UNCHANGED <<coins, escrow, tokens, burned, locked, abroad, arrivals, vars>>

\* MsgTransferTokens with gas tokens, and the log __CronosSendCroToIbc: what is
\* less than a voucher stays with the sender, and vouchers of the denomination
\* that is the gas token's now are released.
TransferGas(g) ==
    LET d == params.ibcCroDenom IN
    /\ phase = "running"
    /\ g \div Scale > 0 /\ g \div Scale =< held[d]
    /\ minted' = minted - (g - (g % Scale))
    /\ held' = [held EXCEPT ![d] = @ - (g \div Scale)]
    /\ sent' = [sent EXCEPT ![d] = @ + (g \div Scale)]
    /\ UNCHANGED <<coins, escrow, tokens, burned, locked, abroad, arrivals, vars>>

-----------------------------------------------------------------------------
\* The mapping gives a coin a contract of its kind, or the zero address.
Fits(d, c) ==
    c \in UserContract => (IsSourceCoin(d) <=> c \in SourceContract)

\* What changes the mapping and moves nothing.
MappingStep ==
    \/ \E a \in Account, d \in Denom, c \in Contract :
          Fits(d, c) /\ UpdateTokenMapping(a, d, c)
    \/ \E d \in Denom, c \in Contract \cup {None} :
          Fits(d, c) /\ TokenMappingChange(d, c)
    \/ \E p \in Params : UpdateParams(p)
    \/ \E from, a \in Account, ps \in SUBSET Permission : UpdatePermissions(from, a, ps)
    \/ ExportGenesis
    \/ \E d \in Denom : InitGenesisExternal(d)
    \/ \E d \in Denom : InitGenesisAuto(d)
    \/ InitGenesisDone

CNext ==
    \/ MappingStep /\ UNCHANGED funds
    \/ \E d \in Denom :
          \/ ConvertMapped(d) \/ ConvertDeploys(d)
          \/ OnRecvPacket(d) \/ Refund(d) \/ AckSuccess(d) \/ TransferTokens(d)
    \/ \E c \in Contract :
          \/ SendToIbc(c) \/ SendSourceToIbc(c) \/ SendToAccount(c)
          \/ SendToEvmChain(c) \/ LockForEvmChain(c)
    \/ \E g \in 1 .. MaxGas : TransferGas(g)

allVars == <<vars, funds>>
CSpec == CInit /\ [][CNext]_allVars

-----------------------------------------------------------------------------
(***************************************************************************)
(* Properties.                                                             *)
(***************************************************************************)
\* A conversion does both of its halves or none: a contract has as many coins in
\* its account as it has issued tokens for them, whichever call failed, was refunded
\* or was made before the contract was mapped to something else.  Only the tokens
\* that holders burned for a chain that nobody serves left their coin behind.
TokensBacked ==
    \A c \in Contract \ {ZeroAddress} :
        tokens[c] + burned[c] = Total([d \in Denom |-> escrow[d][c]])

\* Every token of a contract that the module deployed can be exchanged for the
\* coin it was minted for, also while an external contract is mapped first and
\* whatever other holders burned.
AutoTokensRedeemable ==
    phase = "running" =>
        \A d \in Denom : auto[d] # None =>
            denomOf[auto[d]] = d /\ tokens[auto[d]] =< escrow[d][auto[d]]

\* Gas tokens are minted and burned in step with the vouchers in the module
\* account, although amounts are rounded down and the voucher's denomination is a
\* parameter that may change.
GasTokenBacked == minted = Scale * Total(held)

\* There are never more source coins, here, on their way or on other chains, than
\* tokens locked for them.
SourceCoinsLocked ==
    Total([d \in SourceDenom |-> coins[d] + sent[d] + abroad[d]]) =< Total(locked)

-----------------------------------------------------------------------------
(***************************************************************************)
(* The inductive invariant for the tokens of the module's contracts.       *)
(***************************************************************************)
\* The contract that the module deployed for d, also while a genesis is imported.
Deployed(d) == IF phase = "running" THEN auto[d] ELSE exported.auto[d]

FundsType ==
    /\ escrow \in [Denom -> [Contract -> Int]]
    /\ tokens \in [Contract -> Int] /\ burned \in [Contract -> Nat]

DeployedBacked ==
    \A d \in Denom : Deployed(d) # None =>
        /\ Deployed(d) # ZeroAddress
        /\ escrow[d][Deployed(d)] = tokens[Deployed(d)] + burned[Deployed(d)]

\* Nothing is in the account of a contract that is still to be deployed.
FutureEmpty ==
    \A n \in Nonce : n >= nonce =>
        /\ tokens[ModuleAddress[n]] = 0 /\ burned[ModuleAddress[n]] = 0
        /\ \A d \in Denom : escrow[d][ModuleAddress[n]] = 0

ConversionInv == MappingInv /\ FundsType /\ DeployedBacked /\ FutureEmpty

-----------------------------------------------------------------------------
(***************************************************************************)
(* The inductive invariant for the sums.                                   *)
(***************************************************************************)
BooksType ==
    /\ {coins, held, sent, abroad} \subseteq [Denom -> Int]
    /\ locked \in [Contract -> Int]
    /\ minted \in Int

\* A source coin is burned, never given to a contract.
SourceNotEscrowed ==
    \A d \in SourceDenom, c \in Contract : escrow[d][c] = 0

BooksInv ==
    /\ TypeOK /\ FundsType /\ BooksType
    /\ SourceNotEscrowed
    /\ TokensBacked /\ GasTokenBacked /\ SourceCoinsLocked

=============================================================================
