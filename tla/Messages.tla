------------------------------ MODULE Messages ------------------------------
(***************************************************************************)
(* The messages of types/msg: what ValidateBasic accepts, who signs, who   *)
(* is involved, and which types the amino codec knows.                     *)
(*                                                                         *)
(* A message is a record whose field t is its Go type.  A string or a byte *)
(* slice whose content no check reads is its length; an address is [id,    *)
(* len], nil having length 0; a duration is in seconds, a rate in tenths.  *)
(* The JSON that GetSignBytes returns is left out, as are Route, Type and  *)
(* String.                                                                 *)
(***************************************************************************)
EXTENDS Coins

CONSTANT MaxTotalSupply     \* 9 * 10^18 in the code

AddrLen == 20

Addr(id, len) == [id |-> id, len |-> len]
IsAddr(a)     == a.len = AddrLen
NilAddr       == Addr("", 0)
Address       == [id : STRING, len : Nat]

AtomicSwapCoinsAccAddr == Addr("swap", AddrLen)
TimeLockCoinsAccAddr   == Addr("timelock", AddrLen)

\* The answers of ValidateBasic, GetSigners and GetInvolvedAddresses.
Msg(valid, signers, involved) == [valid |-> valid, signers |-> signers, involved |-> involved]

BySender(from, valid) == Msg(valid, {from}, {from})

\* The fields of f, and those of g that f does not have.
join(f, g) == [x \in DOMAIN f \cup DOMAIN g |-> IF x \in DOMAIN f THEN f[x] ELSE g[x]]

-----------------------------------------------------------------------------
(* Symbols.  [native, dotB, len, alnum, parts]: the part before the first  *)
(* hyphen is BNB or not, has the suffix .B or not, its length without that *)
(* suffix and whether it is alphanumeric; parts are what the hyphens       *)
(* separate after it, [len, hex, m]: the first three characters are upper- *)
(* case hexadecimal, the last one is M.                                    *)

MaxTokenNameLength == 32
MaxTokenURILength  == 2048

IsSymbol(s) ==
    /\ s \in [native : BOOLEAN, dotB : BOOLEAN, len : Nat, alnum : BOOLEAN,
              parts : Seq([len : Nat, hex : BOOLEAN, m : BOOLEAN])]
    /\ s.native => s.len = 3 /\ ~s.dotB

NoSymbol == [native |-> FALSE, dotB |-> FALSE, len |-> 0, alnum |-> TRUE, parts |-> <<>>]

SymbolLen(s) ==
    s.len + (IF s.dotB THEN 2 ELSE 0) + foldLeft(LAMBDA n, p : n + 1 + p.len, 0, s.parts)

IsNative(s) == s.native /\ s.parts = <<>>

\* splitSuffixedTokenSymbol: one hyphen, or the native token.
splitSuffixedTokenSymbol(s) == IsNative(s) \/ Len(s.parts) = 1

\* Mutant: the suffix may be longer than the hash.
hashSuffixAtLeast(p) == p.len >= 3 /\ p.hex

\* TokenSymbolTxHashSuffixLen characters, all hexadecimal.
hashSuffix(p) == p.len = 3 /\ p.hex

ValidateSymbol(s) ==
    \/ IsNative(s)
    \/ /\ splitSuffixedTokenSymbol(s)
       /\ ~s.native
       /\ s.len \in 2 .. 8 /\ s.alnum
       /\ hashSuffix(s.parts[1])

ValidateMiniTokenSymbol(s) ==
    /\ SymbolLen(s) > 0
    /\ splitSuffixedTokenSymbol(s)
    /\ ~s.dotB /\ s.len \in 2 .. 8 /\ s.alnum
    /\ s.parts # <<>> /\ s.parts[1].len = 4 /\ s.parts[1].m /\ s.parts[1].hex

\* The symbol of a new token has no suffix but .B; the one of a mini token none.
validateIssueMsgTokenSymbol(s)     == s.len \in 2 .. 8 /\ s.alnum /\ s.parts = <<>>
validateIssueMsgMiniTokenSymbol(s) == s.len \in 2 .. 8 /\ s.alnum /\ s.parts = <<>> /\ ~s.dotB

\* The name of a new token: the chain (external) appends a suffix to the symbol.
Suffix(s, len) == [s EXCEPT !.parts = <<[len |-> len, hex |-> TRUE, m |-> len = 4]>>]

-----------------------------------------------------------------------------
(* Tokens.                                                                 *)

TokenIssueMsg(m) == BySender(m.from,
    /\ m.from # NilAddr
    /\ validateIssueMsgTokenSymbol(m.symbol)
    /\ m.name \in 1 .. MaxTokenNameLength
    /\ m.supply >= 0 /\ m.supply <= MaxTotalSupply)

MiniTokenIssueMsg(m) == BySender(m.from,
    /\ m.from # NilAddr
    /\ validateIssueMsgMiniTokenSymbol(m.symbol)
    /\ m.name \in 1 .. MaxTokenNameLength
    /\ m.uri <= MaxTokenURILength)

TinyTokenIssueMsg(m) == MiniTokenIssueMsg(m)

TokenFreezeMsg(m)   == BySender(m.from, ValidateSymbol(m.symbol) /\ m.amount > 0)
TokenUnfreezeMsg(m) == BySender(m.from, ValidateSymbol(m.symbol) /\ m.amount > 0)
TokenBurnMsg(m)     == BySender(m.from, ValidateSymbol(m.symbol) /\ m.amount > 0)
MintMsg(m)          == BySender(m.from, m.from # NilAddr /\ m.amount > 0)

SetURIMsg(m) == BySender(m.from,
    m.from # NilAddr /\ m.uri <= MaxTokenURILength /\ ValidateMiniTokenSymbol(m.symbol))

TransferOwnershipMsg(m) == Msg(
    /\ IsAddr(m.from) /\ IsAddr(m.newOwner)
    /\ ValidateMiniTokenSymbol(m.symbol) \/ ValidateSymbol(m.symbol),
    {m.from}, {m.from, m.newOwner})

SetAccountFlagsMsg(m) == BySender(m.from, IsAddr(m.from))

-----------------------------------------------------------------------------
(* Trading.                                                                *)

DexListMsg(m) == BySender(m.from, ValidateSymbol(m.base) /\ ValidateSymbol(m.quote) /\ m.initPrice > 0)

ListMiniMsg(m) == BySender(m.from, ValidateMiniTokenSymbol(m.base) /\ m.initPrice > 0)

IsValidOrderType(t)   == t = 2
IsValidSide(s)        == s \in {1, 2}
IsValidTimeInForce(t) == t \in {1, 3}

\* GenerateOrderID: <address>-<sequence>; an id has a hyphen, or is empty.
OrderID(addr, seq) == [addr |-> addr, seq |-> seq]
NoID               == OrderID(NilAddr, -1)

CreateOrderMsg(m) == BySender(m.from,
    /\ m.from.len > 0
    /\ m.orderId # NoID
    /\ m.quantity > 0 /\ m.price > 0
    /\ IsValidOrderType(m.orderType) /\ IsValidSide(m.side) /\ IsValidTimeInForce(m.timeInForce))

CancelOrderMsg(m) == BySender(m.from, m.from.len > 0 /\ m.refId # NoID)

-----------------------------------------------------------------------------
(* Sending.                                                                *)

Payments == Seq([address : Address, coins : Purse])

InputOK(in) == in.address.len > 0 /\ IsValid(in.coins) /\ IsPositive(in.coins)

OutputOK(out) == out.address.len > 0 /\ IsValid(out.coins) /\ IsPositive(out.coins)

totalOf(ends) == foldLeft(LAMBDA sum, e : Plus(sum, e.coins), <<>>, ends)

SendMsg(m) ==
    LET payers    == {m.inputs[i].address : i \in DOMAIN m.inputs}
        receivers == {m.outputs[i].address : i \in DOMAIN m.outputs}
    IN  Msg(/\ m.inputs # <<>> /\ m.outputs # <<>>
            /\ \A i \in DOMAIN m.inputs : InputOK(m.inputs[i])
            /\ \A i \in DOMAIN m.outputs : OutputOK(m.outputs[i])
            /\ IsEqual(totalOf(m.inputs), totalOf(m.outputs)),
            payers, payers \cup receivers)

\* Mutant: the coins of a transfer keep the caller's order.
outputUnsorted(t) == [address |-> t.to, coins |-> t.coins]

output(t) == [address |-> t.to, coins |-> Sort(t.coins)]

CreateSendMsg(from, fromCoins, transfers) ==
    [t |-> "SendMsg", from |-> from,
     inputs |-> <<[address |-> from, coins |-> fromCoins]>>,
     outputs |-> [i \in DOMAIN transfers |-> output(transfers[i])]]

-----------------------------------------------------------------------------
(* Swaps and time locks.                                                   *)

MinimumHeightSpan == 360
MaximumHeightSpan == 518400

HTLTMsg(m) == Msg(
    /\ IsAddr(m.from) /\ IsAddr(m.to)
    /\ m.crossChain \/ (m.recipientOther = 0 /\ m.senderOther = 0)
    /\ m.crossChain => m.recipientOther > 0
    /\ m.recipientOther <= 64 /\ m.senderOther <= 64
    /\ m.income <= 64
    /\ m.hash = 32
    /\ IsPositive(m.coins)
    /\ m.heightSpan >= MinimumHeightSpan /\ m.heightSpan <= MaximumHeightSpan,
    {m.from}, {m.from, AtomicSwapCoinsAccAddr})

DepositHTLTMsg(m) == Msg(IsAddr(m.from) /\ m.swapID = 32 /\ IsPositive(m.coins),
                         {m.from}, {m.from, AtomicSwapCoinsAccAddr})

ClaimHTLTMsg(m) == Msg(IsAddr(m.from) /\ m.swapID = 32 /\ m.random = 32,
                       {m.from}, {m.from, AtomicSwapCoinsAccAddr})

RefundHTLTMsg(m) == Msg(IsAddr(m.from) /\ m.swapID = 32, {m.from}, {m.from, AtomicSwapCoinsAccAddr})

TimeLockMsg(m) == Msg(
    m.description \in 1 .. 128 /\ m.lockTime > 0 /\ IsValid(m.coins) /\ IsPositive(m.coins),
    {m.from}, {m.from, TimeLockCoinsAccAddr})

TimeRelockMsg(m) == Msg(
    /\ m.recordId >= 1 /\ m.description <= 128 /\ m.lockTime >= 0
    /\ IsValid(m.coins) /\ IsNotNegative(m.coins)
    /\ m.description # 0 \/ ~IsZero(m.coins) \/ m.lockTime # 0,
    {m.from}, {m.from, TimeLockCoinsAccAddr})

TimeUnlockMsg(m) == Msg(m.recordId >= 1, {m.from}, {m.from, TimeLockCoinsAccAddr})

-----------------------------------------------------------------------------
(* The bridge and the oracle.  The zero address of a side chain is 0.      *)

BindMsg(m) == BySender(m.from,
    /\ IsAddr(m.from) /\ SymbolLen(m.symbol) > 0 /\ m.amount > 0
    /\ m.scAddr # 0 /\ m.decimals >= 0 /\ m.expireTime > 0)

UnbindMsg(m) == BySender(m.from, IsAddr(m.from) /\ SymbolLen(m.symbol) \in 1 .. 32)

TransferOutMsg(m) == BySender(m.from,
    IsAddr(m.from) /\ m.scAddr # 0 /\ m.amount > 0 /\ m.expireTime > 0)

ClaimMsg(m) == BySender(m.from, m.payload >= 33 /\ IsAddr(m.from))

-----------------------------------------------------------------------------
(* Governance.                                                             *)

MaxVotingPeriod == 2 * 7 * 24 * 60 * 60

validVoteOption(o)       == o \in {1, 2, 3, 4}
validProposalType(p)     == p \in {1, 2, 3, 4, 5}
validSideProposalType(p) == p \in {129, 130}
validSideChainId(s)      == s \in 1 .. 20

proposalOK(m) ==
    /\ m.title \in 1 .. 128 /\ m.description \in 1 .. 2048
    /\ m.from.len > 0
    /\ IsValid(m.coins) /\ IsNotNegative(m.coins)
    /\ m.votingPeriod \in 1 .. MaxVotingPeriod

depositOK(m) == m.from.len > 0 /\ IsValid(m.coins) /\ IsNotNegative(m.coins) /\ m.proposalID >= 0

voteOK(m) == m.from.len > 0 /\ m.proposalID >= 0 /\ validVoteOption(m.option)

SubmitProposalMsg(m) == BySender(m.from, proposalOK(m) /\ validProposalType(m.proposalType))
DepositMsg(m)        == BySender(m.from, depositOK(m))
VoteMsg(m)           == BySender(m.from, voteOK(m))

\* The side chain id of a proposal is not checked.
SideChainSubmitProposalMsg(m) == BySender(m.from, proposalOK(m) /\ validSideProposalType(m.proposalType))
SideChainDepositMsg(m)        == BySender(m.from, validSideChainId(m.sideChainId) /\ depositOK(m))
SideChainVoteMsg(m)           == BySender(m.from, validSideChainId(m.sideChainId) /\ voteOK(m))

(* Parameters of a side chain.  Amounts in units of 10^7, minChange of     *)
(* 10^5; an optional value is a sequence of at most one element.           *)

Minute == 60
Days   == 24 * 60 * 60

IbcParams(p)    == p.fee > 0
OracleParams(p) == p.needed # <<>> /\ p.needed[1] \in 5 .. 10

SlashParams(p) ==
    /\ p.evidenceAge \in Minute .. 100 * Days
    /\ p.doubleSignUnbond >= 60 * Minute
    /\ p.downtimeUnbond \in Minute .. 100 * Days
    /\ p.tooLowUnbond \in Minute .. 100 * Days
    /\ p.doubleSignSlash >= 10
    /\ p.downtimeSlash \in 10 .. 100000
    /\ p.reward \in 1 .. 10000
    /\ p.fee \in 10 .. 10000

StakeParams(p) ==
    /\ p.bondDenom = "BNB"
    /\ p.unbondingTime \in Minute .. 100 * Days
    /\ p.maxValidators \in 1 .. 500
    /\ p.minSelf \in 10 .. 100000000
    /\ p.minChange >= 1

supportParams == {"slash", "ibc", "oracle", "staking"}

UpdateCheck(p) ==
    CASE p.kind = "ibc"     -> IbcParams(p)
      [] p.kind = "oracle"  -> OracleParams(p)
      [] p.kind = "slash"   -> SlashParams(p)
      [] p.kind = "staking" -> StakeParams(p)

delete(paramSet, kind) == paramSet \ {kind}

\* SCChangeParams.Check: the set of the kinds not seen yet, {"!"} after a failure.
SCChangeParamsCheck(params) ==
    /\ Len(params) = Cardinality(supportParams)
    /\ {"!"} # foldLeft(
            LAMBDA paramSet, sc :
                IF sc.kind = "nil" \/ sc.kind \notin paramSet THEN {"!"}
                ELSE IF UpdateCheck(sc) THEN delete(paramSet, sc.kind) ELSE {"!"},
            supportParams, params)

\* CSCParamChange.Check: target and value are hexadecimal, [hex, len].
CSCParamChangeCheck(c) ==
    /\ c.target.hex /\ c.value.hex
    /\ c.key \in 1 .. 255 /\ c.value.len \in 1 .. 255
    /\ c.target.len = AddrLen

-----------------------------------------------------------------------------
(* Staking.                                                                *)

\* Description # {}, and EnsureLength.
descriptionOK(d) ==
    /\ d.moniker + d.identity + d.website + d.details > 0
    /\ d.moniker <= 70 /\ d.identity <= 3000 /\ d.website <= 140 /\ d.details <= 280

\* Commission.Validate, with rates in tenths.
commissionOK(c) ==
    /\ c.maxRate \in 0 .. 10
    /\ c.rate \in 0 .. c.maxRate
    /\ c.maxChange \in 0 .. c.maxRate

validatorOK(m) == IsAddr(m.from) /\ IsAddr(m.validator) /\ descriptionOK(m.desc) /\ commissionOK(m.commission)

MsgCreateValidator(m) == Msg(validatorOK(m) /\ m.amount > 0, {m.from, m.validator}, {m.from, m.validator})

MsgRemoveValidator(m) == BySender(m.from,
    IsAddr(m.from) /\ IsAddr(m.validator) /\ IsAddr(m.consensus) /\ m.proposalID > 0)

MsgSideChainUnjail(m) == BySender(m.validator, m.validator # NilAddr /\ validSideChainId(m.sideChainId))

\* The amount of the delegation is not checked.
CreateSideChainValidatorMsg(m) == Msg(
    validatorOK(m) /\ validSideChainId(m.sideChainId) /\ m.consAddr = AddrLen /\ m.feeAddr = AddrLen,
    {m.from, m.validator}, {m.from, m.validator})

EditSideChainValidatorMsg(m) == BySender(m.from,
    /\ IsAddr(m.from) /\ descriptionOK(m.desc)
    /\ m.rate # <<>> => m.rate[1] \in 0 .. 10
    /\ validSideChainId(m.sideChainId) /\ m.feeAddr = AddrLen)

MinDelegationAmount == 10000000

SideChainDelegateMsg(m) == Msg(
    IsAddr(m.from) /\ IsAddr(m.validator) /\ m.amount >= MinDelegationAmount /\ validSideChainId(m.sideChainId),
    {m.from}, {m.from, m.validator})

\* The destination is not among the involved addresses.
SideChainRedelegateMsg(m) == Msg(
    /\ IsAddr(m.from) /\ IsAddr(m.src) /\ IsAddr(m.dst) /\ m.src # m.dst
    /\ m.amount >= MinDelegationAmount /\ validSideChainId(m.sideChainId),
    {m.from}, {m.from, m.src})

SideChainUndelegateMsg(m) == Msg(
    IsAddr(m.from) /\ IsAddr(m.validator) /\ m.amount > 0 /\ validSideChainId(m.sideChainId),
    {m.from}, {m.from, m.validator})

-----------------------------------------------------------------------------
(* The interface Msg, and the codec.                                       *)

MsgOf(m) ==
    CASE m.t = "TokenIssueMsg" -> TokenIssueMsg(m)
      [] m.t = "MiniTokenIssueMsg" -> MiniTokenIssueMsg(m)
      [] m.t = "TinyTokenIssueMsg" -> TinyTokenIssueMsg(m)
      [] m.t = "TokenFreezeMsg" -> TokenFreezeMsg(m)
      [] m.t = "TokenUnfreezeMsg" -> TokenUnfreezeMsg(m)
      [] m.t = "TokenBurnMsg" -> TokenBurnMsg(m)
      [] m.t = "MintMsg" -> MintMsg(m)
      [] m.t = "SetURIMsg" -> SetURIMsg(m)
      [] m.t = "TransferOwnershipMsg" -> TransferOwnershipMsg(m)
      [] m.t = "SetAccountFlagsMsg" -> SetAccountFlagsMsg(m)
      [] m.t = "DexListMsg" -> DexListMsg(m)
      [] m.t = "ListMiniMsg" -> ListMiniMsg(m)
      [] m.t = "CreateOrderMsg" -> CreateOrderMsg(m)
      [] m.t = "CancelOrderMsg" -> CancelOrderMsg(m)
      [] m.t = "SendMsg" -> SendMsg(m)
      [] m.t = "HTLTMsg" -> HTLTMsg(m)
      [] m.t = "DepositHTLTMsg" -> DepositHTLTMsg(m)
      [] m.t = "ClaimHTLTMsg" -> ClaimHTLTMsg(m)
      [] m.t = "RefundHTLTMsg" -> RefundHTLTMsg(m)
      [] m.t = "TimeLockMsg" -> TimeLockMsg(m)
      [] m.t = "TimeRelockMsg" -> TimeRelockMsg(m)
      [] m.t = "TimeUnlockMsg" -> TimeUnlockMsg(m)
      [] m.t = "BindMsg" -> BindMsg(m)
      [] m.t = "UnbindMsg" -> UnbindMsg(m)
      [] m.t = "TransferOutMsg" -> TransferOutMsg(m)
      [] m.t = "ClaimMsg" -> ClaimMsg(m)
      [] m.t = "SubmitProposalMsg" -> SubmitProposalMsg(m)
      [] m.t = "DepositMsg" -> DepositMsg(m)
      [] m.t = "VoteMsg" -> VoteMsg(m)
      [] m.t = "SideChainSubmitProposalMsg" -> SideChainSubmitProposalMsg(m)
      [] m.t = "SideChainDepositMsg" -> SideChainDepositMsg(m)
      [] m.t = "SideChainVoteMsg" -> SideChainVoteMsg(m)
      [] m.t = "MsgCreateValidator" -> MsgCreateValidator(m)
      [] m.t = "MsgRemoveValidator" -> MsgRemoveValidator(m)
      [] m.t = "MsgSideChainUnjail" -> MsgSideChainUnjail(m)
      [] m.t = "CreateSideChainValidatorMsg" -> CreateSideChainValidatorMsg(m)
      [] m.t = "EditSideChainValidatorMsg" -> EditSideChainValidatorMsg(m)
      [] m.t = "SideChainDelegateMsg" -> SideChainDelegateMsg(m)
      [] m.t = "SideChainRedelegateMsg" -> SideChainRedelegateMsg(m)
      [] m.t = "SideChainUndelegateMsg" -> SideChainUndelegateMsg(m)

\* Every message is registered with the codec but UnbindMsg.
RegisterCodec(m) == m.t # "UnbindMsg"

(* A method of a client builds the message of type t from its key k and    *)
(* the arguments a, which have the names of the fields, or returns an      *)
(* error first.                                                            *)
Sent(t, k, a) == join([t |-> t, from |-> k], a)

Refused == [t |-> "refused"]

=============================================================================
