------------------------------ MODULE RpcCalls ------------------------------
(***************************************************************************)
(* The transactions of client/rpc: which message each method builds for    *)
(* the key k and the arguments a, or that it returns an error first        *)
(* (Refused).  The nil check of the key, which all of them begin with, is  *)
(* in the module ClientCalls.                                              *)
(***************************************************************************)
EXTENDS Messages

\* fromCoins of SendToken: the sum of the sorted coins of the transfers.
fromCoins(transfers) == foldLeft(LAMBDA sum, t : Plus(sum, Sort(t.coins)), <<>>, transfers)

SendToken(k, a) == CreateSendMsg(k, fromCoins(a.transfers), a.transfers)

noSymbols(a) == SymbolLen(a.base) = 0 \/ SymbolLen(a.quote) = 0

\* NewCreateOrderMsg: a limit order, good till expiry, without an id yet.
NewCreateOrderMsg(k, a) ==
    Sent("CreateOrderMsg", k, join([orderId |-> NoID, orderType |-> 2, timeInForce |-> 1], a))

CreateOrder(k, a) == IF noSymbols(a) THEN Refused ELSE NewCreateOrderMsg(k, a)

CancelOrder(k, a) == IF noSymbols(a) \/ a.refId = NoID THEN Refused ELSE Sent("CancelOrderMsg", k, a)

HTLT(k, a)                   == Sent("HTLTMsg", k, a)
DepositHTLT(k, a)            == Sent("DepositHTLTMsg", k, a)
ClaimHTLT(k, a)              == Sent("ClaimHTLTMsg", k, a)
RefundHTLT(k, a)             == Sent("RefundHTLTMsg", k, a)
TransferTokenOwnership(k, a) == Sent("TransferOwnershipMsg", k, a)
SideChainVote(k, a)          == Sent("SideChainVoteMsg", k, a)
SideChainDeposit(k, a)       == Sent("SideChainDepositMsg", k, a)
SideChainSubmitProposal(k, a) == Sent("SideChainSubmitProposalMsg", k, a)
SubmitProposal(k, a)         == Sent("SubmitProposalMsg", k, a)
SubmitListProposal(k, a)     == Sent("SubmitProposalMsg", k, a)
Deposit(k, a)                == Sent("DepositMsg", k, a)
Vote(k, a)                   == Sent("VoteMsg", k, a)
TransferOut(k, a)            == Sent("TransferOutMsg", k, a)
Bind(k, a)                   == Sent("BindMsg", k, a)
Unbind(k, a)                 == Sent("UnbindMsg", k, a)
Claim(k, a)                  == Sent("ClaimMsg", k, a)

SideChainSubmitSCParamsProposal(k, a) ==
    IF SCChangeParamsCheck(a.scParams)
    THEN Sent("SideChainSubmitProposalMsg", k, join([proposalType |-> 129], a)) ELSE Refused

SideChainSubmitCSCParamsProposal(k, a) ==
    IF CSCParamChangeCheck(a.cscParam)
    THEN Sent("SideChainSubmitProposalMsg", k, join([proposalType |-> 130], a)) ELSE Refused

\* Mutant: the operator address comes from the caller.
CreateSideChainValidatorFor(k, a) ==
    Sent("CreateSideChainValidatorMsg", k, join([validator |-> Addr("other", AddrLen)], a))

\* NewCreateSideChainValidatorMsg takes both addresses from the key.
CreateSideChainValidator(k, a) == Sent("CreateSideChainValidatorMsg", k, join([validator |-> k], a))

EditSideChainValidator(k, a) == Sent("EditSideChainValidatorMsg", k, a)
SideChainDelegate(k, a)      == Sent("SideChainDelegateMsg", k, a)
SideChainUnbond(k, a)        == Sent("SideChainUndelegateMsg", k, a)
SideChainUnjail(k, a)        == Sent("MsgSideChainUnjail", k, a)

SideChainRedelegate(k, a) == IF a.src = a.dst THEN Refused ELSE Sent("SideChainRedelegateMsg", k, a)

RpcMethods ==
    {"SendToken", "CreateOrder", "CancelOrder", "HTLT", "DepositHTLT", "ClaimHTLT", "RefundHTLT",
     "TransferTokenOwnership", "SideChainVote", "SideChainDeposit", "SideChainSubmitProposal",
     "SideChainSubmitSCParamsProposal", "SideChainSubmitCSCParamsProposal", "SubmitProposal",
     "SubmitListProposal", "Deposit", "Vote", "TransferOut", "Bind", "Unbind", "Claim",
     "CreateSideChainValidator", "EditSideChainValidator", "SideChainDelegate",
     "SideChainRedelegate", "SideChainUnbond", "SideChainUnjail"}

RpcMessage(op, k, a) ==
    CASE op = "SendToken" -> SendToken(k, a)
      [] op = "CreateOrder" -> CreateOrder(k, a)
      [] op = "CancelOrder" -> CancelOrder(k, a)
      [] op = "HTLT" -> HTLT(k, a)
      [] op = "DepositHTLT" -> DepositHTLT(k, a)
      [] op = "ClaimHTLT" -> ClaimHTLT(k, a)
      [] op = "RefundHTLT" -> RefundHTLT(k, a)
      [] op = "TransferTokenOwnership" -> TransferTokenOwnership(k, a)
      [] op = "SideChainVote" -> SideChainVote(k, a)
      [] op = "SideChainDeposit" -> SideChainDeposit(k, a)
      [] op = "SideChainSubmitProposal" -> SideChainSubmitProposal(k, a)
      [] op = "SideChainSubmitSCParamsProposal" -> SideChainSubmitSCParamsProposal(k, a)
      [] op = "SideChainSubmitCSCParamsProposal" -> SideChainSubmitCSCParamsProposal(k, a)
      [] op = "SubmitProposal" -> SubmitProposal(k, a)
      [] op = "SubmitListProposal" -> SubmitListProposal(k, a)
      [] op = "Deposit" -> Deposit(k, a)
      [] op = "Vote" -> Vote(k, a)
      [] op = "TransferOut" -> TransferOut(k, a)
      [] op = "Bind" -> Bind(k, a)
      [] op = "Unbind" -> Unbind(k, a)
      [] op = "Claim" -> Claim(k, a)
      [] op = "CreateSideChainValidator" -> CreateSideChainValidator(k, a)
      [] op = "EditSideChainValidator" -> EditSideChainValidator(k, a)
      [] op = "SideChainDelegate" -> SideChainDelegate(k, a)
      [] op = "SideChainRedelegate" -> SideChainRedelegate(k, a)
      [] op = "SideChainUnbond" -> SideChainUnbond(k, a)
      [] op = "SideChainUnjail" -> SideChainUnjail(k, a)

=============================================================================
