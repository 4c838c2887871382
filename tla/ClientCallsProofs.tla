-------------------------- MODULE ClientCallsProofs --------------------------
(***************************************************************************)
(* Proofs about ClientCalls: for any calls, arguments, keys and networks,  *)
(* a transaction is signed for itself, its result tells what became of it, *)
(* and the sequence that the rpc client reads is the next one.  For every  *)
(* query of both clients and whatever the node replies, a failed request   *)
(* is never taken for an answer.  The first sections are lemmas about what *)
(* the methods build and what the queries read, the last is the invariant  *)
(* about messages that MessageProofs starts from.                          *)
(***************************************************************************)
EXTENDS ClientCalls, TLAPS

-----------------------------------------------------------------------------
(* The messages that the methods build.                                    *)

\* The types of messages that the field from signs alone.
SenderSigns ==
    {"TokenIssueMsg", "MiniTokenIssueMsg", "TinyTokenIssueMsg", "TokenFreezeMsg", "TokenUnfreezeMsg",
     "TokenBurnMsg", "MintMsg", "SetURIMsg", "TransferOwnershipMsg", "SetAccountFlagsMsg", "DexListMsg",
     "ListMiniMsg", "CreateOrderMsg", "CancelOrderMsg", "HTLTMsg", "DepositHTLTMsg", "ClaimHTLTMsg",
     "RefundHTLTMsg", "TimeLockMsg", "TimeRelockMsg", "TimeUnlockMsg", "BindMsg", "UnbindMsg",
     "TransferOutMsg", "ClaimMsg", "SubmitProposalMsg", "DepositMsg", "VoteMsg",
     "SideChainSubmitProposalMsg", "SideChainDepositMsg", "SideChainVoteMsg", "MsgRemoveValidator",
     "EditSideChainValidatorMsg", "SideChainDelegateMsg", "SideChainRedelegateMsg",
     "SideChainUndelegateMsg"}

\* GetSigners and GetInvolvedAddresses of those types.
LEMMA SenderSignsAlone ==
    ASSUME NEW m, m.t \in SenderSigns
    PROVE  MsgOf(m).signers = {m.from} /\ m.from \in MsgOf(m).involved
BY ZenonT(30) DEF SenderSigns, MsgOf, TokenIssueMsg, MiniTokenIssueMsg, TinyTokenIssueMsg, TokenFreezeMsg,
       TokenUnfreezeMsg, TokenBurnMsg, MintMsg, SetURIMsg, TransferOwnershipMsg, SetAccountFlagsMsg,
       DexListMsg, ListMiniMsg, CreateOrderMsg, CancelOrderMsg, HTLTMsg, DepositHTLTMsg, ClaimHTLTMsg,
       RefundHTLTMsg, TimeLockMsg, TimeRelockMsg, TimeUnlockMsg, BindMsg, UnbindMsg, TransferOutMsg,
       ClaimMsg, SubmitProposalMsg, DepositMsg, VoteMsg, SideChainSubmitProposalMsg,
       SideChainDepositMsg, SideChainVoteMsg, MsgRemoveValidator, EditSideChainValidatorMsg,
       SideChainDelegateMsg, SideChainRedelegateMsg, SideChainUndelegateMsg, BySender, Msg

\* A validator that creates itself signs once.
LEMMA ValidatorSignsAlone ==
    ASSUME NEW m, m.t = "CreateSideChainValidatorMsg", m.validator = m.from
    PROVE  MsgOf(m).signers = {m.from} /\ m.from \in MsgOf(m).involved
BY Zenon DEF MsgOf, CreateSideChainValidatorMsg, Msg

\* A message of CreateSendMsg has one input.
LEMMA SendSignsAlone ==
    ASSUME NEW m, m.t = "SendMsg", NEW from, NEW coins, m.inputs = <<[address |-> from, coins |-> coins]>>
    PROVE  MsgOf(m).signers = {from} /\ from \in MsgOf(m).involved
<1>1. MsgOf(m) = SendMsg(m)
  BY Zenon DEF MsgOf
<1>2. {m.inputs[i].address : i \in DOMAIN m.inputs} = {from}
  OBVIOUS
<1> QED
  BY <1>1, <1>2 DEF SendMsg, Msg

\* The id of an order is in no other answer of the message than ValidateBasic.
LEMMA OrderSigns ==
    ASSUME NEW m, m.t = "CreateOrderMsg", {"t", "from", "orderId"} \subseteq DOMAIN m, NEW id
    PROVE  LET n == [m EXCEPT !.orderId = id]
           IN  /\ n.t = "CreateOrderMsg" /\ n.orderId = id /\ DOMAIN n = DOMAIN m
               /\ MsgOf(n).signers = MsgOf(m).signers /\ MsgOf(n).involved = MsgOf(m).involved
<1> DEFINE n == [m EXCEPT !.orderId = id]
<1>1. n.t = "CreateOrderMsg" /\ n.orderId = id /\ DOMAIN n = DOMAIN m
  OBVIOUS
<1>2. n.from = m.from
  OBVIOUS
<1>3. MsgOf(n) = CreateOrderMsg(n) /\ MsgOf(m) = CreateOrderMsg(m)
  BY <1>1, Zenon DEF MsgOf
<1>4. \A v, w : BySender(n.from, v).signers = BySender(m.from, w).signers /\ BySender(n.from, v).involved = BySender(m.from, w).involved
  BY <1>2, Zenon DEF BySender, Msg
<1> QED
  BY <1>1, <1>3, <1>4, Zenon DEF CreateOrderMsg

\* The messages of the rpc client: the key signs alone and is involved, and an
\* order has a field for its id.
LEMMA RpcBuilds ==
    ASSUME NEW op \in RpcMethods, NEW k, NEW a, RpcMessage(op, k, a) # Refused
    PROVE  LET m == RpcMessage(op, k, a)
           IN  /\ op # "SideChainUnjail" => MsgOf(m).signers = {k} /\ k \in MsgOf(m).involved
               /\ m.t = "CreateOrderMsg" => {"t", "from", "orderId"} \subseteq DOMAIN m
<1> DEFINE m == RpcMessage(op, k, a)
<1>1. ASSUME NEW t \in SenderSigns \ {"CreateOrderMsg"}, NEW b, m = Sent(t, k, b)
      PROVE  m.t # "CreateOrderMsg" /\ MsgOf(m).signers = {k} /\ k \in MsgOf(m).involved
  <2>1. m.t = t /\ m.from = k
    BY <1>1, Zenon DEF Sent, join
  <2> QED
    BY <2>1, SenderSignsAlone, Zenon
<1>2. CASE op = "SendToken"
  <2>1. m = CreateSendMsg(k, fromCoins(a.transfers), a.transfers)
    BY <1>2, Zenon DEF RpcMessage, SendToken
  <2>2. m.t = "SendMsg" /\ m.inputs = <<[address |-> k, coins |-> fromCoins(a.transfers)]>>
    BY <2>1 DEF CreateSendMsg
  <2> QED
    BY <2>2, SendSignsAlone, Zenon
<1>3. CASE op = "CreateOrder"
  <2> DEFINE b == join([orderId |-> NoID, orderType |-> 2, timeInForce |-> 1], a)
  <2>1. m = Sent("CreateOrderMsg", k, b)
    BY <1>3, Zenon DEF RpcMessage, CreateOrder, NewCreateOrderMsg
  <2>2. "orderId" \in DOMAIN b
    BY Zenon DEF join
  <2> HIDE DEF b, m
  <2>3. m.t = "CreateOrderMsg" /\ m.from = k /\ {"t", "from", "orderId"} \subseteq DOMAIN m
    BY <2>1, <2>2, Zenon DEF Sent, join
  <2> QED
    BY <2>3, SenderSignsAlone DEF SenderSigns, m
<1>4. CASE op = "CreateSideChainValidator"
  <2>1. m = Sent("CreateSideChainValidatorMsg", k, join([validator |-> k], a))
    BY <1>4, Zenon DEF RpcMessage, CreateSideChainValidator
  <2>2. m.t = "CreateSideChainValidatorMsg" /\ m.from = k /\ m.validator = k
    BY <2>1, Zenon DEF Sent, join
  <2> QED
    BY <2>2, ValidatorSignsAlone, Zenon
<1>5. CASE op = "SideChainUnjail"
  <2>1. m.t = "MsgSideChainUnjail"
    BY <1>5, Zenon DEF RpcMessage, SideChainUnjail, Sent, join
  <2> QED
    BY <1>5, <2>1, Zenon
<1>6. CASE op \notin {"SendToken", "CreateOrder", "CreateSideChainValidator", "SideChainUnjail"}
  <2>1. \E t \in SenderSigns \ {"CreateOrderMsg"} : \E b : m = Sent(t, k, b)
    BY <1>6, SMTT(30) DEF SenderSigns, RpcMethods, RpcMessage, CancelOrder, HTLT, DepositHTLT, ClaimHTLT,
         RefundHTLT, TransferTokenOwnership, SideChainVote, SideChainDeposit,
         SideChainSubmitProposal, SubmitProposal, SubmitListProposal, Deposit, Vote,
         TransferOut, Bind, Unbind, Claim, SideChainSubmitSCParamsProposal,
         SideChainSubmitCSCParamsProposal, EditSideChainValidator, SideChainDelegate,
         SideChainUnbond, SideChainRedelegate
  <2> QED
    BY <1>1, <2>1, ZenonT(30)
<1> QED
  BY <1>2, <1>3, <1>4, <1>5, <1>6

\* The messages of the gateway client.
LEMMA GatewayBuilds ==
    ASSUME NEW op \in GatewayMethods, NEW k, NEW a, GatewayMessage(op, k, a) # Refused
    PROVE  LET m == GatewayMessage(op, k, a)
           IN  /\ MsgOf(m).signers = {k} /\ k \in MsgOf(m).involved
               /\ m.t = "CreateOrderMsg" => {"t", "from", "orderId"} \subseteq DOMAIN m
<1> DEFINE m == GatewayMessage(op, k, a)
<1>1. ASSUME NEW t \in SenderSigns \ {"CreateOrderMsg"}, NEW b, m = Sent(t, k, b)
      PROVE  m.t # "CreateOrderMsg" /\ MsgOf(m).signers = {k} /\ k \in MsgOf(m).involved
  <2>1. m.t = t /\ m.from = k
    BY <1>1 DEF Sent, join
  <2> QED
    BY <2>1, SenderSignsAlone
<1>2. CASE op = "SendToken"
  <2>1. PICK coins : m = CreateSendMsg(k, coins, a.transfers)
    BY <1>2, Zenon DEF GatewayMessage, SendToken_
  <2>2. m.t = "SendMsg" /\ m.inputs = <<[address |-> k, coins |-> coins]>>
    BY <2>1 DEF CreateSendMsg
  <2> QED
    BY <2>2, SendSignsAlone, Zenon
<1>3. CASE op = "CreateOrder"
  <2> DEFINE b == join([orderId |-> NoID, orderType |-> 2, timeInForce |-> 1], a)
  <2>1. m = Sent("CreateOrderMsg", k, b)
    BY <1>3, Zenon DEF GatewayMessage, CreateOrder_
  <2>2. "orderId" \in DOMAIN b
    BY DEF join
  <2> HIDE DEF b, m
  <2>3. m.t = "CreateOrderMsg" /\ m.from = k /\ {"t", "from", "orderId"} \subseteq DOMAIN m
    BY <2>1, <2>2 DEF Sent, join
  <2> QED
    BY <2>3, SenderSignsAlone DEF SenderSigns, m
<1>4. CASE op \notin {"SendToken", "CreateOrder"}
  <2>1. \E t \in SenderSigns \ {"CreateOrderMsg"} : \E b : m = Sent(t, k, b)
    BY <1>4, SMTT(30) DEF SenderSigns, GatewayMethods, GatewayMessage, CancelOrder_, withSymbol, IssueToken,
         IssueMiniToken, IssueTinyToken, BurnToken, FreezeToken, UnfreezeToken, MintToken,
         HTLT_, DepositHTLT_, ClaimHTLT_, RefundHTLT_, TransferTokenOwnership_, SetURI,
         ListPair, ListMiniPair, SetAccountFlags, VoteProposal, DepositProposal,
         SubmitProposal_, SubmitListPairProposal, TimeLock, TimeUnLock, TimeReLock
  <2> QED
    BY <1>1, <2>1, ZenonT(30)
<1> QED
  BY <1>2, <1>3, <1>4, Zenon

-----------------------------------------------------------------------------
(* Reading one reply.                                                      *)

\* The results that a query may make of its last reply.
Reads(op, reply, out) ==
    /\ out # Ask
    /\ out.r \in {"none", "val"} => reply.k # "lost" /\ (reply.k = "refused" => op \in PassedOn)
    /\ out.r = "none" =>
         \/ reply.k \in {"nil", "empty", "notfound"}
         \/ /\ op \in {"QuerySideChainRedelegations", "QuerySideChainUnbondingDelegations"}
            /\ reply.k = "data" /\ reply.v = <<>>
    /\ out.r = "panic" => op = "GetCurrentOracleSequence" /\ reply.k = "empty"

\* The queries of the rpc client that make two requests.
Twice == {"GetBalance", "QuerySideChainValidator", "QuerySideChainRedelegation",
          "QuerySideChainUnbondingDelegation", "QuerySideChainRedelegations",
          "QuerySideChainUnbondingDelegations", "GetSideChainPool"}

\* What is left out: an error is always a result.
LEMMA ErrorReads ==
    ASSUME NEW op, NEW reply
    PROVE  Reads(op, reply, Err)
BY Zenon DEF Reads, Err, Ask

\* A value is a result of any reply that came and was not refused.
LEMMA ValueReads ==
    ASSUME NEW op, NEW reply, reply.k \notin {"lost", "refused"}, NEW v
    PROVE  Reads(op, reply, Val(v))
BY ZenonT(30) DEF Reads, Val, Ask

\* decode, which all others use, and the readers of one reply.
LEMMA Decoded ==
    ASSUME NEW op, NEW reply
    PROVE  /\ Reads(op, reply, decode(reply)) /\ Reads(op, reply, decodeIfOK(reply))
           /\ Reads(op, reply, listOrNone(reply)) /\ Reads(op, reply, timelockRecord(reply))
           /\ Reads(op, reply, swapRecords(reply)) /\ Reads(op, reply, prophecyOf(reply))
           /\ Reads(op, reply, commitAccount(reply)) /\ Reads(op, reply, account(reply))
           /\ Reads(op, reply, listOf(reply)) /\ Reads(op, reply, foundIn(reply))
           /\ Reads(op, reply, candles(reply)) /\ Reads(op, reply, accountOrNone(reply))
<1> USE DEF Reads, Err, Ask, None, Val, decode, decodeIfOK, IsOK, noBytes, isNil
<1>1. Reads(op, reply, decode(reply)) /\ Reads(op, reply, decodeIfOK(reply))
  OBVIOUS
<1>2. Reads(op, reply, listOrNone(reply)) /\ Reads(op, reply, timelockRecord(reply))
  BY Zenon DEF listOrNone, timelockRecord
<1>3. Reads(op, reply, swapRecords(reply)) /\ Reads(op, reply, prophecyOf(reply))
  BY Zenon DEF swapRecords, prophecyOf, QueryStore
<1>4. Reads(op, reply, commitAccount(reply)) /\ Reads(op, reply, account(reply))
  BY Zenon DEF commitAccount, account, QueryStore
<1>5. Reads(op, reply, listOf(reply)) /\ Reads(op, reply, foundIn(reply))
  BY Zenon DEF listOf, foundIn, QueryWithData
<1>6. Reads(op, reply, candles(reply)) /\ Reads(op, reply, accountOrNone(reply))
  BY Zenon DEF candles, accountOrNone
<1> QED
  BY <1>1, <1>2, <1>3, <1>4, <1>5, <1>6, Zenon

\* passOn, sequenceOf and balances.
LEMMA DecodedOtherwise ==
    ASSUME NEW op, NEW reply
    PROVE  /\ op \in PassedOn => Reads(op, reply, passOn(reply))
           /\ op = "GetCurrentOracleSequence" => Reads(op, reply, sequenceOf(reply))
           /\ Reads(op, reply, balances(reply))
<1>1. op \in PassedOn => Reads(op, reply, passOn(reply))
  BY Zenon DEF Reads, passOn, Err, Ask, Val
<1>2. op = "GetCurrentOracleSequence" => Reads(op, reply, sequenceOf(reply))
  BY Zenon DEF Reads, sequenceOf, QueryStore, IsOK, isNil, Err, Ask, Val, None, Panic
<1>3. Reads(op, reply, balances(reply))
  <2>1. CASE account(reply).r # "val"
    BY <2>1, Decoded, Zenon DEF balances
  <2>2. CASE account(reply).r = "val"
    <3>1. PICK v : balances(reply) = Val(v)
      BY <2>2, Zenon DEF balances
    <3>2. reply.k = "data"
      BY <2>2, Zenon DEF account, IsOK, noBytes, decodeIfOK, decode, None, Err
    <3> QED
      BY <3>1, <3>2 DEF Reads, Val, Ask
  <2> QED
    BY <2>1, <2>2, Zenon
<1> QED
  BY <1>1, <1>2, <1>3, Zenon

\* A query of the rpc client with one request.
LEMMA RpcOnce ==
    ASSUME NEW op \in QueryMethods \ Twice, NEW a, NEW rs
    PROVE  LET out == RpcQuery(op, a, rs) IN
           IF rs = <<>> THEN out \in {Ask, Err} ELSE Reads(op, rs[1], out)
<1> DEFINE out == RpcQuery(op, a, rs)
           good == IF rs = <<>> THEN out \in {Ask, Err} ELSE Reads(op, rs[1], out)
<1>1. CASE op \in PassedOn
  BY <1>1, ErrorReads, DecodedOtherwise, ZenonT(30)
  DEF PassedOn, RpcQuery, OneRequest, ABCIQueryWithOptions, UnconfirmedTxs, BlockchainInfo, Block,
      BlockResults, Commit, Validators, Tx, TxSearch, TxInfoSearch
<1>2. CASE op \in {"ListAllTokens", "ListAllMiniTokens", "GetTokenInfo", "GetMiniTokenInfo", "GetFee",
                   "GetOpenOrders", "GetTradingPairs", "GetMiniTradingPairs", "GetDepth",
                   "GetTimelocks", "GetTimelock"}
  BY <1>2, ErrorReads, Decoded, ZenonT(30)
  DEF RpcQuery, OneRequest, ListAllTokens, ListAllMiniTokens, GetTokenInfo, GetMiniTokenInfo, GetFee,
      GetOpenOrders, GetTradingPairs, GetMiniTradingPairs, GetDepth, GetTimelocks, GetTimelock
<1>3. CASE op \in {"GetProposals", "GetSideChainProposals", "GetProposal", "GetSideChainProposal",
                   "GetSideChainParams", "GetSwapByID", "GetSwapByCreator", "GetSwapByRecipient",
                   "GetProphecy", "GetCommitAccount", "GetAccount"}
  BY <1>3, ErrorReads, Decoded, Zenon
  DEF RpcQuery, OneRequest, getProposals, getProposal, GetSideChainParams, GetSwapByID,
      GetSwapByCreator, GetSwapByRecipient, GetProphecy, GetCommitAccount, GetAccount
<1>4. CASE op \in {"GetCurrentOracleSequence", "GetBalances"}
  BY <1>4, ErrorReads, DecodedOtherwise, Zenon
  DEF RpcQuery, OneRequest, GetCurrentOracleSequence, GetBalances
<1>5. CASE op \in {"QuerySideChainTopValidators", "QuerySideChainDelegation",
                   "QuerySideChainDelegations", "GetSideChainUnBondingDelegationsByValidator",
                   "GetSideChainRedelegationsByValidator", "GetSideChainAllValidatorsCount",
                   "GetStakeValidators", "GetDelegatorUnbondingDelegations"}
  BY <1>5, ErrorReads, Decoded, Zenon
  DEF RpcQuery, OneRequest, QuerySideChainTopValidators, QuerySideChainDelegation,
      QuerySideChainDelegations, GetSideChainUnBondingDelegationsByValidator,
      GetSideChainRedelegationsByValidator, GetSideChainAllValidatorsCount, GetStakeValidators,
      GetDelegatorUnbondingDelegations
<1> QED
  BY <1>1, <1>2, <1>3, <1>4, <1>5 DEF QueryMethods, Twice, PassedOn

\* A query of the gateway client.
LEMMA GatewayOnce ==
    ASSUME NEW op \in GatewayQueries, NEW a, NEW rs
    PROVE  LET out == GatewayQuery(op, a, rs) IN
           IF rs = <<>> THEN out \in {Ask, Err} ELSE Reads(op, rs[1], out)
BY ErrorReads, Decoded, Zenon
DEF GatewayQueries, GatewayQuery, OneRequest, GetClosedOrders, GetMiniClosedOrders, GetTrades,
    GetMiniTrades, GetOpenOrders_, GetMiniOpenOrders, GetDepth_, GetMarkets, GetMiniMarkets,
    GetOrder, GetMiniOrder, GetTokens, GetMiniTokens, GetTicker24h, GetMiniTicker24h, GetTime,
    GetNodeInfo, GetKlines, GetMiniKlines, GetAccount_

\* The results of a list of redelegations or unbonding delegations.
ListReads(reply, res) ==
    \/ res = Err
    \/ reply.k = "data" /\ reply.v = <<>> /\ res = None
    \/ reply.k = "data" /\ \E v : res = Val(v)

\* Those results, for all that the node may reply.
LEMMA ListsRead ==
    ASSUME NEW reply, NEW prefix
    PROVE  /\ ListReads(reply, redelegations(reply, prefix))
           /\ ListReads(reply, unbondingDelegations(reply, prefix))
<1> SUFFICES ASSUME NEW res, res = redelegations(reply, prefix) \/ res = unbondingDelegations(reply, prefix)
             PROVE  ListReads(reply, res)
  OBVIOUS
<1>1. \/ QueryStoreSubspace(reply) = Err
      \/ reply.k = "data" /\ QueryStoreSubspace(reply) = Val(reply.v)
  BY Zenon DEF QueryStoreSubspace, IsOK, noBytes, decode
<1>2. Err.r # "val" /\ Val(reply.v).v = reply.v
  BY Zenon DEF Err, Val
<1>3. ASSUME NEW kvs, NEW kept
      PROVE  \/ records(kvs, kept) = kvs /\ kvs.r # "val"
             \/ records(kvs, kept) = None /\ kvs.r = "val" /\ kvs.v = <<>>
             \/ records(kvs, kept) = Err
             \/ kvs.r = "val" /\ \E v : records(kvs, kept) = Val(v)
  BY Zenon DEF records
<1>4. PICK kept : res = records(QueryStoreSubspace(reply), kept)
  BY Zenon DEF redelegations, unbondingDelegations
<1>5. Val(reply.v).r = "val"
  BY Zenon DEF Val
<1> QED
  BY <1>1, <1>2, <1>3, <1>4, <1>5 DEF ListReads

\* A query of the rpc client with two requests; the first must have passed.
LEMMA RpcTwice ==
    ASSUME NEW op \in Twice \ {"GetSideChainPool"}, NEW a, NEW rs
    PROVE  LET out == RpcQuery(op, a, rs) IN
           /\ rs = <<>> => out \in {Ask, Err}
           /\ Len(rs) = 1 => out = Err \/ (out = Ask /\ rs[1].k \notin {"lost", "refused"})
           /\ Len(rs) = 2 => Reads(op, rs[2], out)
<1> DEFINE out == RpcQuery(op, a, rs)
           good == /\ rs = <<>> => out \in {Ask, Err}
                   /\ Len(rs) = 1 => out = Err \/ (out = Ask /\ rs[1].k \notin {"lost", "refused"})
                   /\ Len(rs) = 2 => Reads(op, rs[2], out)
<1>1. Len(rs) \in {1, 2} => rs # <<>>
  OBVIOUS
<1>2. CASE op = "GetBalance"
  <2>1. out = GetBalance(a, rs)
    BY <1>2, Zenon DEF RpcQuery
  <2> HIDE DEF out
  <2>2. rs = <<>> => out \in {Ask, Err}
    BY <2>1 DEF GetBalance, TwoRequests
  <2>3. Len(rs) = 1 => out = Err \/ (out = Ask /\ rs[1].k \notin {"lost", "refused"})
    BY <1>1, <2>1 DEF GetBalance, TwoRequests, existsCC
  <2>4. Len(rs) = 2 => out = Err \/ out = balance(rs[2], a.denom)
    BY <1>1, <2>1 DEF GetBalance, TwoRequests
  <2>5. balance(rs[2], a.denom) = Err \/ (rs[2].k \in {"nil", "empty", "data"} /\ \E v : balance(rs[2], a.denom) = Val(v))
    <3>1. \/ account(rs[2]).r = "err"
          \/ account(rs[2]).r \in {"none", "val"} /\ rs[2].k \in {"nil", "empty", "data"}
      BY Zenon DEF account, IsOK, noBytes, decodeIfOK, decode, Err, None, Val
    <3> QED
      BY <3>1, Zenon DEF balance
  <2>6. Len(rs) = 2 => out = Err \/ (rs[2].k \in {"nil", "empty", "data"} /\ \E v : out = Val(v))
    BY <2>4, <2>5, Zenon
  <2>7. Len(rs) = 2 => Reads(op, rs[2], out)
    BY <2>6, ErrorReads, ValueReads
  <2> QED
    BY <2>2, <2>3, <2>7 DEF out
<1>3. CASE op \in {"QuerySideChainValidator", "QuerySideChainRedelegation",
                   "QuerySideChainUnbondingDelegation"}
  <2>1. \/ out = QuerySideChainValidator(a, rs)
        \/ out = QuerySideChainRedelegation(a, rs)
        \/ out = QuerySideChainUnbondingDelegation(a, rs)
    BY <1>3, Zenon DEF RpcQuery
  <2> HIDE DEF out
  <2> USE DEF QuerySideChainValidator, QuerySideChainRedelegation, QuerySideChainUnbondingDelegation,
              TwoRequests
  <2>2. rs = <<>> => out \in {Ask, Err}
    BY <2>1
  <2>3. Len(rs) = 1 => out = Err \/ (out = Ask /\ rs[1].k \notin {"lost", "refused"})
    BY <1>1, <2>1 DEF getSideChainStorePrefixKey, IsOK, noBytes
  <2>4. Len(rs) = 2 => out = Err \/ (rs[2].k = "data" /\ \E v : out = Val(v))
    BY <1>1, <2>1
    DEF record, QueryStore, IsOK, noBytes, decode, UnmarshalRED, unmarshalUBD, Err, Val
  <2>5. Len(rs) = 2 => Reads(op, rs[2], out)
    BY <2>4, ErrorReads, ValueReads
  <2> QED
    BY <2>2, <2>3, <2>5 DEF out
<1>4. CASE op \in {"QuerySideChainRedelegations", "QuerySideChainUnbondingDelegations"}
  <2>1. \/ out = QuerySideChainRedelegations(a, rs)
        \/ out = QuerySideChainUnbondingDelegations(a, rs)
    BY <1>4, Zenon DEF RpcQuery
  <2> HIDE DEF out
  <2> USE DEF QuerySideChainRedelegations, QuerySideChainUnbondingDelegations, TwoRequests
  <2>2. rs = <<>> => out \in {Ask, Err}
    BY <2>1
  <2>3. Len(rs) = 1 => out = Err \/ (out = Ask /\ rs[1].k \notin {"lost", "refused"})
    BY <1>1, <2>1 DEF getSideChainStorePrefixKey, IsOK, noBytes
  <2>4. Len(rs) = 2 => ListReads(rs[2], out)
    BY <1>1, <2>1, ListsRead
  <2>5. Len(rs) = 2 => Reads(op, rs[2], out)
    <3>1. rs[2].k = "data" /\ rs[2].v = <<>> => Reads(op, rs[2], None)
      BY <1>4, Zenon DEF Reads, None, Ask
    <3> QED
      BY <2>4, <3>1, ErrorReads, ValueReads DEF ListReads
  <2> QED
    BY <2>2, <2>3, <2>5 DEF out
<1> QED
  BY <1>2, <1>3, <1>4, Zenon DEF Twice

-----------------------------------------------------------------------------
(* A record is read at a key made of the question, and its addresses are   *)
(* cut out of that key.                                                    *)

\* The key e is the key k with the field f put behind it.
Put(S, k, f, e) ==
    /\ e \in Seq(S) /\ Len(e) = Len(k) + Len(f)
    /\ SubSeq(e, Len(k) + 1, Len(k) + Len(f)) = f
    /\ \A i, j \in 1 .. Len(k) : SubSeq(e, i, j) = SubSeq(k, i, j)

\* What a field put behind a key leaves in the key, and the field itself.
LEMMA Field ==
    ASSUME NEW S, NEW k \in Seq(S), NEW f \in Seq(S)
    PROVE  Put(S, k, f, k \o f)
<1> DEFINE e == k \o f
           c == SubSeq(e, Len(k) + 1, Len(k) + Len(f))
<1>1. e \in Seq(S) /\ Len(e) = Len(k) + Len(f)
  OBVIOUS
<1>2. \A i \in 1 .. Len(f) : e[Len(k) + i] = f[i]
  OBVIOUS
<1>3. \A i \in 1 .. Len(k) : e[i] = k[i]
  OBVIOUS
<1> HIDE DEF e
<1>4. c = f
  <2>1. c \in Seq(S) /\ Len(c) = Len(f) /\ \A i \in 1 .. Len(f) : c[i] = e[Len(k) + i]
    BY <1>1
  <2>2. \A i \in 1 .. Len(f) : c[i] = f[i]
    BY <1>2, <2>1
  <2> HIDE DEF c
  <2> QED
    BY <2>1, <2>2
<1>5. ASSUME NEW i \in 1 .. Len(k), NEW j \in 1 .. Len(k)
      PROVE  SubSeq(e, i, j) = SubSeq(k, i, j)
  <2> DEFINE d == SubSeq(e, i, j)
             b == SubSeq(k, i, j)
  <2>1. d \in Seq(S) /\ Len(d) = IF i <= j THEN j - i + 1 ELSE 0
    BY <1>1
  <2>2. b \in Seq(S) /\ Len(b) = IF i <= j THEN j - i + 1 ELSE 0
    OBVIOUS
  <2>3. \A n \in 1 .. Len(d) : d[n] = e[i + n - 1] /\ b[n] = k[i + n - 1] /\ i + n - 1 \in 1 .. Len(k)
    BY <1>1, <2>1, <2>2
  <2> HIDE DEF d, b
  <2>4. \A n \in 1 .. Len(d) : d[n] = b[n]
    BY <1>3, <2>3, SMTT(30)
  <2>5. d = b
    BY <2>1, <2>2, <2>4
  <2> QED
    BY <2>5 DEF d, b
<1> QED
  BY <1>1, <1>4, <1>5 DEF Put, e

\* The bytes of an address of the proper length fill a field of the key.
LEMMA Bytes ==
    ASSUME NEW a, IsAddr(a), NEW S, \A i \in 1 .. AddrLen : <<a.id, i>> \in S
    PROVE  BytesOf(a) \in Seq(S) /\ Len(BytesOf(a)) = AddrLen /\ copyInto(BytesOf(a), AddrLen) = BytesOf(a)
<1>1. BytesOf(a) = [i \in 1 .. AddrLen |-> <<a.id, i>>] /\ AddrLen \in Nat
  BY DEF BytesOf, IsAddr, AddrLen
<1>2. BytesOf(a) \in Seq(S) /\ Len(BytesOf(a)) = AddrLen
  BY <1>1
<1>3. copyInto(BytesOf(a), AddrLen) = [i \in 1 .. AddrLen |-> BytesOf(a)[i]]
  BY <1>1, <1>2 DEF copyInto
<1> QED
  BY <1>1, <1>2, <1>3, Zenon

\* UnmarshalRED finds the addresses that getREDKey put into the key.
LEMMA RedelegationKey ==
    ASSUME NEW del, NEW src, NEW dst, IsAddr(del), IsAddr(src), IsAddr(dst), NEW value
    PROVE  UnmarshalRED(getREDKey(del, src, dst), value)
             = Val([del |-> BytesOf(del), src |-> BytesOf(src), dst |-> BytesOf(dst), value |-> value])
<1> DEFINE S  == {<<"red", 1>>} \cup {<<x.id, i>> : x \in {del, src, dst}, i \in 1 .. AddrLen}
           a  == BytesOf(del)
           b  == BytesOf(src)
           c  == BytesOf(dst)
           k0 == <<<<"red", 1>>>>
           k1 == k0 \o a
           k2 == k1 \o b
           k3 == k2 \o c
           n  == AddrLen
<1>1. \A x \in {del, src, dst} : \A i \in 1 .. AddrLen : <<x.id, i>> \in S
  OBVIOUS
<1>2. k0 \in Seq(S) /\ Len(k0) = 1 /\ n \in Nat
  BY DEF AddrLen
<1> HIDE DEF S, k0
<1>3. a \in Seq(S) /\ Len(a) = n /\ copyInto(a, AddrLen) = a
  BY <1>1, Bytes
<1>4. b \in Seq(S) /\ Len(b) = n /\ copyInto(b, AddrLen) = b
  BY <1>1, Bytes
<1>5. c \in Seq(S) /\ Len(c) = n /\ copyInto(c, AddrLen) = c
  BY <1>1, Bytes
<1>6. getREDKey(del, src, dst) = k3
  BY <1>3, <1>4, <1>5, Zenon DEF getREDKey, k0
<1> HIDE DEF a, b, c, n
<1>7. k1 \in Seq(S) /\ Len(k1) = 1 + n /\ SubSeq(k1, 2, 1 + n) = a
  <2>1. Put(S, k0, a, k1)
    BY <1>2, <1>3, Field, Zenon
  <2> HIDE DEF k1
  <2> QED
    BY <1>2, <1>3, <2>1 DEF Put
<1> HIDE DEF k1
<1>8. /\ k2 \in Seq(S) /\ Len(k2) = 1 + 2 * n /\ SubSeq(k2, 2 + n, 1 + 2 * n) = b
      /\ n # 0 => SubSeq(k2, 2, 1 + n) = SubSeq(k1, 2, 1 + n)
  <2>1. Put(S, k1, b, k2)
    BY <1>2, <1>4, <1>7, Field, Zenon
  <2> HIDE DEF k2
  <2>2. k2 \in Seq(S) /\ Len(k2) = 1 + 2 * n /\ SubSeq(k2, 2 + n, 1 + 2 * n) = b
    BY <1>2, <1>4, <1>7, <2>1 DEF Put
  <2>3. n # 0 => 2 \in 1 .. Len(k1) /\ 1 + n \in 1 .. Len(k1)
    BY <1>2, <1>4, <1>7
  <2> QED
    BY <2>1, <2>2, <2>3, Zenon DEF Put
<1> HIDE DEF k2
<1>9. /\ k3 \in Seq(S) /\ Len(k3) = 1 + 3 * n /\ SubSeq(k3, 2 + 2 * n, 1 + 3 * n) = c
      /\ n # 0 => /\ SubSeq(k3, 2, 1 + n) = SubSeq(k2, 2, 1 + n)
                  /\ SubSeq(k3, 2 + n, 1 + 2 * n) = SubSeq(k2, 2 + n, 1 + 2 * n)
  <2>1. Put(S, k2, c, k3)
    BY <1>2, <1>5, <1>8, Field, Zenon
  <2> HIDE DEF k3
  <2>2. k3 \in Seq(S) /\ Len(k3) = 1 + 3 * n /\ SubSeq(k3, 2 + 2 * n, 1 + 3 * n) = c
    BY <1>2, <1>5, <1>8, <2>1 DEF Put
  <2>3. n # 0 => /\ 2 \in 1 .. Len(k2) /\ 1 + n \in 1 .. Len(k2)
                 /\ 2 + n \in 1 .. Len(k2) /\ 1 + 2 * n \in 1 .. Len(k2)
    BY <1>2, <1>5, <1>8
  <2> QED
    BY <2>1, <2>2, <2>3, Zenon DEF Put
<1> HIDE DEF k3
<1>10. n # 0
  BY DEF n, AddrLen
<1>11. UnmarshalRED(k3, value) = Val([del |-> a, src |-> b, dst |-> c, value |-> value])
  BY <1>7, <1>8, <1>9, <1>10, Zenon DEF UnmarshalRED, n
<1> QED
  BY <1>6, <1>11, Zenon DEF k3, a, b, c

\* unmarshalUBD finds the addresses that getUBDKey put into the key.
LEMMA UnbondingKey ==
    ASSUME NEW del, NEW val, IsAddr(del), IsAddr(val), NEW value
    PROVE  unmarshalUBD(getUBDKey(del, val), value)
             = Val([del |-> BytesOf(del), val |-> BytesOf(val), value |-> value])
<1> DEFINE S  == {<<"ubd", 1>>} \cup {<<x.id, i>> : x \in {del, val}, i \in 1 .. AddrLen}
           a  == BytesOf(del)
           b  == BytesOf(val)
           k0 == <<<<"ubd", 1>>>>
           k1 == k0 \o a
           k2 == k1 \o b
           n  == AddrLen
<1>1. \A x \in {del, val} : \A i \in 1 .. AddrLen : <<x.id, i>> \in S
  OBVIOUS
<1>2. k0 \in Seq(S) /\ Len(k0) = 1 /\ n \in Nat
  BY DEF AddrLen
<1>3. getUBDKey(del, val) = k2
  BY Zenon DEF getUBDKey
<1> HIDE DEF S, k0
<1>4. a \in Seq(S) /\ Len(a) = n
  BY <1>1, Bytes
<1>5. b \in Seq(S) /\ Len(b) = n
  BY <1>1, Bytes
<1> HIDE DEF a, b, n
<1>6. k1 \in Seq(S) /\ Len(k1) = 1 + n /\ SubSeq(k1, 2, 1 + n) = a
  <2>1. Put(S, k0, a, k1)
    BY <1>2, <1>4, Field, Zenon
  <2> HIDE DEF k1
  <2> QED
    BY <1>2, <1>4, <2>1 DEF Put
<1> HIDE DEF k1
<1>7. /\ k2 \in Seq(S) /\ Len(k2) = 1 + 2 * n /\ SubSeq(k2, 2 + n, 1 + 2 * n) = b
      /\ n # 0 => SubSeq(k2, 2, 1 + n) = SubSeq(k1, 2, 1 + n)
  <2>1. Put(S, k1, b, k2)
    BY <1>2, <1>5, <1>6, Field, Zenon
  <2> HIDE DEF k2
  <2>2. k2 \in Seq(S) /\ Len(k2) = 1 + 2 * n /\ SubSeq(k2, 2 + n, 1 + 2 * n) = b
    BY <1>2, <1>5, <1>6, <2>1 DEF Put
  <2>3. n # 0 => 2 \in 1 .. Len(k1) /\ 1 + n \in 1 .. Len(k1)
    BY <1>2, <1>5, <1>6
  <2> QED
    BY <2>1, <2>2, <2>3, Zenon DEF Put
<1> HIDE DEF k2
<1>8. n # 0
  BY DEF n, AddrLen
<1>9. unmarshalUBD(k2, value) = Val([del |-> a, val |-> b, value |-> value])
  BY <1>6, <1>7, <1>8, Zenon DEF unmarshalUBD, n
<1> QED
  BY <1>3, <1>9, Zenon DEF k2, a, b

\* The two queries for one record: a value is what is decoded at the key.
LEMMA RecordRead ==
    ASSUME NEW op \in {"QuerySideChainRedelegation", "QuerySideChainUnbondingDelegation"}, NEW a, NEW rs,
           Len(rs) = 2, RpcQuery(op, a, rs).r = "val"
    PROVE  \E value : RpcQuery(op, a, rs) = IF op = "QuerySideChainRedelegation"
                                            THEN UnmarshalRED(getREDKey(a.del, a.src, a.dst), value)
                                            ELSE unmarshalUBD(getUBDKey(a.del, a.val), value)
<1>1. rs # <<>>
  OBVIOUS
<1>2. CASE op = "QuerySideChainRedelegation"
  <2>1. RpcQuery(op, a, rs) = QuerySideChainRedelegation(a, rs)
    BY <1>2 DEF RpcQuery
  <2> QED
    BY <1>1, <1>2, <2>1 DEF QuerySideChainRedelegation, TwoRequests, record, QueryStore, decode, Err
<1>3. CASE op = "QuerySideChainUnbondingDelegation"
  <2>1. RpcQuery(op, a, rs) = QuerySideChainUnbondingDelegation(a, rs)
    BY <1>3 DEF RpcQuery
  <2> QED
    BY <1>1, <1>3, <2>1 DEF QuerySideChainUnbondingDelegation, TwoRequests, record, QueryStore, decode, Err
<1> QED
  BY <1>2, <1>3

-----------------------------------------------------------------------------
(* The invariant.                                                          *)

\* SetKeyManager and NewRPCClient note in the history of a call that they ran.
LEMMA OthersStep ==
    ASSUME IInv, NEW k, NEW n, SetKeyManager(k) \/ NewRPCClient(n)
    PROVE  IInv'
<1> USE DEF IInv, CallInv, Running, busy, apart, Idle
<1>1. UNCHANGED <<checked, queue>> /\ ChainInv'
  BY Zenon DEF SetKeyManager, NewRPCClient, chain, ChainInv
<1>2. CASE call.pc \in {"idle", "returned"}
  <2>1. call' = call /\ call.pc # "returned"
    BY <1>2, Zenon DEF SetKeyManager, NewRPCClient
  <2> QED
    BY <1>1, <1>2, <2>1, Zenon DEF KeyInv, NetworkInv, SequenceInv, FateInv, ResultTellsFate, sent
<1>3. CASE call.pc \notin {"idle", "returned"}
  <2>1. call # Idle /\ DOMAIN call = CallFields
    BY <1>3, Zenon
  <2>2. \/ call' = [call EXCEPT !.switched = TRUE] /\ network' = network
        \/ call' = [call EXCEPT !.foreign = TRUE] /\ key' = key
    BY <1>3, Zenon DEF SetKeyManager, NewRPCClient
  <2>3. \A f \in CallFields \ {"switched", "foreign"} : call'[f] = call[f]
    BY <2>1, <2>2, Zenon DEF CallFields
  <2>4. CallInv' /\ FateInv' /\ ResultTellsFate'
    BY <1>3, <2>1, <2>2, <2>3, ZenonT(30) DEF CallFields, FateInv, ResultTellsFate, sent
  <2>5. CASE call' = [call EXCEPT !.switched = TRUE] /\ network' = network
    <3>1. call'.switched /\ call'.foreign = call.foreign
      BY <2>1, <2>5, Zenon DEF CallFields
    <3>2. KeyInv' /\ SequenceInv'
      BY <3>1, Zenon DEF KeyInv, SequenceInv
    <3>3. NetworkInv'
      BY <2>3, <2>5, <3>1, Zenon DEF NetworkInv, CallFields, posted
    <3> QED
      BY <1>1, <2>4, <3>2, <3>3, Zenon
  <2>6. CASE call' = [call EXCEPT !.foreign = TRUE] /\ key' = key
    <3>1. call'.foreign /\ call'.switched = call.switched
      BY <2>1, <2>6, Zenon DEF CallFields
    <3>2. NetworkInv'
      BY <3>1, Zenon DEF NetworkInv
    <3>3. KeyInv' /\ SequenceInv'
      BY <1>1, <2>3, <2>6, <3>1
      DEF KeyInv, SequenceInv, CallFields, posted, asked_, identified, keyNow, rpc
    <3> QED
      BY <1>1, <2>4, <3>2, <3>3, Zenon
  <2> QED
    BY <2>2, <2>5, <2>6, Zenon
<1> QED
  BY <1>2, <1>3, Zenon

\* A sequence is one of its own elements.
LEMMA OwnElements ==
    ASSUME NEW S, NEW s \in Seq(S)
    PROVE  s \in Seq(Range(s))
<1>1. s \in [1 .. Len(s) -> Range(s)] /\ Len(s) \in Nat
  BY DEF Range
<1> QED
  BY <1>1

\* The check of a queued transaction leaves the other accounts alone, and a
\* block changes nothing that a transaction has read.
LEMMA ChainStep ==
    ASSUME IInv, CheckQueued \/ NewBlock
    PROVE  IInv'
<1> USE DEF IInv
<1>1. UNCHANGED <<network, key, call>>
  BY Zenon DEF CheckQueued, NewBlock
<1>2. CallInv' /\ KeyInv' /\ NetworkInv' /\ FateInv' /\ ResultTellsFate'
  BY <1>1, ZenonT(30) DEF CallInv, Running, KeyInv, NetworkInv, FateInv, ResultTellsFate, sent, posted, asked_,
              identified, keyNow, rpc
<1>3. CASE CheckQueued
  <2>1. queue \in Seq(Range(queue)) /\ queue # <<>> /\ checked \in [Accounts -> Nat]
    BY <1>3, Zenon DEF CheckQueued, ChainInv
  <2>2. queue' \in Seq(Range(queue)) /\ \A i \in DOMAIN queue' : i + 1 \in DOMAIN queue /\ queue'[i] = queue[i + 1]
    BY <1>3, <2>1 DEF CheckQueued
  <2>3. checked' \in [Accounts -> Nat]
    BY <1>3, <2>1 DEF CheckQueued, Admits, admit
  <2>4. ChainInv'
    BY <2>2, <2>3, OwnElements, Zenon DEF ChainInv
  <2>5. ASSUME NEW a \in Accounts, \A i \in DOMAIN queue : queue[i].signer # a
        PROVE  checked'[a] = checked[a] /\ \A i \in DOMAIN queue' : queue'[i].signer # a
    <3>1. Head(queue).signer # a
      BY <2>1, <2>5
    <3> QED
      BY <1>3, <2>1, <2>2, <2>5, <3>1, Zenon DEF CheckQueued, Admits, admit
  <2>6. SequenceInv'
    BY <1>1, <2>5, Zenon DEF SequenceInv, keyNow, rpc
  <2> QED
    BY <1>2, <2>4, <2>6, Zenon
<1>4. CASE NewBlock
  BY <1>1, <1>2, <1>4, Zenon DEF NewBlock, ChainInv, SequenceInv, keyNow, rpc
<1> QED
  BY <1>3, <1>4, Zenon

\* A call that is over, or asks its next question, has nothing to keep.
LEMMA NotRunning ==
    ASSUME call'.pc \in {"idle", "query", "returned"}
    PROVE  KeyInv' /\ NetworkInv' /\ SequenceInv' /\ FateInv'
BY Zenon DEF KeyInv, NetworkInv, SequenceInv, FateInv, Running

\* A call that is not over keeps its shape if it keeps its fields.
LEMMA ShapeKept ==
    ASSUME DOMAIN call' = CallFields, call' = [f \in CallFields |-> call'[f]],
           call'.pc \in {"query", "returned", "sign", "ask", "identify", "keysign", "post", "wait"},
           call'.pc \in {"query", "returned"} => call'.x \in Calls \cup Queries
    PROVE  CallInv'
<1>1. Idle.pc = "idle"
  BY Zenon DEF Idle
<1>2. call' # Idle
  BY <1>1, Zenon
<1> QED
  BY <1>2, Zenon DEF CallInv, Running

\* A new call: the fields it starts with.
LEMMA StartedFields ==
    ASSUME NEW x
    PROVE  /\ DOMAIN Started(x) = CallFields /\ Started(x) = [f \in CallFields |-> Started(x)[f]]
           /\ Started(x).pc = "sign" /\ Started(x).x = x /\ Started(x).m = Refused
           /\ Started(x).fate = "none" /\ Started(x).lost = FALSE /\ Started(x).switched = FALSE
           /\ Started(x).foreign = (network # HomeNetwork)
BY Zenon DEF Started, CallFields

\* A method builds a message that its key signs.
LEMMA BeginStep ==
    ASSUME IInv, NEW x \in Calls, Begin(x)
    PROVE  IInv'
<1> DEFINE m == message(x)
           k == IF x.c = "rpc" THEN key ELSE GatewayKey
<1>1. UNCHANGED <<network, key, chain>> /\ ChainInv'
  BY Zenon DEF Begin, chain, IInv, ChainInv
<1>2. CASE call' = [Started(x) EXCEPT !.pc = "returned", !.out = Err]
  <2>1. /\ DOMAIN call' = CallFields /\ call' = [f \in CallFields |-> call'[f]]
        /\ call'.pc = "returned" /\ call'.x = x /\ call'.m = Refused
    BY <1>2, StartedFields, Zenon DEF CallFields
  <2>2. CallInv' /\ ResultTellsFate'
    BY <2>1, ShapeKept, Zenon DEF ResultTellsFate, sent
  <2> QED
    BY <1>1, <2>1, <2>2, NotRunning DEF IInv
<1>3. CASE m # Refused /\ call' = [Started(x) EXCEPT !.m = m]
  <2>1. /\ DOMAIN call' = CallFields /\ call' = [f \in CallFields |-> call'[f]]
        /\ call'.pc = "sign" /\ call'.x = x /\ call'.m = m /\ call'.fate = "none" /\ call'.lost = FALSE
        /\ call'.foreign = (network # HomeNetwork)
    BY <1>3, StartedFields, Zenon DEF CallFields
  <2>2. CallInv' /\ ResultTellsFate' /\ SequenceInv'
    BY <2>1, ShapeKept, Zenon DEF ResultTellsFate, sent, SequenceInv
  <2>6. NetworkInv'
    BY <1>1, <2>1, ZenonT(30) DEF NetworkInv, posted
  <2>3. /\ x.op \notin {"SideChainUnjail", "Broadcast"} => MsgOf(m).signers = {k} /\ k \in MsgOf(m).involved
        /\ m.t = "CreateOrderMsg" => {"t", "from", "orderId"} \subseteq DOMAIN m
    <3>1. CASE x.c = "gateway"
      <4>1. m = GatewayMessage(x.op, GatewayKey, x.args) /\ x.op \in GatewayMethods
        BY <3>1, ClientAssumption, Zenon DEF message, GatewayMethods
      <4> QED
        BY <1>3, <3>1, <4>1, GatewayBuilds
    <3>2. CASE x.c = "rpc" /\ x.op = "Broadcast"
      BY <3>2, ClientAssumption, Zenon DEF message
    <3>3. CASE x.c = "rpc" /\ x.op # "Broadcast"
      <4>1. m = RpcMessage(x.op, key, x.args) /\ x.op \in RpcMethods
        BY <3>3, ClientAssumption, Zenon DEF message
      <4> QED
        BY <1>3, <3>3, <4>1, RpcBuilds
    <3> QED
      BY <3>1, <3>2, <3>3, ClientAssumption
  <2>4. keyNow' = k
    BY <1>1, <2>1, Zenon DEF keyNow, rpc
  <2> HIDE DEF m, k
  <2>5. KeyInv' /\ FateInv'
    BY <1>3, <2>1, <2>3, <2>4 DEF KeyInv, FateInv, Running, asked_, identified, posted
  <2> QED
    BY <1>1, <2>2, <2>5, <2>6 DEF IInv
<1> QED
  BY <1>2, <1>3, Zenon DEF Begin

\* A running call has all its fields.
LEMMA RunningFields ==
    ASSUME IInv, Running
    PROVE  /\ DOMAIN call = CallFields /\ call = [f \in CallFields |-> call[f]]
           /\ call.x \in Calls /\ call.m # Refused /\ call.fate = "none" /\ ~call.lost
BY Zenon DEF IInv, CallInv, Running, Idle, FateInv

\* The end of a transaction: what is left to show is that its result fits.
LEMMA EndStep ==
    ASSUME IInv, Running, ChainInv', NEW out, NEW fate, NEW lost,
           call' = [call EXCEPT !.pc = "returned", !.out = out, !.fate = fate, !.lost = lost],
           out = Code(0) =>
             fate = CASE call.x.mode = "async" -> "queued"
                      [] call.x.mode \in {"sync", "gateway"} -> "pooled"
                      [] call.x.mode \in {"commit", "gatewaySync"} -> "delivered",
           out = Code(1) => fate \in {"refused", "failed"},
           out = Err /\ fate \in {"queued", "pooled", "delivered"} =>
             lost \/ Parses(call.x.op, TRUE, call.x.mode = "gatewaySync")
    PROVE  IInv'
<1>1. DOMAIN call = CallFields /\ call = [f \in CallFields |-> call[f]] /\ call.x \in Calls
  BY RunningFields, Zenon
<1>2. /\ DOMAIN call' = CallFields /\ call' = [f \in CallFields |-> call'[f]]
      /\ call'.pc = "returned" /\ call'.x = call.x /\ call'.out = out
      /\ call'.fate = fate /\ call'.lost = lost
  BY <1>1, Zenon DEF CallFields
<1>3. CallInv'
  BY <1>1, <1>2, ShapeKept, Zenon
<1>4. ResultTellsFate'
  BY <1>2, Zenon DEF ResultTellsFate
<1> QED
  BY <1>2, <1>3, <1>4, NotRunning, Zenon DEF IInv

\* A transaction that ends before it is sent has no fate.
LEMMA FailStep ==
    ASSUME IInv, Running, ChainInv', call' = ends(Err)
    PROVE  IInv'
<1>1. DOMAIN call = CallFields /\ call.fate = "none"
  BY RunningFields, Zenon
<1>2. call' = [call EXCEPT !.pc = "returned", !.out = Err, !.fate = "none", !.lost = call.lost]
  BY <1>1, Zenon DEF ends, CallFields
<1>3. Err # Code(0) /\ Err # Code(1)
  BY Zenon DEF Err, Code
<1> QED
  BY <1>2, <1>3, EndStep, Zenon

\* An answer that fits the fate, or the loss of it.
LEMMA AnswerStep ==
    ASSUME IInv, Running, ChainInv', NEW out, NEW fate, answer(fate, out),
           out = Code(0) =>
             fate = CASE call.x.mode = "async" -> "queued"
                      [] call.x.mode \in {"sync", "gateway"} -> "pooled"
                      [] call.x.mode \in {"commit", "gatewaySync"} -> "delivered",
           out = Code(1) => fate \in {"refused", "failed"},
           out = Err /\ fate \in {"queued", "pooled", "delivered"} =>
             Parses(call.x.op, TRUE, call.x.mode = "gatewaySync")
    PROVE  IInv'
<1>1. DOMAIN call = CallFields
  BY RunningFields, Zenon
<1>2. CASE call' = [ends(out) EXCEPT !.fate = fate]
  <2>1. call' = [call EXCEPT !.pc = "returned", !.out = out, !.fate = fate, !.lost = call.lost]
    BY <1>1, <1>2, Zenon DEF ends, CallFields
  <2> QED
    BY <2>1, EndStep, Zenon
<1>3. CASE call' = [ends(Err) EXCEPT !.fate = fate, !.lost = TRUE]
  <2>1. call' = [call EXCEPT !.pc = "returned", !.out = Err, !.fate = fate, !.lost = TRUE]
    BY <1>1, <1>3, Zenon DEF ends, CallFields
  <2>2. Err # Code(0) /\ Err # Code(1)
    BY Zenon DEF Err, Code
  <2> QED
    BY <2>1, <2>2, EndStep, Zenon
<1> QED
  BY <1>2, <1>3, Zenon DEF answer

\* sign reads the network for the chain id.
LEMMA SignStep ==
    ASSUME IInv, sign
    PROVE  IInv'
<1>1. /\ DOMAIN call = CallFields /\ call = [f \in CallFields |-> call[f]]
      /\ call.x \in Calls /\ call.m # Refused /\ call.fate = "none" /\ ~call.lost
      /\ call.pc = "sign" /\ Running
  BY RunningFields, Zenon DEF sign, Running
<1>2. UNCHANGED <<network, key, checked, queue>> /\ ChainInv'
  BY Zenon DEF sign, chain, IInv, ChainInv
<1>3. /\ DOMAIN call' = CallFields /\ call' = [f \in CallFields |-> call'[f]]
      /\ call'.pc = IF needsAccount(call.x.opts) THEN "ask" ELSE "identify"
      /\ call'.chainId = IF call.x.opts.chainId = "" THEN chainIdNow ELSE call.x.opts.chainId
      /\ \A f \in CallFields \ {"pc", "chainId", "seq"} : call'[f] = call[f]
  BY <1>1, Zenon DEF sign, CallFields
<1>4. /\ call'.x = call.x /\ call'.m = call.m /\ call'.fate = call.fate /\ call'.lost = call.lost
      /\ call'.switched = call.switched /\ call'.foreign = call.foreign
  BY <1>3, Zenon DEF CallFields
<1>5. call'.pc = "ask" \/ (call'.pc = "identify" /\ ~needsAccount(call.x.opts))
  BY <1>3, Zenon
<1>6. CallInv' /\ FateInv' /\ SequenceInv' /\ ResultTellsFate'
  <2>1. CallInv'
    BY <1>3, <1>5, ShapeKept, Zenon
  <2>2. FateInv' /\ ResultTellsFate'
    BY <1>1, <1>4, <1>5, Zenon DEF IInv, FateInv, ResultTellsFate, sent
  <2>3. SequenceInv'
    BY <1>4, <1>5, Zenon DEF SequenceInv, needsAccount
  <2> QED
    BY <2>1, <2>2, <2>3, Zenon
<1>7. KeyInv'
  <2>1. keyNow' = keyNow
    BY <1>2, <1>4, Zenon DEF keyNow, rpc
  <2> QED
    BY <1>1, <1>4, <1>5, <2>1 DEF IInv, KeyInv, asked_, identified, posted
<1>8. NetworkInv'
  BY <1>1, <1>2, <1>3, <1>4, <1>5, Zenon DEF IInv, NetworkInv, posted, chainIdNow
<1> QED
  BY <1>2, <1>6, <1>7, <1>8 DEF IInv

\* The account that is asked for is the one of the key, and the rpc client gets
\* its sequence after CheckTx.
LEMMA AskAccountStep ==
    ASSUME IInv, AskAccount
    PROVE  IInv'
<1>1. /\ DOMAIN call = CallFields /\ call = [f \in CallFields |-> call[f]]
      /\ call.x \in Calls /\ call.m # Refused /\ call.fate = "none" /\ ~call.lost
      /\ call.pc = "ask" /\ Running
  BY RunningFields, Zenon DEF AskAccount, Running
<1>2. UNCHANGED <<network, key, checked, queue>> /\ ChainInv'
  BY Zenon DEF AskAccount, chain, IInv, ChainInv
<1>3. CASE call' = ends(Err)
  BY <1>1, <1>2, <1>3, FailStep
<1>4. ASSUME NEW seq, rpc => keyNow \in Accounts /\ seq = checked[keyNow],
             call' = [call EXCEPT !.pc = "identify", !.asked = keyNow, !.seq = seq,
                                  !.quiet = \A i \in DOMAIN queue : queue[i].signer # keyNow]
      PROVE  IInv'
  <2>1. /\ DOMAIN call' = CallFields /\ call' = [f \in CallFields |-> call'[f]]
        /\ call'.pc = "identify" /\ call'.asked = keyNow /\ call'.seq = seq
        /\ call'.quiet = \A i \in DOMAIN queue : queue[i].signer # keyNow
        /\ \A f \in CallFields \ {"pc", "asked", "seq", "quiet"} : call'[f] = call[f]
    BY <1>1, <1>4, Zenon DEF CallFields
  <2>2. /\ call'.x = call.x /\ call'.m = call.m /\ call'.fate = call.fate /\ call'.lost = call.lost
        /\ call'.switched = call.switched /\ call'.foreign = call.foreign /\ call'.chainId = call.chainId
    BY <2>1, Zenon DEF CallFields
  <2>3. keyNow' = keyNow /\ rpc' = rpc
    BY <1>2, <2>2, Zenon DEF keyNow, rpc
  <2>4. CallInv' /\ FateInv' /\ ResultTellsFate'
    BY <1>1, <2>1, <2>2, ShapeKept DEF IInv, FateInv, ResultTellsFate, sent
  <2>5. KeyInv'
    BY <1>1, <2>1, <2>2, <2>3 DEF IInv, KeyInv, identified, posted
  <2>6. NetworkInv'
    BY <1>1, <1>2, <2>1, <2>2, Zenon DEF IInv, NetworkInv, posted
  <2>7. SequenceInv'
    BY <1>2, <1>4, <2>1, <2>3, Zenon DEF SequenceInv
  <2> QED
    BY <1>2, <2>4, <2>5, <2>6, <2>7 DEF IInv
<1>5. \/ call' = ends(Err)
      \/ \E seq : /\ rpc => keyNow \in Accounts /\ seq = checked[keyNow]
                  /\ call' = [call EXCEPT !.pc = "identify", !.asked = keyNow, !.seq = seq,
                                          !.quiet = \A i \in DOMAIN queue : queue[i].signer # keyNow]
  <2> DEFINE present == IF rpc THEN AccountReply("data", latest(keyNow)) ELSE AccountReply("data", committed[keyNow])
             absent  == AccountReply(IF rpc THEN "nil" ELSE "notfound", -1)
             acc(reply) == IF rpc THEN account(reply) ELSE accountOrNone(reply)
             got(seq) == [call EXCEPT !.pc = "identify", !.asked = keyNow, !.seq = seq,
                                      !.quiet = \A i \in DOMAIN queue : queue[i].signer # keyNow]
  <2>1. PICK reply : /\ \/ reply \in {AccountReply("lost", -1), AccountReply("refused", -1), AccountReply("garbage", -1)}
                        \/ keyNow \in Accounts /\ reply = present
                        \/ reply = absent
                     /\ call' = CASE acc(reply).r = "val"          -> got(acc(reply).v)
                                  [] acc(reply).r = "none" /\ ~rpc -> got(0)
                                  [] OTHER                         -> ends(Err)
    BY Zenon DEF AskAccount
  <2>2. CASE reply \in {AccountReply("lost", -1), AccountReply("refused", -1), AccountReply("garbage", -1)}
    <3>1. acc(reply).r = "err"
      BY <2>2 DEF AccountReply, account, accountOrNone, decodeIfOK, decode, IsOK, noBytes, Err
    <3> QED
      BY <2>1, <3>1, Zenon
  <2>3. CASE keyNow \in Accounts /\ reply = present
    <3>1. acc(reply).r = "val" /\ (rpc => acc(reply).v = checked[keyNow])
      BY <2>3, Zenon DEF AccountReply, account, accountOrNone, decodeIfOK, decode, IsOK, noBytes, Val, latest
    <3>2. call' = got(acc(reply).v)
      BY <2>1, <3>1, Zenon
    <3> QED
      BY <2>3, <3>1, <3>2, Zenon
  <2>4. CASE reply = absent
    <3>1. acc(reply).r = "none"
      BY <2>4, Zenon DEF AccountReply, account, accountOrNone, IsOK, noBytes, None
    <3> QED
      BY <2>1, <3>1, Zenon
  <2> QED
    BY <2>1, <2>2, <2>3, <2>4, Zenon
<1> QED
  BY <1>3, <1>4, <1>5, Zenon

\* The id of an order is the one of the key and the sequence read before.
LEMMA IdentifyStep ==
    ASSUME IInv, identify
    PROVE  IInv'
<1> DEFINE id == OrderID(keyNow, call.seq + 1)
           m  == IF call.m.t = "CreateOrderMsg" THEN [call.m EXCEPT !.orderId = id] ELSE call.m
<1>1. /\ DOMAIN call = CallFields /\ call = [f \in CallFields |-> call[f]]
      /\ call.x \in Calls /\ call.m # Refused /\ call.fate = "none" /\ ~call.lost
      /\ call.pc = "identify" /\ Running
      /\ call.m.t = "CreateOrderMsg" => {"t", "from", "orderId"} \subseteq DOMAIN call.m
  BY RunningFields, Zenon DEF identify, Running, IInv, FateInv
<1>2. UNCHANGED <<network, key, checked, queue>> /\ ChainInv'
  BY Zenon DEF identify, chain, IInv, ChainInv
<1>3. /\ MsgOf(m).signers = MsgOf(call.m).signers /\ MsgOf(m).involved = MsgOf(call.m).involved
      /\ m.t = "CreateOrderMsg" => {"t", "from", "orderId"} \subseteq DOMAIN m /\ m.orderId = id
      /\ m # Refused
  <2>1. CASE call.m.t = "CreateOrderMsg"
    <3> HIDE DEF id
    <3>1. m = [call.m EXCEPT !.orderId = id]
      BY <2>1, Zenon
    <3>2. m.t = "CreateOrderMsg"
      BY <1>1, <2>1, <3>1, OrderSigns, Zenon
    <3>3. m # Refused
      BY <3>2, Zenon DEF Refused
    <3> QED
      BY <1>1, <2>1, <3>1, <3>3, OrderSigns
  <2>2. CASE call.m.t # "CreateOrderMsg"
    BY <1>1, <2>2, Zenon
  <2> QED
    BY <2>1, <2>2, Zenon
<1>4. CASE call' = ends(Err)
  BY <1>1, <1>2, <1>4, FailStep, Zenon
<1>5. CASE call' = [call EXCEPT !.pc = "keysign", !.m = m]
  <2> HIDE DEF m, id
  <2>1. /\ DOMAIN call' = CallFields /\ call' = [f \in CallFields |-> call'[f]]
        /\ call'.pc = "keysign" /\ call'.m = m
        /\ call'.x = call.x /\ call'.fate = call.fate /\ call'.lost = call.lost
        /\ call'.switched = call.switched /\ call'.foreign = call.foreign /\ call'.chainId = call.chainId
        /\ call'.asked = call.asked /\ call'.seq = call.seq /\ call'.quiet = call.quiet
    BY <1>1, <1>5, Zenon DEF CallFields
  <2>2. keyNow' = keyNow /\ rpc' = rpc
    BY <1>2, <2>1, Zenon DEF keyNow, rpc
  <2>3. CallInv' /\ ResultTellsFate'
    BY <2>1, ShapeKept, Zenon DEF ResultTellsFate, sent
  <2>4. FateInv'
    BY <1>1, <1>3, <2>1, Zenon DEF FateInv
  <2>5. KeyInv'
    BY <1>1, <1>3, <2>1, <2>2 DEF IInv, KeyInv, asked_, posted, id
  <2>6. NetworkInv'
    BY <1>1, <1>2, <2>1, Zenon DEF IInv, NetworkInv, posted
  <2>7. SequenceInv'
    BY <1>1, <1>2, <2>1, <2>2 DEF IInv, SequenceInv
  <2> QED
    BY <1>2, <2>3, <2>4, <2>5, <2>6, <2>7 DEF IInv
<1> QED
  BY <1>4, <1>5, Zenon DEF identify

\* The signature is the one of the key, over addresses in the form of the network.
LEMMA SignatureStep ==
    ASSUME IInv, Sign
    PROVE  IInv'
<1>1. /\ DOMAIN call = CallFields /\ call = [f \in CallFields |-> call[f]]
      /\ call.x \in Calls /\ call.m # Refused /\ call.fate = "none" /\ ~call.lost
      /\ call.pc = "keysign" /\ Running
  BY RunningFields, Zenon DEF Sign, Running
<1>2. UNCHANGED <<network, key, checked, queue>> /\ ChainInv'
  BY Zenon DEF Sign, chain, IInv, ChainInv
<1>3. CASE call' = ends(Err)
  BY <1>1, <1>2, <1>3, FailStep
<1>4. CASE call' = [call EXCEPT !.pc = "post", !.signer = keyNow, !.prefix = Bech32Prefixes(network)]
  <2>1. /\ DOMAIN call' = CallFields /\ call' = [f \in CallFields |-> call'[f]]
        /\ call'.pc = "post" /\ call'.signer = keyNow /\ call'.prefix = Bech32Prefixes(network)
        /\ call'.x = call.x /\ call'.m = call.m /\ call'.fate = call.fate /\ call'.lost = call.lost
        /\ call'.switched = call.switched /\ call'.foreign = call.foreign /\ call'.chainId = call.chainId
        /\ call'.asked = call.asked /\ call'.seq = call.seq /\ call'.quiet = call.quiet
    BY <1>1, <1>4, Zenon DEF CallFields
  <2>2. keyNow' = keyNow /\ rpc' = rpc
    BY <1>2, <2>1, Zenon DEF keyNow, rpc
  <2>3. CallInv' /\ ResultTellsFate'
    BY <2>1, ShapeKept, Zenon DEF ResultTellsFate, sent
  <2>4. FateInv'
    BY <1>1, <2>1, Zenon DEF IInv, FateInv
  <2>5. KeyInv'
    BY <1>1, <2>1, <2>2, Zenon DEF IInv, KeyInv, asked_, identified
  <2>6. NetworkInv'
    BY <1>1, <1>2, <2>1, Zenon DEF IInv, NetworkInv
  <2>7. SequenceInv'
    BY <1>1, <1>2, <2>1, <2>2 DEF IInv, SequenceInv
  <2> QED
    BY <1>2, <2>3, <2>4, <2>5, <2>6, <2>7 DEF IInv
<1> QED
  BY <1>3, <1>4, Zenon DEF Sign, fails

\* A transaction about to be sent, or waiting for its block.
LEMMA PostedFields ==
    ASSUME IInv, posted
    PROVE  /\ DOMAIN call = CallFields /\ call = [f \in CallFields |-> call[f]]
           /\ call.x \in Calls /\ call.m # Refused /\ call.fate = "none" /\ ~call.lost /\ Running
BY RunningFields, Zenon DEF posted, Running

\* The chain counts a transaction that it takes.
LEMMA AdmitKeepsChain ==
    ASSUME ChainInv, Admits(tx), admit(tx), UNCHANGED queue
    PROVE  ChainInv'
BY DEF ChainInv, Admits, admit

\* A transaction that waits for its block keeps what it was sent with.
LEMMA WaitStep ==
    ASSUME IInv, call.pc = "post", goto("wait"), UNCHANGED <<network, key>>, ChainInv',
           call.x.mode \in {"commit", "gatewaySync"}
    PROVE  IInv'
<1>1. /\ DOMAIN call = CallFields /\ call = [f \in CallFields |-> call[f]]
      /\ call.x \in Calls /\ call.m # Refused /\ call.fate = "none" /\ ~call.lost /\ Running
  BY PostedFields, Zenon DEF posted
<1>2. /\ DOMAIN call' = CallFields /\ call' = [f \in CallFields |-> call'[f]] /\ call'.pc = "wait"
      /\ \A f \in CallFields \ {"pc"} : call'[f] = call[f]
  BY <1>1, Zenon DEF goto, CallFields
<1>3. /\ call'.x = call.x /\ call'.m = call.m /\ call'.fate = call.fate /\ call'.lost = call.lost
      /\ call'.switched = call.switched /\ call'.foreign = call.foreign /\ call'.chainId = call.chainId
      /\ call'.asked = call.asked /\ call'.seq = call.seq /\ call'.signer = call.signer
      /\ call'.prefix = call.prefix
  BY <1>2, Zenon DEF CallFields
<1>4. CallInv' /\ ResultTellsFate' /\ SequenceInv'
  BY <1>2, ShapeKept, Zenon DEF ResultTellsFate, sent, SequenceInv
<1>5. FateInv'
  BY <1>1, <1>3, Zenon DEF IInv, FateInv
<1>6. KeyInv'
  <2>1. keyNow' = keyNow
    BY <1>3, Zenon DEF keyNow, rpc
  <2> QED
    BY <1>1, <1>3, <2>1, Zenon DEF IInv, KeyInv, asked_, identified, posted
<1>7. NetworkInv'
  BY <1>1, <1>3, Zenon DEF IInv, NetworkInv, posted
<1> QED
  BY <1>4, <1>5, <1>6, <1>7, Zenon DEF IInv

\* What the codes are not.
LEMMA Codes ==
    Code(0) # Code(1) /\ Err # Code(0) /\ Err # Code(1)
BY DEF Code, Err

\* Nothing is sent, or it is sent in the mode Async, Sync or Commit.
LEMMA BroadcastStep ==
    ASSUME IInv, PostFails \/ BroadcastTxAsync \/ BroadcastTxSync \/ BroadcastTxCommit
    PROVE  IInv'
<1>1. call.pc = "post" /\ Running /\ ChainInv /\ UNCHANGED <<network, key>>
  BY Zenon DEF PostFails, BroadcastTxAsync, BroadcastTxSync, BroadcastTxCommit, Running, IInv
<1>2. CASE PostFails
  <2>1. ChainInv' /\ call' = ends(Err)
    BY <1>1, <1>2, Zenon DEF PostFails, chain, ChainInv, fails
  <2> QED
    BY <1>1, <2>1, FailStep, Zenon
<1>3. CASE BroadcastTxAsync
  <2>1. queue \in Seq(Range(queue) \cup {tx}) /\ queue' = Append(queue, tx)
    BY <1>1, <1>3 DEF BroadcastTxAsync, ChainInv
  <2>2. queue' \in Seq(Range(queue) \cup {tx})
    BY <2>1
  <2>3. ChainInv'
    BY <1>1, <1>3, <2>2, OwnElements, Zenon DEF BroadcastTxAsync, ChainInv
  <2>4. call.x.mode = "async" /\ answer("queued", Code(0))
    BY <1>3, Zenon DEF BroadcastTxAsync
  <2> QED
    BY <1>1, <2>3, <2>4, Codes, AnswerStep, Zenon
<1>4. CASE BroadcastTxSync
  <2>1. call.x.mode = "sync" /\ UNCHANGED queue
    BY <1>4, Zenon DEF BroadcastTxSync
  <2>2. CASE Admits(tx) /\ admit(tx) /\ answer("pooled", Code(0))
    BY <1>1, <2>1, <2>2, AdmitKeepsChain, Codes, AnswerStep, Zenon
  <2>3. CASE UNCHANGED checked /\ answer("refused", Code(1))
    <3>1. ChainInv'
      BY <1>1, <2>1, <2>3, Zenon DEF ChainInv
    <3> QED
      BY <1>1, <2>1, <2>3, <3>1, Codes, AnswerStep, Zenon
  <2> QED
    BY <1>4, <2>2, <2>3, Zenon DEF BroadcastTxSync
<1>5. CASE BroadcastTxCommit
  <2>1. call.x.mode = "commit" /\ UNCHANGED queue
    BY <1>5, Zenon DEF BroadcastTxCommit
  <2>2. CASE Admits(tx) /\ admit(tx) /\ goto("wait")
    BY <1>1, <2>1, <2>2, AdmitKeepsChain, WaitStep
  <2>3. CASE UNCHANGED checked /\ answer("refused", commitResult(1, 0))
    <3>1. ChainInv'
      BY <1>1, <2>1, <2>3, Zenon DEF ChainInv
    <3>2. commitResult(1, 0) = Code(1)
      BY Zenon DEF commitResult
    <3> QED
      BY <1>1, <2>1, <2>3, <3>1, <3>2, Codes, AnswerStep, Zenon
  <2> QED
    BY <1>5, <2>2, <2>3, Zenon DEF BroadcastTxCommit
<1> QED
  BY <1>2, <1>3, <1>4, <1>5

\* An answer of the gateway fits a refusal or failure, or a success in the mode.
LEMMA GatewayAnswerStep ==
    ASSUME IInv, Running, ChainInv', NEW fate, NEW ok \in BOOLEAN, NEW sync,
           gatewayAnswer(fate, ok, sync),
           ~ok => fate \in {"refused", "failed"},
           ok => /\ sync = (call.x.mode = "gatewaySync")
                 /\ fate = CASE call.x.mode = "async" -> "queued"
                             [] call.x.mode \in {"sync", "gateway"} -> "pooled"
                             [] call.x.mode \in {"commit", "gatewaySync"} -> "delivered"
    PROVE  IInv'
<1>1. CASE ok
  <2>1. PICK parses \in BOOLEAN : answer(fate, GatewayResult(TRUE, parses, sync))
    BY <1>1, Zenon DEF gatewayAnswer
  <2>2. \/ GatewayResult(TRUE, parses, sync) = Code(0)
        \/ /\ GatewayResult(TRUE, parses, sync) = Err
           /\ Parses(call.x.op, TRUE, call.x.mode = "gatewaySync")
    BY <1>1, Zenon DEF GatewayResult
  <2> HIDE DEF GatewayResult
  <2>3. CASE GatewayResult(TRUE, parses, sync) = Code(0)
    BY <1>1, <2>1, <2>3, Codes, AnswerStep, Zenon
  <2>4. CASE /\ GatewayResult(TRUE, parses, sync) = Err
             /\ Parses(call.x.op, TRUE, call.x.mode = "gatewaySync")
    BY <1>1, <2>1, <2>4, Codes, AnswerStep, Zenon
  <2> QED
    BY <2>2, <2>3, <2>4, Zenon
<1>2. CASE ~ok
  <2>1. answer(fate, Err) \/ answer(fate, Code(1))
    BY <1>2, Zenon DEF gatewayAnswer, GatewayResult
  <2> QED
    BY <1>2, <2>1, Codes, AnswerStep, Zenon
<1> QED
  BY <1>1, <1>2, Zenon

\* The gateway takes a transaction, or refuses it.
LEMMA PostTxStep ==
    ASSUME IInv, PostTx
    PROVE  IInv'
<1>1. /\ call.pc = "post" /\ Running /\ ChainInv /\ UNCHANGED <<network, key, queue>>
      /\ call.x.mode \in {"gateway", "gatewaySync"}
  BY Zenon DEF PostTx, Running, IInv
<1>2. CASE UNCHANGED checked /\ gatewayAnswer("refused", FALSE, call.x.mode = "gatewaySync")
  <2>1. ChainInv'
    BY <1>1, <1>2, Zenon DEF ChainInv
  <2> QED
    BY <1>1, <1>2, <2>1, GatewayAnswerStep, Zenon
<1>3. CASE Admits(tx) /\ admit(tx) /\ call.x.mode = "gatewaySync" /\ goto("wait")
  BY <1>1, <1>3, AdmitKeepsChain, WaitStep
<1>4. CASE Admits(tx) /\ admit(tx) /\ call.x.mode = "gateway" /\ gatewayAnswer("pooled", TRUE, FALSE)
  BY <1>1, <1>4, AdmitKeepsChain, GatewayAnswerStep, Zenon
<1> QED
  BY <1>1, <1>2, <1>3, <1>4, Zenon DEF PostTx

\* The block of a transaction says whether it went through.
LEMMA DeliveredStep ==
    ASSUME IInv, Delivered
    PROVE  IInv'
<1>1. call.pc = "wait" /\ Running /\ ChainInv /\ UNCHANGED <<network, key, checked, queue>>
  BY Zenon DEF Delivered, Running, IInv
<1>2. ChainInv' /\ call.x.mode \in {"commit", "gatewaySync"} /\ call.x \in Calls
  BY <1>1, Zenon DEF ChainInv, IInv, FateInv
<1>3. PICK ok \in BOOLEAN :
        IF rpc THEN answer(IF ok THEN "delivered" ELSE "failed", commitResult(0, IF ok THEN 0 ELSE 1))
               ELSE gatewayAnswer(IF ok THEN "delivered" ELSE "failed", ok, TRUE)
  BY Zenon DEF Delivered
<1>4. CASE rpc
  <2>1. CASE ok
    <3>1. answer("delivered", Code(0))
      BY <1>3, <1>4, <2>1, Zenon DEF commitResult
    <3> QED
      BY <1>1, <1>2, <3>1, Codes, AnswerStep, Zenon
  <2>2. CASE ~ok
    <3>1. answer("failed", Code(1))
      BY <1>3, <1>4, <2>2 DEF commitResult
    <3> QED
      BY <1>1, <1>2, <3>1, Codes, AnswerStep, Zenon
  <2> QED
    BY <2>1, <2>2, Zenon
<1>5. CASE ~rpc
  <2>1. call.x.mode = "gatewaySync"
    BY <1>2, <1>5, ClientAssumption, Zenon DEF rpc
  <2>2. CASE ok
    <3>1. gatewayAnswer("delivered", TRUE, TRUE)
      BY <1>3, <1>5, <2>2, Zenon
    <3> QED
      BY <1>1, <1>2, <2>1, <3>1, GatewayAnswerStep, Zenon
  <2>3. CASE ~ok
    <3>1. gatewayAnswer("failed", FALSE, TRUE)
      BY <1>3, <1>5, <2>3, Zenon
    <3> QED
      BY <1>1, <1>2, <3>1, GatewayAnswerStep, Zenon
  <2> QED
    BY <2>2, <2>3
<1> QED
  BY <1>4, <1>5, Zenon

\* Queries send no transaction, and a call that has returned gives way to the next.
LEMMA QueryStep ==
    ASSUME IInv, (\E x \in Queries : BeginQuery(x)) \/ Reply \/ Return
    PROVE  IInv'
<1>1. UNCHANGED <<network, key, checked, queue>> /\ ChainInv'
  BY Zenon DEF BeginQuery, Reply, Return, chain, IInv, ChainInv
<1>2. CASE Return
  <2>1. call' = Idle /\ call'.pc = "idle"
    BY <1>2, Zenon DEF Return, Idle
  <2>2. CallInv' /\ ResultTellsFate'
    BY <2>1, Zenon DEF CallInv, ResultTellsFate, sent
  <2> QED
    BY <1>1, <2>1, <2>2, NotRunning DEF IInv
<1>3. ASSUME NEW x \in Calls \cup Queries, NEW rs, call' = resume(x, rs)
      PROVE  IInv'
  <2>1. /\ DOMAIN call' = CallFields /\ call' = [f \in CallFields |-> call'[f]]
        /\ call'.pc \in {"query", "returned"} /\ call'.x = x /\ call'.m = Refused
    BY <1>3, StartedFields, Zenon DEF resume, CallFields
  <2>2. CallInv' /\ ResultTellsFate'
    BY <2>1, ShapeKept, Zenon DEF ResultTellsFate, sent
  <2> QED
    BY <1>1, <2>1, <2>2, NotRunning DEF IInv
<1>4. Reply => \E x \in Calls \cup Queries : \E rs : call' = resume(x, rs)
  BY Zenon DEF Reply, IInv, CallInv
<1>5. (\E x \in Queries : BeginQuery(x)) => \E x \in Calls \cup Queries : \E rs : call' = resume(x, rs)
  BY Zenon DEF BeginQuery
<1> QED
  BY <1>2, <1>3, <1>4, <1>5, Zenon

\* Every reachable state satisfies the inductive invariant: what a running
\* transaction has decided agrees with the key, the network and the chain it will
\* meet next (the steps of Broadcast, sign and broadcastMsg).
THEOREM ClientInvariant ==
    Spec => []IInv
<1>1. Init => IInv
  BY DEF Init, IInv, CallInv, ChainInv, KeyInv, NetworkInv, SequenceInv, FateInv, ResultTellsFate,
         Idle, Running, sent, Range
<1>2. ASSUME IInv, [Next]_vars
      PROVE  IInv'
  <2>1. CASE \/ \E k \in Keys : SetKeyManager(k)
             \/ \E n \in Networks : NewRPCClient(n)
    BY <1>2, <2>1, OthersStep, Zenon
  <2>2. CASE CheckQueued \/ NewBlock
    BY <1>2, <2>2, ChainStep, Zenon
  <2>3. CASE \E x \in Calls : Begin(x)
    BY <1>2, <2>3, BeginStep, Zenon
  <2>4. CASE sign \/ AskAccount \/ identify \/ Sign
    BY <1>2, <2>4, SignStep, AskAccountStep, IdentifyStep, SignatureStep
  <2>5. CASE PostFails \/ BroadcastTxAsync \/ BroadcastTxSync \/ BroadcastTxCommit
    BY <1>2, <2>5, BroadcastStep, Zenon
  <2>6. CASE PostTx \/ Delivered
    BY <1>2, <2>6, PostTxStep, DeliveredStep
  <2>7. CASE (\E x \in Queries : BeginQuery(x)) \/ Reply \/ Return
    BY <1>2, <2>7, QueryStep, Zenon
  <2>8. CASE UNCHANGED vars
    BY <1>2, <2>8, ZenonT(30)
    DEF vars, chain, IInv, CallInv, ChainInv, KeyInv, NetworkInv, SequenceInv, FateInv,
        ResultTellsFate, Running, sent, posted, asked_, identified, keyNow, rpc
  <2> QED
    BY <1>2, <2>1, <2>2, <2>3, <2>4, <2>5, <2>6, <2>7, <2>8, ZenonT(30) DEF Next
<1> QED
  BY <1>1, <1>2, PTL DEF Spec

\* A transaction is signed by the signer of its message, with the sequence of its
\* account, its own order id and the id of the chain, unless another goroutine
\* exchanged the key or the network meanwhile: for all methods of both clients,
\* all arguments, keys and networks.
THEOREM TransactionsSignedForThemselves ==
    Spec => []SignedForItself
<1>1. IInv => SignedForItself
  BY Zenon DEF IInv, KeyInv, NetworkInv, SignedForItself, Running, asked_, identified, posted
<1> QED
  BY <1>1, ClientInvariant, PTL

\* The result that the caller gets tells what became of the transaction, in every
\* mode of both clients, whatever is lost on the way.
THEOREM ResultsTellFate ==
    Spec => []ResultTellsFate
<1>1. IInv => ResultTellsFate
  BY Zenon DEF IInv
<1> QED
  BY <1>1, ClientInvariant, PTL

\* The sequence that the rpc client has read is the next one of its account when
\* the transaction is posted, however many blocks and checks come in between.
THEOREM SequencesFit ==
    Spec => []NextSequenceFits
<1>1. IInv => NextSequenceFits
  BY ZenonT(30) DEF IInv, KeyInv, SequenceInv, NextSequenceFits, Running, posted
<1> QED
  BY <1>1, ClientInvariant, PTL

-----------------------------------------------------------------------------
(* The queries.                                                            *)

\* The replies to a query that asked for each of them, and did not end in an
\* error: only the last one is read, and those before it came and were not refused.
LEMMA AnswerReads ==
    ASSUME NEW x \in Queries, x.op # "GetSideChainPool", NEW rs, IsSequence(rs), AskedFor(x, rs),
           Answer(x, rs) \notin {Ask, Err}
    PROVE  /\ Len(rs) \in {1, 2} /\ Reads(x.op, rs[Len(rs)], Answer(x, rs))
           /\ \A i \in 1 .. Len(rs) - 1 : rs[i].k \notin {"lost", "refused"}
<1>0. \A n \in Nat : (n # 0 /\ ~(n >= 2) => n = 1) /\ (n # 0 /\ n # 1 /\ ~(n >= 3) => n = 2)
  OBVIOUS
<1>1. Len(rs) \in Nat /\ (Len(rs) # 0 => rs # <<>>) /\ (Len(rs) = 0 => rs = <<>>)
  BY DEF IsSequence
<1>2. Len(rs) >= 2 => \E ss : Answer(x, ss) = Ask /\ Len(ss) = 1 /\ ss # <<>> /\ ss[1] = rs[1]
  <2>1. Len(rs) >= 2 => LET ss == SubSeq(rs, 1, 1) IN Len(ss) = 1 /\ ss # <<>> /\ ss[1] = rs[1]
    BY DEF IsSequence
  <2>2. Len(rs) >= 2 => Answer(x, SubSeq(rs, 1, 1)) = Ask
    BY <1>1 DEF AskedFor
  <2> QED
    BY <2>1, <2>2, Zenon
<1>3. Len(rs) >= 3 => \E ss : Answer(x, ss) = Ask /\ Len(ss) = 2
  <2>1. Len(rs) >= 3 => LET ss == SubSeq(rs, 1, 2) IN Len(ss) = 2
    BY DEF IsSequence
  <2>2. Len(rs) >= 3 => Answer(x, SubSeq(rs, 1, 2)) = Ask
    BY <1>1 DEF AskedFor
  <2> QED
    BY <2>1, <2>2, Zenon
<1>4. Ask # Err /\ \A reply : ~Reads(x.op, reply, Ask)
  BY Zenon DEF Reads, Ask, Err
<1>5. ASSUME \A ss : IF ss = <<>> THEN Answer(x, ss) \in {Ask, Err} ELSE Reads(x.op, ss[1], Answer(x, ss))
      PROVE  Len(rs) = 1 /\ Reads(x.op, rs[1], Answer(x, rs))
  <2>1. rs # <<>> /\ Reads(x.op, rs[1], Answer(x, rs))
    BY <1>5, Zenon
  <2>2. ~(Len(rs) >= 2)
    BY <1>2, <1>4, <1>5
  <2> QED
    BY <1>0, <1>1, <2>1, <2>2, Zenon
<1>6. CASE x.c = "rpc" /\ x.op \in QueryMethods \ Twice
  <2>1. \A ss : IF ss = <<>> THEN Answer(x, ss) \in {Ask, Err} ELSE Reads(x.op, ss[1], Answer(x, ss))
    BY <1>6, RpcOnce DEF Answer
  <2> QED
    BY <1>5, <2>1
<1>7. CASE x.c = "gateway" /\ x.op \in GatewayQueries
  <2>1. \A ss : IF ss = <<>> THEN Answer(x, ss) \in {Ask, Err} ELSE Reads(x.op, ss[1], Answer(x, ss))
    BY <1>7, GatewayOnce, Zenon DEF Answer
  <2> QED
    BY <1>5, <2>1
<1>8. CASE x.c = "rpc" /\ x.op \in Twice
  <2>1. ASSUME NEW ss
        PROVE  /\ ss = <<>> => Answer(x, ss) \in {Ask, Err}
               /\ Len(ss) = 1 => Answer(x, ss) = Err \/ (Answer(x, ss) = Ask /\ ss[1].k \notin {"lost", "refused"})
               /\ Len(ss) = 2 => Reads(x.op, ss[2], Answer(x, ss))
    BY <1>8, RpcTwice, Zenon DEF Answer
  <2>2. Len(rs) # 0 /\ Len(rs) # 1
    BY <1>1, <2>1, Zenon
  <2>3. ~(Len(rs) >= 3)
    BY <1>3, <1>4, <2>1
  <2>4. Len(rs) = 2
    BY <1>0, <1>1, <2>2, <2>3, Zenon
  <2>5. rs[1].k \notin {"lost", "refused"}
    BY <1>2, <1>4, <2>1, <2>4
  <2> QED
    BY <2>1, <2>4, <2>5
<1> QED
  BY <1>6, <1>7, <1>8, ClientAssumption

-----------------------------------------------------------------------------
(* The invariant.                                                          *)

\* A transaction stays the transaction of its call.
LEMMA TransactionsKeepCall ==
    ASSUME IInv, Running,
           \/ sign \/ AskAccount \/ identify \/ Sign \/ PostFails \/ BroadcastTxAsync
           \/ BroadcastTxSync \/ BroadcastTxCommit \/ PostTx \/ Delivered
    PROVE  call'.x = call.x /\ call'.pc # "query"
<1>1. DOMAIN call = CallFields
  BY RunningFields, Zenon
<1>2. ASSUME NEW fate, NEW out, answer(fate, out) PROVE call'.x = call.x /\ call'.pc # "query"
  BY <1>1, <1>2, Zenon DEF answer, ends, CallFields
<1>3. CASE sign \/ Sign \/ PostFails
  BY <1>1, <1>3, Zenon DEF sign, Sign, PostFails, fails, ends, CallFields
<1>7. CASE identify
  BY <1>1, <1>7 DEF identify, ends, CallFields
<1>4. CASE AskAccount
  BY <1>1, <1>4, ZenonT(30) DEF AskAccount, ends, CallFields
<1>5. CASE BroadcastTxAsync \/ BroadcastTxSync \/ BroadcastTxCommit
  BY <1>1, <1>2, <1>5 DEF BroadcastTxAsync, BroadcastTxSync, BroadcastTxCommit, goto, CallFields
<1>6. CASE PostTx \/ Delivered
  BY <1>1, <1>2, <1>6, Zenon DEF PostTx, Delivered, gatewayAnswer, goto, CallFields
<1> QED
  BY <1>3, <1>4, <1>5, <1>6, <1>7

\* A query goes on with one reply more, as long as it asks.
LEMMA ResumeStep ==
    ASSUME NEW x \in Queries, NEW rs, IsSequence(rs), AskedFor(x, rs), Replied(x, rs),
           call' = resume(x, rs)
    PROVE  QueryInv'
<1>1. /\ call'.pc = IF Answer(x, rs) = Ask THEN "query" ELSE "returned"
      /\ call'.x = x /\ call'.replies = rs /\ call'.out = Answer(x, rs)
  BY StartedFields, Zenon DEF resume, CallFields
<1> QED
  BY <1>1 DEF QueryInv

\* The replies so far, and one more.
LEMMA OneMore ==
    ASSUME NEW x, NEW rs, IsSequence(rs), AskedFor(x, rs), Replied(x, rs), Answer(x, rs) = Ask,
           NEW reply \in Replies(x, Len(rs) + 1)
    PROVE  /\ IsSequence(Append(rs, reply)) /\ AskedFor(x, Append(rs, reply))
           /\ Replied(x, Append(rs, reply))
<1> DEFINE T == {rs[i] : i \in 1 .. Len(rs)} \cup {reply}
<1>1. rs \in Seq(T) /\ reply \in T /\ Len(rs) \in Nat
  BY DEF IsSequence
<1> HIDE DEF T
<1>2. Append(rs, reply) \in Seq(T) /\ Len(Append(rs, reply)) = Len(rs) + 1
  BY <1>1
<1>3. IsSequence(Append(rs, reply))
  <2>1. ASSUME NEW s \in Seq(T) PROVE IsSequence(s)
    BY DEF IsSequence
  <2> QED
    BY <1>2, <2>1, Zenon
<1>4. ASSUME NEW n \in 0 .. Len(rs) PROVE SubSeq(Append(rs, reply), 1, n) = SubSeq(rs, 1, n)
  BY <1>1
<1>5. SubSeq(rs, 1, Len(rs)) = rs
  BY <1>1
<1>6. ASSUME NEW n \in 0 .. Len(rs) PROVE Answer(x, SubSeq(rs, 1, n)) = Ask
  <2>1. CASE n = Len(rs)
    BY <1>5, <2>1, Zenon
  <2>2. CASE n # Len(rs)
    BY <1>1, <2>2 DEF AskedFor
  <2> QED
    BY <2>1, <2>2
<1>7. 0 .. Len(Append(rs, reply)) - 1 = 0 .. Len(rs)
  BY <1>1, <1>2
<1>8. AskedFor(x, Append(rs, reply))
  <2>1. ASSUME NEW n \in 0 .. Len(rs) PROVE Answer(x, SubSeq(Append(rs, reply), 1, n)) = Ask
    <3>1. SubSeq(Append(rs, reply), 1, n) = SubSeq(rs, 1, n)
      BY <1>4
    <3>2. Answer(x, SubSeq(rs, 1, n)) = Ask
      BY <1>6
    <3> QED
      BY <3>1, <3>2, Zenon
  <2> QED
    BY <1>7, <2>1, Zenon DEF AskedFor
<1>9. Replied(x, Append(rs, reply))
  <2>1. ASSUME NEW i \in 1 .. Len(rs) + 1 PROVE Append(rs, reply)[i] \in Replies(x, i)
    <3>1. CASE i = Len(rs) + 1
      <4>1. Append(rs, reply)[i] = reply
        BY <1>1, <3>1
      <4> QED
        BY <3>1, <4>1, Zenon
    <3>2. CASE i # Len(rs) + 1
      <4>1. i \in 1 .. Len(rs)
        <5>1. i \in Int /\ i >= 1 /\ i <= Len(rs) + 1 /\ Len(rs) \in Int
          BY <1>1
        <5> QED
          BY <5>1, <3>2
      <4>2. Append(rs, reply)[i] = rs[i]
        BY <1>1, <4>1
      <4> QED
        BY <4>1, <4>2, Zenon DEF Replied
    <3> QED
      BY <3>1, <3>2
  <2> QED
    BY <1>2, <2>1, Zenon DEF Replied
<1> QED
  BY <1>3, <1>8, <1>9

\* The invariant of the queries, and of the transactions between them.
LEMMA QueryInvStep ==
    ASSUME IInv, QueryInv, [Next]_vars
    PROVE  QueryInv'
<1>1. CASE \/ \E k \in Keys : SetKeyManager(k)
           \/ \E n \in Networks : NewRPCClient(n)
           \/ CheckQueued \/ NewBlock
  <2>1. call.pc \notin {"query", "returned"} /\ (call' = call \/ busy)
    BY <1>1 DEF SetKeyManager, NewRPCClient, CheckQueued, NewBlock, apart
  <2>2. CASE call' = call
    BY <2>1, <2>2 DEF QueryInv
  <2>3. CASE busy
    <3>1. Running /\ DOMAIN call = CallFields
      BY <2>1, <2>3, RunningFields DEF busy, IInv, CallInv
    <3>2. call'.pc = call.pc
      BY <1>1, <3>1 DEF SetKeyManager, NewRPCClient, CheckQueued, NewBlock, CallFields
    <3> QED
      BY <2>1, <3>2 DEF QueryInv
  <2> QED
    BY <2>1, <2>2, <2>3
<1>2. ASSUME NEW x \in Calls, Begin(x)
      PROVE  QueryInv'
  <2>1. call'.x = x /\ call'.pc # "query"
    BY <1>2, StartedFields, ZenonT(30) DEF Begin, CallFields
  <2> QED
    BY <2>1, ClientAssumption DEF QueryInv
<1>3. CASE \/ sign \/ AskAccount \/ identify \/ Sign \/ PostFails \/ BroadcastTxAsync
           \/ BroadcastTxSync \/ BroadcastTxCommit \/ PostTx \/ Delivered
  <2>1. Running
    BY <1>3, Zenon DEF sign, AskAccount, identify, Sign, PostFails, BroadcastTxAsync, BroadcastTxSync,
                BroadcastTxCommit, PostTx, Delivered, Running
  <2>2. call'.x = call.x /\ call'.pc # "query" /\ call.x \in Calls
    BY <1>3, <2>1, TransactionsKeepCall, RunningFields
  <2> QED
    BY <2>2, ClientAssumption DEF QueryInv
<1>4. ASSUME NEW x \in Queries, BeginQuery(x)
      PROVE  QueryInv'
  <2>1. IsSequence(<<>>) /\ AskedFor(x, <<>>) /\ Replied(x, <<>>)
    BY DEF IsSequence, AskedFor, Replied
  <2> QED
    BY <1>4, <2>1, ResumeStep DEF BeginQuery
<1>5. CASE Reply
  <2>1. /\ call.x \in Queries /\ IsSequence(call.replies) /\ AskedFor(call.x, call.replies)
        /\ Replied(call.x, call.replies) /\ Answer(call.x, call.replies) = Ask
    BY <1>5 DEF Reply, QueryInv
  <2>2. PICK reply \in Replies(call.x, Len(call.replies) + 1) : call' = resume(call.x, Append(call.replies, reply))
    BY <1>5 DEF Reply
  <2> QED
    BY <2>1, <2>2, OneMore, ResumeStep
<1>6. CASE Return
  BY <1>6 DEF Return, QueryInv, Idle
<1>7. CASE UNCHANGED vars
  BY <1>7 DEF vars, QueryInv
<1> QED
  BY <1>1, <1>2, <1>3, <1>4, <1>5, <1>6, <1>7 DEF Next

\* What a query has got to is at all times the answer to the replies it asked for,
\* and the node gave them (the order of requests in the queries of both clients).
THEOREM QueryInvariant ==
    Spec => []QueryInv
<1>1. Init => QueryInv
  BY DEF Init, QueryInv, Idle
<1>2. IInv /\ QueryInv /\ [Next]_vars => QueryInv'
  BY QueryInvStep
<1> QED
  BY <1>1, <1>2, ClientInvariant, PTL DEF Spec

\* A failed request is never taken for an answer, and "nothing there" is only said
\* when the node said so: for every query of both clients but GetSideChainPool,
\* all arguments and all replies of the node.
THEOREM AnswersComeOnlyFromNode ==
    Spec => []AnswersComeFromNode
<1>1. QueryInv => AnswersComeFromNode
  <2> SUFFICES ASSUME QueryInv, returned, call.x \in Queries, call.x.op # "GetSideChainPool",
                      call.out.r \in {"none", "val", "panic"}
               PROVE  LET rs == call.replies
                          last == rs[Len(rs)]
                      IN  /\ call.out.r \in {"none", "val"} =>
                               \A i \in DOMAIN rs :
                                 rs[i].k # "lost" /\ (rs[i].k = "refused" => call.x.op \in PassedOn)
                          /\ call.out.r = "none" =>
                               \/ last.k \in {"nil", "empty", "notfound"}
                               \/ /\ call.x.op \in {"QuerySideChainRedelegations", "QuerySideChainUnbondingDelegations"}
                                  /\ last.k = "data" /\ last.v = <<>>
                          /\ call.out.r = "panic" => call.x.op = "GetCurrentOracleSequence" /\ last.k = "empty"
    BY DEF AnswersComeFromNode
  <2> DEFINE rs == call.replies
             x  == call.x
  <2>1. IsSequence(rs) /\ AskedFor(x, rs) /\ call.out = Answer(x, rs)
    BY DEF QueryInv, returned
  <2>2. Answer(x, rs) \notin {Ask, Err}
    BY <2>1 DEF Ask, Err
  <2>3. /\ Len(rs) \in {1, 2} /\ Reads(x.op, rs[Len(rs)], Answer(x, rs))
        /\ \A i \in 1 .. Len(rs) - 1 : rs[i].k \notin {"lost", "refused"}
    BY <2>1, <2>2, AnswerReads
  <2>4. \A i \in DOMAIN rs : i = Len(rs) \/ i \in 1 .. Len(rs) - 1
    BY <2>1 DEF IsSequence
  <2> QED
    BY <2>1, <2>3, <2>4 DEF Reads
<1> QED
  BY <1>1, QueryInvariant, ClientInvariant, PTL

\* The record that QuerySideChainRedelegation or QuerySideChainUnbondingDelegation
\* returns names the addresses it was asked for, if they have the proper length:
\* for all addresses and all replies of the node.
THEOREM RecordsFitQuestions ==
    Spec => []RecordFitsQuestion
<1>1. IInv /\ QueryInv => RecordFitsQuestion
  <2> DEFINE rs == call.replies
             x  == call.x
             a  == call.x.args
             v  == call.out.v
             R  == "QuerySideChainRedelegation"
             U  == "QuerySideChainUnbondingDelegation"
  <2> SUFFICES ASSUME IInv, QueryInv, returned, call.out.r = "val", x.op \in {R, U}
               PROVE  /\ x.op = R /\ IsAddr(a.del) /\ IsAddr(a.src) /\ IsAddr(a.dst) =>
                           v.del = BytesOf(a.del) /\ v.src = BytesOf(a.src) /\ v.dst = BytesOf(a.dst)
                      /\ x.op = U /\ IsAddr(a.del) /\ IsAddr(a.val) =>
                           v.del = BytesOf(a.del) /\ v.val = BytesOf(a.val)
    BY DEF RecordFitsQuestion
  <2>1. x \in Queries /\ x.c = "rpc"
    BY ClientAssumption DEF returned, IInv, CallInv, RpcMethods, GatewayMethods, GatewayQueries
  <2>2. IsSequence(rs) /\ AskedFor(x, rs) /\ call.out = Answer(x, rs)
    BY <2>1 DEF QueryInv, returned
  <2>3. Answer(x, rs) \notin {Ask, Err} /\ Answer(x, rs) = RpcQuery(x.op, a, rs)
    BY <2>1, <2>2 DEF Ask, Err, Answer
  <2>4. Len(rs) \in {1, 2}
    BY <2>1, <2>2, <2>3, AnswerReads
  <2>5. Len(rs) = 2
    BY <2>3, <2>4, RpcTwice, SMTT(30) DEF Twice
  <2>6. PICK value : call.out = IF x.op = R THEN UnmarshalRED(getREDKey(a.del, a.src, a.dst), value)
                                            ELSE unmarshalUBD(getUBDKey(a.del, a.val), value)
    BY <2>2, <2>3, <2>5, RecordRead, SMTT(30)
  <2>7. CASE x.op = R
    <3> SUFFICES ASSUME IsAddr(a.del), IsAddr(a.src), IsAddr(a.dst)
                 PROVE  v.del = BytesOf(a.del) /\ v.src = BytesOf(a.src) /\ v.dst = BytesOf(a.dst)
      BY <2>7, SMTT(30)
    <3>1. call.out = Val([del |-> BytesOf(a.del), src |-> BytesOf(a.src), dst |-> BytesOf(a.dst), value |-> value])
      BY <2>6, <2>7, RedelegationKey
    <3> QED
      BY <3>1 DEF Val
  <2>8. CASE x.op = U
    <3> SUFFICES ASSUME IsAddr(a.del), IsAddr(a.val)
                 PROVE  v.del = BytesOf(a.del) /\ v.val = BytesOf(a.val)
      BY <2>8, SMTT(30)
    <3>1. call.out = Val([del |-> BytesOf(a.del), val |-> BytesOf(a.val), value |-> value])
      BY <2>6, <2>8, UnbondingKey
    <3> QED
      BY <3>1 DEF Val
  <2> QED
    BY <2>7, <2>8
<1> QED
  BY <1>1, QueryInvariant, ClientInvariant, PTL

-----------------------------------------------------------------------------
(* What the messages are made of.                                          *)

\* The message m that the method op makes of its arguments: SendToken a SendMsg
\* of the transfers, no other method a SendMsg; a named token is an argument.
Makes(op, k, a, m) ==
    /\ op = "SendToken" => m = CreateSendMsg(k, fromCoins(a.transfers), a.transfers)
    /\ m.t = "SendMsg" => op = "SendToken"
    /\ m.t \in Named => op \in NamedBy /\ ("symbol" \in DOMAIN a => m.symbol = a.symbol)

\* The types of the other messages that methods make.
Unnamed == (SenderSigns \ Named) \cup {"CreateSideChainValidatorMsg", "MsgSideChainUnjail"}

\* A message of one of those types, and one that names a token of the arguments.
IsUnnamed(k, m) == \E t \in Unnamed : \E b : m = Sent(t, k, b)
Names(k, a, m)  == \E t \in Named : m = Sent(t, k, a)

\* A message with the fields of the arguments.
LEMMA SentFields ==
    ASSUME NEW t, NEW k, NEW b
    PROVE  Sent(t, k, b).t = t /\ ("symbol" \in DOMAIN b => Sent(t, k, b).symbol = b.symbol)
BY Zenon DEF Sent, join

\* The message of SendToken, for both clients.
LEMMA SendMakes ==
    ASSUME NEW k, NEW a, NEW m, m = CreateSendMsg(k, fromCoins(a.transfers), a.transfers)
    PROVE  Makes("SendToken", k, a, m)
<1>1. m.t = "SendMsg" /\ "SendMsg" \notin Named
  BY Zenon DEF CreateSendMsg, Named
<1> QED
  BY <1>1, Zenon DEF Makes

\* A message that is no SendMsg and names no token.
LEMMA UnnamedMakes ==
    ASSUME NEW op, op # "SendToken", NEW k, NEW a, NEW m, IsUnnamed(k, m)
    PROVE  Makes(op, k, a, m)
<1>1. PICK t, b : t \in Unnamed /\ m = Sent(t, k, b)
  BY Zenon DEF IsUnnamed
<1>2. m.t = t
  BY <1>1, SentFields
<1>3. t # "SendMsg" /\ t \notin Named
  BY <1>1, Zenon DEF Unnamed, SenderSigns, Named
<1> QED
  BY <1>2, <1>3, ZenonT(30) DEF Makes

\* A message that names a token.
LEMMA NamedMakes ==
    ASSUME NEW op \in NamedBy, NEW k, NEW a, NEW m, Names(k, a, m)
    PROVE  Makes(op, k, a, m)
<1>1. PICK t \in Named : m = Sent(t, k, a)
  BY Zenon DEF Names
<1>2. m.t = t /\ ("symbol" \in DOMAIN a => m.symbol = a.symbol)
  BY <1>1, SentFields
<1>3. t # "SendMsg" /\ op # "SendToken"
  BY Zenon DEF Named, NamedBy
<1> QED
  BY <1>2, <1>3, Zenon DEF Makes

\* The methods of the rpc client.
LEMMA RpcMakes ==
    ASSUME NEW op \in RpcMethods, NEW k, NEW a, RpcMessage(op, k, a) # Refused
    PROVE  Makes(op, k, a, RpcMessage(op, k, a))
<1> DEFINE m == RpcMessage(op, k, a)
<1>1. CASE op = "SendToken"
  BY <1>1, SendMakes, Zenon DEF RpcMessage, SendToken
<1>2. CASE op = "TransferTokenOwnership"
  <2>1. m = Sent("TransferOwnershipMsg", k, a)
    BY <1>2, Zenon DEF RpcMessage, TransferTokenOwnership
  <2>2. "TransferOwnershipMsg" \in Named /\ op \in NamedBy
    BY <1>2, Zenon DEF Named, NamedBy
  <2> QED
    BY <2>1, <2>2, NamedMakes, Zenon DEF Names
<1>3. CASE op \notin {"SendToken", "TransferTokenOwnership"}
  <2>1. IsUnnamed(k, m)
    BY <1>3 DEF IsUnnamed, Unnamed, Named, SenderSigns, RpcMethods, RpcMessage, CreateOrder, NewCreateOrderMsg, CancelOrder,
         HTLT, DepositHTLT, ClaimHTLT, RefundHTLT, SideChainVote, SideChainDeposit,
         SideChainSubmitProposal, SubmitProposal, SubmitListProposal, Deposit, Vote,
         TransferOut, Bind, Unbind, Claim, SideChainSubmitSCParamsProposal,
         SideChainSubmitCSCParamsProposal, CreateSideChainValidator, EditSideChainValidator,
         SideChainDelegate, SideChainUnbond, SideChainRedelegate, SideChainUnjail
  <2> QED
    BY <1>3, <2>1, UnnamedMakes, ZenonT(30)
<1> QED
  BY <1>1, <1>2, <1>3, Zenon

\* The methods of the gateway client.
LEMMA GatewayMakes ==
    ASSUME NEW op \in GatewayMethods, NEW k, NEW a, GatewayMessage(op, k, a) # Refused
    PROVE  Makes(op, k, a, GatewayMessage(op, k, a))
<1> DEFINE m == GatewayMessage(op, k, a)
           naming == {"IssueToken", "IssueMiniToken", "IssueTinyToken", "BurnToken", "FreezeToken", "UnfreezeToken",
                      "TransferTokenOwnership", "SetURI"}
<1>1. CASE op = "SendToken"
  BY <1>1, SendMakes, Zenon DEF GatewayMessage, SendToken_, fromCoins
<1>2. CASE op \in naming
  <2>1. Names(k, a, m)
    BY <1>2, Zenon DEF Names, Named, GatewayMessage, withSymbol, IssueToken, IssueMiniToken, IssueTinyToken, BurnToken,
           FreezeToken, UnfreezeToken, TransferTokenOwnership_, SetURI
  <2>2. op \in NamedBy
    BY <1>2, Zenon DEF NamedBy
  <2> QED
    BY <2>1, <2>2, NamedMakes, Zenon
<1>3. CASE op # "SendToken" /\ op \notin naming
  <2>1. IsUnnamed(k, m)
    BY <1>3 DEF IsUnnamed, Unnamed, Named, SenderSigns, GatewayMethods, GatewayMessage, CreateOrder_, CancelOrder_, withSymbol,
         MintToken, HTLT_, DepositHTLT_, ClaimHTLT_, RefundHTLT_, ListPair, ListMiniPair, SetAccountFlags,
         VoteProposal, DepositProposal, SubmitProposal_, SubmitListPairProposal, TimeLock, TimeUnLock, TimeReLock
  <2> QED
    BY <1>3, <2>1, UnnamedMakes, ZenonT(30)
<1> QED
  BY <1>1, <1>2, <1>3, Zenon

\* The message that a new transaction starts with.
LEMMA BeginMessage ==
    ASSUME IInv, MessageInv, NEW x \in Calls, Begin(x)
    PROVE  MessageInv'
<1> DEFINE m == message(x)
           k == IF x.c = "rpc" THEN key ELSE GatewayKey
<1>1. key' = key /\ key' \in Keys \cup {NilAddr}
  BY Zenon DEF Begin, MessageInv
<1>2. CASE call' = [Started(x) EXCEPT !.pc = "returned", !.out = Err]
  <2>1. call'.pc = "returned"
    BY <1>2, StartedFields, Zenon DEF CallFields
  <2> QED
    BY <1>1, <2>1, Zenon DEF MessageInv, Running
<1>3. CASE m # Refused /\ ~(x.c = "rpc" /\ key = NilAddr) /\ call' = [Started(x) EXCEPT !.m = m]
  <2>1. call'.pc = "sign" /\ call'.x = x /\ call'.m = m
    BY <1>3, StartedFields, ZenonT(30) DEF CallFields
  <2>2. x.op # "Broadcast" => Makes(x.op, k, x.args, m)
    <3>1. CASE x.c = "gateway"
      <4>1. m = GatewayMessage(x.op, GatewayKey, x.args) /\ x.op \in GatewayMethods
        BY <3>1, ClientAssumption, Zenon DEF message, GatewayMethods
      <4> QED
        BY <1>3, <3>1, <4>1, GatewayMakes
    <3>2. CASE x.c = "rpc" /\ x.op # "Broadcast"
      <4>1. m = RpcMessage(x.op, key, x.args) /\ x.op \in RpcMethods
        BY <3>2, ClientAssumption, Zenon DEF message
      <4> QED
        BY <1>3, <3>2, <4>1, RpcMakes
    <3> QED
      BY <3>1, <3>2, ClientAssumption
  <2>3. x.op = "Broadcast" => m = x.args.m /\ (m.t \in Named => IsSymbol(m.symbol))
    BY ClientAssumption DEF message, GatewayMethods
  <2>4. IsAddr(k)
    BY <1>3, ClientAssumption DEF MessageInv
  <2> HIDE DEF m, k
  <2>5. x.op = "SendToken" =>
          m = CreateSendMsg(m.from, fromCoins(x.args.transfers), x.args.transfers) /\ IsAddr(m.from)
    <3>1. CASE x.op = "SendToken"
      <4>1. m = CreateSendMsg(k, fromCoins(x.args.transfers), x.args.transfers)
        BY <2>2, <3>1 DEF Makes
      <4>2. m.from = k
        BY <4>1, Zenon DEF CreateSendMsg
      <4> QED
        BY <2>4, <4>1, <4>2, ZenonT(30)
    <3> QED
      BY <3>1
  <2>6. m.t = "SendMsg" => x.op = "SendToken" \/ (x.op = "Broadcast" /\ m = x.args.m)
    BY <2>2, <2>3, Zenon DEF Makes
  <2>7. m.t \in Named => IsSymbol(m.symbol)
    BY <2>2, <2>3, ClientAssumption, Zenon DEF Makes
  <2> QED
    BY <1>1, <2>1, <2>5, <2>6, <2>7, Zenon DEF MessageInv, identified
<1> QED
  BY <1>2, <1>3, Zenon DEF Begin

\* A step that leaves the key, the call and its message alone.
LEMMA MessageKept ==
    ASSUME MessageInv, key' \in Keys \cup {NilAddr},
           Running' => Running /\ call'.x = call.x /\ call'.m = call.m,
           identified' => identified \/ MsgOf(call.m).valid
    PROVE  MessageInv'
<1>1. CASE ~Running'
  BY <1>1, Zenon DEF MessageInv
<1>2. CASE Running'
  <2>1. identified' => MsgOf(call'.m).valid
    BY <1>2, Zenon DEF MessageInv
  <2> QED
    BY <1>2, <2>1, Zenon DEF MessageInv
<1> QED
  BY <1>1, <1>2

\* The validation, which lets only a valid message pass.
LEMMA IdentifyMessage ==
    ASSUME IInv, MessageInv, identify
    PROVE  MessageInv'
<1> DEFINE O == call.m.t = "CreateOrderMsg"
           m == IF O THEN [call.m EXCEPT !.orderId = OrderID(keyNow, call.seq + 1)] ELSE call.m
<1>1. Running /\ DOMAIN call = CallFields /\ key' = key
  BY RunningFields DEF identify, Running
<1>2. CASE MsgOf(m).valid /\ call' = [call EXCEPT !.pc = "keysign", !.m = m]
  <2>1. call'.pc = "keysign" /\ call'.m = m /\ call'.x = call.x
    BY <1>1, <1>2, Zenon DEF CallFields
  <2>2. CASE ~O
    BY <1>1, <1>2, <2>1, <2>2, MessageKept, Zenon DEF MessageInv
  <2>3. CASE O
    <3>1. m.t = "CreateOrderMsg"
      <4>1. "t" \in DOMAIN call.m
        BY <1>1, <2>3 DEF IInv, FateInv
      <4> QED
        BY <2>3, <4>1
    <3>2. call.x.op # "SendToken"
      <4>1. \A from, coins, ts : CreateSendMsg(from, coins, ts).t = "SendMsg"
        BY Zenon DEF CreateSendMsg
      <4>2. call.x.op = "SendToken" => \E from, coins, ts : call.m = CreateSendMsg(from, coins, ts)
        BY <1>1, Zenon DEF MessageInv
      <4> QED
        BY <2>3, <4>1, <4>2
    <3>3. "CreateOrderMsg" \notin Named /\ "CreateOrderMsg" # "SendMsg"
      BY DEF Named
    <3> HIDE DEF m, O
    <3> QED
      BY <1>1, <1>2, <2>1, <3>1, <3>2, <3>3, Zenon DEF MessageInv
  <2> QED
    BY <2>2, <2>3
<1>3. CASE call' = ends(Err)
  <2>1. ~Running'
    BY <1>1, <1>3, ZenonT(30) DEF ends, CallFields, Running
  <2> QED
    BY <1>1, <2>1, Zenon DEF MessageInv
<1> QED
  BY <1>2, <1>3, Zenon DEF identify

\* The other steps of a transaction, which go on with its message or return.
LEMMA TransactionsKeepMessage ==
    ASSUME IInv, Running,
           \/ sign \/ AskAccount \/ Sign \/ PostFails \/ BroadcastTxAsync
           \/ BroadcastTxSync \/ BroadcastTxCommit \/ PostTx \/ Delivered
    PROVE  Running' => call'.x = call.x /\ call'.m = call.m /\ (identified' => identified)
<1>1. DOMAIN call = CallFields
  BY RunningFields, Zenon
<1>2. ASSUME NEW fate, NEW out, answer(fate, out) PROVE ~Running'
  <2>1. call'.pc = "returned"
    BY <1>1, <1>2, Zenon DEF answer, ends, CallFields
  <2> QED
    BY <2>1, Zenon DEF Running
<1>3. ASSUME NEW out, call' = ends(out) PROVE ~Running'
  <2>1. call'.pc = "returned"
    BY <1>1, <1>3, Zenon DEF ends, CallFields
  <2> QED
    BY <2>1, Zenon DEF Running
<1>4. CASE PostFails
  BY <1>3, <1>4, Zenon DEF PostFails, fails
<1>5. CASE sign
  <2>1. call'.pc \in {"ask", "identify"} /\ call'.x = call.x /\ call'.m = call.m
    BY <1>1, <1>5, Zenon DEF sign, CallFields
  <2> QED
    BY <2>1, Zenon DEF identified
<1>6. CASE Sign
  <2>1. CASE fails
    BY <1>3, <2>1, Zenon DEF fails
  <2>2. CASE call' = [call EXCEPT !.pc = "post", !.signer = keyNow, !.prefix = Bech32Prefixes(network)]
    <3>1. call'.x = call.x /\ call'.m = call.m /\ identified
      BY <1>1, <1>6, <2>2, Zenon DEF CallFields, identified, Sign
    <3> QED
      BY <3>1, Zenon
  <2> QED
    BY <1>6, <2>1, <2>2, Zenon DEF Sign
<1>7. CASE AskAccount
  <2>1. \/ call' = ends(Err)
        \/ call'.pc = "identify" /\ call'.x = call.x /\ call'.m = call.m
    BY <1>1, <1>7, ZenonT(30) DEF AskAccount, CallFields
  <2> QED
    BY <1>3, <2>1, Zenon DEF identified
<1>8. ASSUME goto("wait"), call.pc = "post"
      PROVE  call'.x = call.x /\ call'.m = call.m /\ identified
  BY <1>1, <1>8, Zenon DEF goto, CallFields, identified
<1>9. CASE BroadcastTxAsync \/ BroadcastTxSync \/ BroadcastTxCommit
  BY <1>2, <1>8, <1>9, Zenon DEF BroadcastTxAsync, BroadcastTxSync, BroadcastTxCommit
<1>10. CASE PostTx \/ Delivered
  BY <1>2, <1>8, <1>10, Zenon DEF PostTx, Delivered, gatewayAnswer
<1> QED
  BY <1>4, <1>5, <1>6, <1>7, <1>9, <1>10

\* What the message of a transaction is made of, at each of its steps.
LEMMA MessageInvStep ==
    ASSUME IInv, MessageInv, [Next]_vars
    PROVE  MessageInv'
<1>1. CASE \/ \E k \in Keys : SetKeyManager(k)
           \/ \E n \in Networks : NewRPCClient(n)
           \/ CheckQueued \/ NewBlock
  <2>1. key' \in Keys \cup {NilAddr}
    BY <1>1, Zenon DEF SetKeyManager, NewRPCClient, CheckQueued, NewBlock, MessageInv
  <2>2. CASE call' = call
    BY <2>1, <2>2, MessageKept, Zenon DEF Running, identified
  <2>3. CASE call' # call
    <3>1. busy /\ call.pc \notin {"query", "returned"}
      BY <1>1, <2>3, Zenon DEF SetKeyManager, NewRPCClient, CheckQueued, NewBlock, apart
    <3>2. Running /\ DOMAIN call = CallFields
      BY <3>1, RunningFields DEF busy, IInv, CallInv
    <3>3. call'.pc = call.pc /\ call'.x = call.x /\ call'.m = call.m
      BY <1>1, <3>2 DEF SetKeyManager, NewRPCClient, CheckQueued, NewBlock, CallFields
    <3> QED
      BY <2>1, <3>2, <3>3, MessageKept, Zenon DEF Running, identified
  <2> QED
    BY <2>2, <2>3
<1>2. CASE \E x \in Calls : Begin(x)
  BY <1>2, BeginMessage, Zenon
<1>3. CASE identify
  BY <1>3, IdentifyMessage, Zenon
<1>4. CASE \/ sign \/ AskAccount \/ Sign \/ PostFails \/ BroadcastTxAsync
           \/ BroadcastTxSync \/ BroadcastTxCommit \/ PostTx \/ Delivered
  <2>1. Running /\ key' = key
    BY <1>4, Zenon DEF sign, AskAccount, Sign, PostFails, BroadcastTxAsync, BroadcastTxSync,
                BroadcastTxCommit, PostTx, Delivered, Running
  <2>2. Running' => call'.x = call.x /\ call'.m = call.m /\ (identified' => identified)
    BY <1>4, <2>1, TransactionsKeepMessage, Zenon
  <2>3. identified' => Running'
    BY Zenon DEF identified, Running
  <2> QED
    BY <2>1, <2>2, <2>3, MessageKept, Zenon DEF MessageInv
<1>5. CASE (\E x \in Queries : BeginQuery(x)) \/ Reply \/ Return
  <2>1. call'.pc \in {"query", "returned", "idle"} /\ key' = key
    <3>1. ASSUME NEW x, NEW rs, call' = resume(x, rs) PROVE call'.pc \in {"query", "returned"}
      BY <3>1, StartedFields, Zenon DEF resume, CallFields
    <3>2. call' = Idle => call'.pc = "idle"
      BY DEF Idle
    <3> QED
      BY <1>5, <3>1, <3>2, Zenon DEF BeginQuery, Reply, Return
  <2>2. ~Running'
    BY <2>1, Zenon DEF Running
  <2> QED
    BY <2>1, <2>2, Zenon DEF MessageInv
<1>6. CASE UNCHANGED vars
  BY <1>6, MessageKept, ZenonT(30) DEF vars, Running, identified, MessageInv
<1> QED
  BY <1>1, <1>2, <1>3, <1>4, <1>5, <1>6, ZenonT(30) DEF Next

\* The message of a transaction is at all times what its method made of the
\* arguments, and once ValidateBasic has let it pass it is valid (the methods of
\* both clients, sign and broadcastMsg).
THEOREM MessageInvariant ==
    Spec => []MessageInv
<1>1. Init => MessageInv
  BY DEF Init, MessageInv, Idle, Running
<1>2. IInv /\ MessageInv /\ [Next]_vars => MessageInv'
  BY MessageInvStep, Zenon
<1> QED
  BY <1>1, <1>2, ClientInvariant, PTL DEF Spec

=============================================================================
