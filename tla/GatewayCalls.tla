---------------------------- MODULE GatewayCalls ----------------------------
(***************************************************************************)
(* The gateway client: the message each method of client/transaction       *)
(* builds, what it makes of the answer to a broadcast, and the queries of  *)
(* client/query with the checks of common/types/query.go.  A method that   *)
(* the rpc client has too ends in an underscore here.                      *)
(***************************************************************************)
EXTENDS RpcQueries

SendToken_(k, a) ==
    CreateSendMsg(k, foldLeft(LAMBDA sum, t : Plus(sum, Sort(t.coins)), <<>>, a.transfers), a.transfers)

noSymbol(a)   == SymbolLen(a.symbol) = 0
noSymbols_(a) == SymbolLen(a.base) = 0 \/ SymbolLen(a.quote) = 0

CreateOrder_(k, a) ==
    IF noSymbols_(a) THEN Refused
    ELSE Sent("CreateOrderMsg", k, join([orderId |-> NoID, orderType |-> 2, timeInForce |-> 1], a))

CancelOrder_(k, a) == IF noSymbols_(a) \/ a.refId = NoID THEN Refused ELSE Sent("CancelOrderMsg", k, a)

\* An empty symbol is refused before anything else.
withSymbol(t, k, a) == IF noSymbol(a) THEN Refused ELSE Sent(t, k, a)

IssueToken(k, a)     == withSymbol("TokenIssueMsg", k, a)
IssueMiniToken(k, a) == withSymbol("MiniTokenIssueMsg", k, a)
IssueTinyToken(k, a) == withSymbol("MiniTokenIssueMsg", k, a)    \* not TinyTokenIssueMsg
BurnToken(k, a)      == withSymbol("TokenBurnMsg", k, a)
FreezeToken(k, a)    == withSymbol("TokenFreezeMsg", k, a)
UnfreezeToken(k, a)  == withSymbol("TokenUnfreezeMsg", k, a)
MintToken(k, a)      == withSymbol("MintMsg", k, a)

HTLT_(k, a)                   == Sent("HTLTMsg", k, a)
DepositHTLT_(k, a)            == Sent("DepositHTLTMsg", k, a)
ClaimHTLT_(k, a)              == Sent("ClaimHTLTMsg", k, a)
RefundHTLT_(k, a)             == Sent("RefundHTLTMsg", k, a)
TransferTokenOwnership_(k, a) == Sent("TransferOwnershipMsg", k, a)
SetURI(k, a)                  == Sent("SetURIMsg", k, a)
ListPair(k, a)                == Sent("DexListMsg", k, a)
ListMiniPair(k, a)            == Sent("ListMiniMsg", k, a)
SetAccountFlags(k, a)         == Sent("SetAccountFlagsMsg", k, a)
VoteProposal(k, a)            == Sent("VoteMsg", k, a)

\* The deposit is an amount of the native token, denomination 1.
deposit(amount) == <<Coin(1, amount)>>

DepositProposal(k, a)        == Sent("DepositMsg", k, join([coins |-> deposit(a.amount)], a))
SubmitProposal_(k, a)        == Sent("SubmitProposalMsg", k, join([coins |-> deposit(a.amount)], a))
SubmitListPairProposal(k, a) == SubmitProposal_(k, join([proposalType |-> 4], a))

TimeLock(k, a) == Sent("TimeLockMsg", k, a)

\* These two validate before they broadcast, which validates again.
TimeUnLock(k, a) == LET m == Sent("TimeUnlockMsg", k, a) IN IF TimeUnlockMsg(m).valid THEN m ELSE Refused
TimeReLock(k, a) == LET m == Sent("TimeRelockMsg", k, a) IN IF TimeRelockMsg(m).valid THEN m ELSE Refused

GatewayMethods ==
    {"SendToken", "CreateOrder", "CancelOrder", "IssueToken", "IssueMiniToken", "IssueTinyToken",
     "BurnToken", "FreezeToken", "UnfreezeToken", "MintToken", "HTLT", "DepositHTLT", "ClaimHTLT",
     "RefundHTLT", "TransferTokenOwnership", "SetURI", "ListPair", "ListMiniPair",
     "SetAccountFlags", "VoteProposal", "DepositProposal", "SubmitProposal",
     "SubmitListPairProposal", "TimeLock", "TimeUnLock", "TimeReLock"}

GatewayMessage(op, k, a) ==
    CASE op = "SendToken" -> SendToken_(k, a)
      [] op = "CreateOrder" -> CreateOrder_(k, a)
      [] op = "CancelOrder" -> CancelOrder_(k, a)
      [] op = "IssueToken" -> IssueToken(k, a)
      [] op = "IssueMiniToken" -> IssueMiniToken(k, a)
      [] op = "IssueTinyToken" -> IssueTinyToken(k, a)
      [] op = "BurnToken" -> BurnToken(k, a)
      [] op = "FreezeToken" -> FreezeToken(k, a)
      [] op = "UnfreezeToken" -> UnfreezeToken(k, a)
      [] op = "MintToken" -> MintToken(k, a)
      [] op = "HTLT" -> HTLT_(k, a)
      [] op = "DepositHTLT" -> DepositHTLT_(k, a)
      [] op = "ClaimHTLT" -> ClaimHTLT_(k, a)
      [] op = "RefundHTLT" -> RefundHTLT_(k, a)
      [] op = "TransferTokenOwnership" -> TransferTokenOwnership_(k, a)
      [] op = "SetURI" -> SetURI(k, a)
      [] op = "ListPair" -> ListPair(k, a)
      [] op = "ListMiniPair" -> ListMiniPair(k, a)
      [] op = "SetAccountFlags" -> SetAccountFlags(k, a)
      [] op = "VoteProposal" -> VoteProposal(k, a)
      [] op = "DepositProposal" -> DepositProposal(k, a)
      [] op = "SubmitProposal" -> SubmitProposal_(k, a)
      [] op = "SubmitListPairProposal" -> SubmitListPairProposal(k, a)
      [] op = "TimeLock" -> TimeLock(k, a)
      [] op = "TimeUnLock" -> TimeUnLock(k, a)
      [] op = "TimeReLock" -> TimeReLock(k, a)

\* Whether the method parses the data of the commit: an id or a symbol in it.
Parses(op, ok, sync) ==
    \/ op = "CreateOrder" /\ sync
    \/ /\ op \in {"IssueToken", "IssueMiniToken", "IssueTinyToken", "TimeLock", "TimeUnLock",
                  "TimeReLock", "SubmitProposal", "SubmitListPairProposal"}
       /\ ok /\ sync

-----------------------------------------------------------------------------
(* common/types/query.go; an option is a sequence of at most one element.  *)

positive(option) == option # <<>> => option[1] > 0

inOrder(start, end) == positive(start) /\ positive(end) /\ (start # <<>> /\ end # <<>> => start[1] <= end[1])

SideOK(side) == side \in {"BUY", "SELL", ""}

ClosedOrdersQueryCheck(q) == q.address > 0 /\ SideOK(q.side) /\ positive(q.limitOpt) /\ inOrder(q.start, q.end)
TradesQueryCheck(q)       == SideOK(q.side) /\ positive(q.limitOpt) /\ inOrder(q.start, q.end)
OpenOrdersQueryCheck(q)   == q.address > 0 /\ positive(q.limitOpt)
DepthQueryCheck(q)        == q.symbols > 0 /\ positive(q.limitOpt)
KlineQueryCheck(q)        == q.symbols > 0 /\ q.interval > 0 /\ positive(q.limitOpt) /\ inOrder(q.start, q.end)
MarketsQueryCheck(q)      == positive(q.limitOpt)

(* client/query: one request over HTTP.  A status that is not a success is *)
(* an error, refused or notfound here.                                     *)

GetClosedOrders(q, rs)     == OneRequest(ClosedOrdersQueryCheck(q), decode, rs)
GetMiniClosedOrders(q, rs) == OneRequest(ClosedOrdersQueryCheck(q), decode, rs)
GetTrades(q, rs)           == OneRequest(TradesQueryCheck(q), decode, rs)
GetMiniTrades(q, rs)       == OneRequest(TradesQueryCheck(q), decode, rs)
GetOpenOrders_(q, rs)      == OneRequest(OpenOrdersQueryCheck(q), decode, rs)
GetMiniOpenOrders(q, rs)   == OneRequest(OpenOrdersQueryCheck(q), decode, rs)
GetDepth_(q, rs)           == OneRequest(DepthQueryCheck(q), decode, rs)
GetMarkets(q, rs)          == OneRequest(MarketsQueryCheck(q), decode, rs)
GetMiniMarkets(q, rs)      == OneRequest(MarketsQueryCheck(q), decode, rs)
GetOrder(q, rs)            == OneRequest(q.order > 0, decode, rs)
GetMiniOrder(q, rs)        == OneRequest(q.order > 0, decode, rs)
GetTokens(q, rs)           == OneRequest(TRUE, decode, rs)
GetMiniTokens(q, rs)       == OneRequest(TRUE, decode, rs)
GetTicker24h(q, rs)        == OneRequest(TRUE, decode, rs)
GetMiniTicker24h(q, rs)    == OneRequest(TRUE, decode, rs)
GetTime(q, rs)             == OneRequest(TRUE, decode, rs)
GetNodeInfo(q, rs)         == OneRequest(TRUE, decode, rs)

\* A candle is an array of at least nine fields; the reply has their numbers.
candles(reply) ==
    LET rows == decode(reply) IN
    IF rows.r = "val" /\ \E i \in DOMAIN rows.v : rows.v[i] < 9 THEN Err ELSE rows

GetKlines(q, rs)     == OneRequest(KlineQueryCheck(q), candles, rs)
GetMiniKlines(q, rs) == OneRequest(KlineQueryCheck(q), candles, rs)

\* The status 404 is an account without balances.
accountOrNone(reply) == IF reply.k = "notfound" THEN None ELSE decode(reply)

GetAccount_(q, rs) == OneRequest(q.address > 0, accountOrNone, rs)

GatewayQueries ==
    {"GetClosedOrders", "GetMiniClosedOrders", "GetTrades", "GetMiniTrades", "GetOpenOrders",
     "GetMiniOpenOrders", "GetDepth", "GetMarkets", "GetMiniMarkets", "GetOrder", "GetMiniOrder",
     "GetTokens", "GetMiniTokens", "GetTicker24h", "GetMiniTicker24h", "GetTime", "GetNodeInfo",
     "GetKlines", "GetMiniKlines", "GetAccount"}

GatewayQuery(op, q, rs) ==
    CASE op = "GetClosedOrders" -> GetClosedOrders(q, rs)
      [] op = "GetMiniClosedOrders" -> GetMiniClosedOrders(q, rs)
      [] op = "GetTrades" -> GetTrades(q, rs)
      [] op = "GetMiniTrades" -> GetMiniTrades(q, rs)
      [] op = "GetOpenOrders" -> GetOpenOrders_(q, rs)
      [] op = "GetMiniOpenOrders" -> GetMiniOpenOrders(q, rs)
      [] op = "GetDepth" -> GetDepth_(q, rs)
      [] op = "GetMarkets" -> GetMarkets(q, rs)
      [] op = "GetMiniMarkets" -> GetMiniMarkets(q, rs)
      [] op = "GetOrder" -> GetOrder(q, rs)
      [] op = "GetMiniOrder" -> GetMiniOrder(q, rs)
      [] op = "GetTokens" -> GetTokens(q, rs)
      [] op = "GetMiniTokens" -> GetMiniTokens(q, rs)
      [] op = "GetTicker24h" -> GetTicker24h(q, rs)
      [] op = "GetMiniTicker24h" -> GetMiniTicker24h(q, rs)
      [] op = "GetTime" -> GetTime(q, rs)
      [] op = "GetNodeInfo" -> GetNodeInfo(q, rs)
      [] op = "GetKlines" -> GetKlines(q, rs)
      [] op = "GetMiniKlines" -> GetMiniKlines(q, rs)
      [] op = "GetAccount" -> GetAccount_(q, rs)

=============================================================================
