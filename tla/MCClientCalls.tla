---------------------------- MODULE MCClientCalls ----------------------------
(***************************************************************************)
(* An instance of ClientCalls for TLC.  Every method is called with        *)
(* arguments at the edges of its checks; the modes and options of a        *)
(* broadcast are tried on two methods.  Amounts have 4 bits.             *)
(***************************************************************************)
EXTENDS ClientCalls, SequencesExt

A == Addr("a", AddrLen)     \* has an account
B == Addr("b", AddrLen)     \* has none
C == Addr("c", AddrLen)
Short == Addr("s", AddrLen - 1)
Long  == Addr("l", AddrLen + 1)

MCKeys     == {A, B}
MCAccounts == {A}
MCGatewayKey == A

-----------------------------------------------------------------------------
(* Arguments.                                                              *)

Part(len, hex, m) == [len |-> len, hex |-> hex, m |-> m]
Symbol(len, dotB, alnum, parts) ==
    [native |-> FALSE, dotB |-> dotB, len |-> len, alnum |-> alnum, parts |-> parts]

BNB   == [NoSymbol EXCEPT !.native = TRUE, !.len = 3]
BNBs  == [BNB EXCEPT !.parts = <<Part(3, TRUE, FALSE)>>]
Token == Symbol(8, TRUE, TRUE, <<Part(3, TRUE, FALSE)>>)
Mini  == Symbol(2, FALSE, TRUE, <<Part(4, TRUE, TRUE)>>)
MiniB == Symbol(8, TRUE, TRUE, <<Part(4, TRUE, TRUE)>>)

Symbols == {NoSymbol, BNB, BNBs, Token, Mini, MiniB, Symbol(9, FALSE, TRUE, <<Part(3, TRUE, FALSE)>>),
            Symbol(1, FALSE, TRUE, <<Part(4, TRUE, TRUE)>>), Symbol(3, FALSE, TRUE, <<Part(3, FALSE, FALSE)>>),
            Symbol(3, FALSE, FALSE, <<Part(3, TRUE, FALSE)>>),
            Symbol(3, FALSE, TRUE, <<Part(3, TRUE, FALSE), Part(3, TRUE, FALSE)>>)}

NewSymbols == {NoSymbol, BNB, Symbol(2, FALSE, TRUE, <<>>), Symbol(8, TRUE, TRUE, <<>>),
               Symbol(9, FALSE, TRUE, <<>>), Mini}

Pairs == {[base |-> Token, quote |-> BNB], [base |-> Mini, quote |-> BNB], [base |-> NoSymbol, quote |-> BNB]}

One  == <<Coin(1, 1)>>
Most  == Half - 1
To(a, coins) == [to |-> a, coins |-> coins]

Transfers ==
    {<<>>, <<To(NilAddr, One)>>, <<To(B, <<>>)>>, <<To(B, <<Coin(1, 0)>>)>>,
     <<To(B, <<Coin(2, 3), Coin(1, 2)>>)>>,
     <<To(B, <<Coin(3, 1), Coin(1, 2), Coin(2, 5)>>), To(C, <<Coin(2, 2)>>)>>,
     <<To(B, <<Coin(1, 3)>>), To(C, <<Coin(1, 4), Coin(2, 1)>>)>>,
     <<To(B, <<Coin(1, Most)>>), To(C, <<Coin(1, Most)>>)>>,
     <<To(B, <<Coin(1, Most)>>), To(C, <<Coin(1, Most)>>), To(B, <<Coin(1, 4)>>)>>,
     <<To(B, <<Coin(1, 1), Coin(1, 1)>>)>>}

Deposits == {One, <<>>, <<Coin(1, 0)>>, <<Coin(1, -1)>>, <<Coin(2, 1), Coin(1, 1)>>}

End(a, coins) == [address |-> a, coins |-> coins]
Send(ins, outs) == [t |-> "SendMsg", from |-> A, inputs |-> ins, outputs |-> outs]

Sends == {Send(<<End(A, One)>>, <<End(B, One)>>),
          Send(<<End(A, <<Coin(1, 2)>>)>>, <<End(B, One)>>),
          Send(<<End(A, <<Coin(1, Most)>>), End(A, <<Coin(1, Most)>>), End(A, <<Coin(1, 4)>>)>>,
               <<End(B, <<Coin(1, 2)>>)>>),
          Send(<<End(A, One), End(B, <<Coin(2, 1)>>)>>, <<End(C, <<Coin(1, 1), Coin(2, 1)>>)>>),
          Send(<<>>, <<>>)}

Desc(moniker) == [moniker |-> moniker, identity |-> 0, website |-> 0, details |-> 0]
Commission(rate, max) == [maxRate |-> max, rate |-> rate, maxChange |-> 1]

ValidatorArgs == {[desc |-> d, commission |-> c, sideChainId |-> s, consAddr |-> 20, feeAddr |-> f, amount |-> 0] :
                    d \in {Desc(0), Desc(70)}, c \in {Commission(1, 5), Commission(6, 5)},
                    s \in {0, 3}, f \in {20, 16}}

Slash == [kind |-> "slash", evidenceAge |-> Minute, doubleSignUnbond |-> 60 * Minute, downtimeUnbond |-> Minute,
          tooLowUnbond |-> 100 * Days, doubleSignSlash |-> 10, downtimeSlash |-> 100000, reward |-> 1, fee |-> 10]
Stake == [kind |-> "staking", bondDenom |-> "BNB", unbondingTime |-> Minute, maxValidators |-> 500,
          minSelf |-> 10, minChange |-> 1]
Ibc    == [kind |-> "ibc", fee |-> 1]
Oracle == [kind |-> "oracle", needed |-> <<10>>]

ParamLists == {<<Slash, Stake, Ibc, Oracle>>, <<Oracle, Ibc, Stake, Slash>>, <<Ibc, Ibc, Stake, Slash>>,
               <<Ibc, Stake, Slash>>, <<[kind |-> "nil"], Ibc, Stake, Slash>>,
               <<[Slash EXCEPT !.evidenceAge = Minute - 1], Stake, Ibc, Oracle>>,
               <<Slash, [Stake EXCEPT !.maxValidators = 501], Ibc, Oracle>>,
               <<Slash, Stake, [Ibc EXCEPT !.fee = 0], Oracle>>,
               <<Slash, Stake, Ibc, [Oracle EXCEPT !.needed = <<>>]>>}

Hex(len) == [hex |-> TRUE, len |-> len]

Swap(args) == args @@ [recipientOther |-> 0, senderOther |-> 0, income |-> 64, hash |-> 32, coins |-> One,
                       heightSpan |-> 360, crossChain |-> FALSE, to |-> B]

Swaps == {Swap(<<>>), Swap([crossChain |-> TRUE]), Swap([crossChain |-> TRUE, recipientOther |-> 64]),
          Swap([senderOther |-> 1]), Swap([heightSpan |-> 359]), Swap([hash |-> 31]), Swap([to |-> Short])}

Proposal(args) == args @@ [title |-> 128, description |-> 2048, coins |-> One, votingPeriod |-> MaxVotingPeriod]

-----------------------------------------------------------------------------
(* The calls: op and arguments.                                            *)

Op(op, argSet) == {[op |-> op, args |-> a] : a \in argSet}

\* Methods that both clients have.
Common ==
    UNION {
      Op("SendToken", {[transfers |-> ts] : ts \in Transfers}),
      Op("CreateOrder", {[side |-> s, price |-> p, quantity |-> 1] @@ pair :
                            s \in {1, 3}, p \in {0, 1}, pair \in Pairs}),
      Op("CancelOrder", {[refId |-> id] @@ pair : id \in {NoID, OrderID(A, 1)}, pair \in Pairs}),
      Op("HTLT", Swaps),
      Op("DepositHTLT", {[swapID |-> s, coins |-> c] : s \in {0, 32}, c \in {One, <<>>}}),
      Op("ClaimHTLT", {[swapID |-> 32, random |-> r] : r \in {31, 32}}),
      Op("RefundHTLT", {[swapID |-> s] : s \in {0, 32}}),
      Op("TransferTokenOwnership", {[symbol |-> s, newOwner |-> o] : s \in Symbols, o \in {B, Short}})}

OfRpc ==
    UNION {
      Op("SideChainVote", {[proposalID |-> 0, option |-> o, sideChainId |-> s] : o \in {0, 4}, s \in {0, 20}}),
      Op("SideChainDeposit", {[proposalID |-> p, coins |-> c, sideChainId |-> 3] : p \in {-1, 1}, c \in Deposits}),
      Op("SideChainSubmitProposal", {Proposal([proposalType |-> p, sideChainId |-> 0]) : p \in {1, 129}}),
      Op("SideChainSubmitSCParamsProposal", {Proposal([sideChainId |-> 3, scParams |-> ps]) : ps \in ParamLists}),
      Op("SideChainSubmitCSCParamsProposal",
         {Proposal([sideChainId |-> 3, cscParam |-> [target |-> Hex(t), value |-> v, key |-> 1]]) :
              t \in {19, 20}, v \in {Hex(1), Hex(256), [hex |-> FALSE, len |-> 1]}}),
      Op("SubmitProposal", {Proposal([proposalType |-> p, coins |-> c]) : p \in {0, 1}, c \in Deposits}),
      Op("SubmitListProposal", {Proposal([proposalType |-> 4, votingPeriod |-> v]) : v \in {0, MaxVotingPeriod}}),
      Op("Deposit", {[proposalID |-> 1, coins |-> c] : c \in Deposits}),
      Op("Vote", {[proposalID |-> 1, option |-> o] : o \in {0, 1}}),
      Op("TransferOut", {[scAddr |-> s, amount |-> 1, expireTime |-> 1] : s \in {0, 1}}),
      Op("Bind", {[symbol |-> s, amount |-> 1, scAddr |-> 1, decimals |-> d, expireTime |-> 1] :
                      s \in {NoSymbol, Token}, d \in {-1, 0}}),
      Op("Unbind", {[symbol |-> s] : s \in {NoSymbol, Token}}),
      Op("Claim", {[payload |-> p] : p \in {32, 33}}),
      Op("CreateSideChainValidator", ValidatorArgs),
      Op("EditSideChainValidator", {[desc |-> Desc(1), rate |-> r, sideChainId |-> 3, feeAddr |-> 20] :
                                        r \in {<<>>, <<10>>, <<11>>}}),
      Op("SideChainDelegate", {[validator |-> v, amount |-> n, sideChainId |-> 3] :
                                   v \in {B, Short}, n \in {MinDelegationAmount - 1, MinDelegationAmount}}),
      Op("SideChainRedelegate", {[src |-> B, dst |-> d, amount |-> MinDelegationAmount, sideChainId |-> 3] :
                                     d \in {B, C}}),
      Op("SideChainUnbond", {[validator |-> B, amount |-> n, sideChainId |-> 3] : n \in {0, 1}}),
      Op("SideChainUnjail", {[validator |-> v, sideChainId |-> 3] : v \in {A, C, NilAddr}}),
      Op("Broadcast", {[m |-> m] : m \in Sends}),
      Op("Broadcast", {[m |-> [t |-> "TinyTokenIssueMsg", from |-> A, symbol |-> s, name |-> 1, uri |-> 0]] :
                           s \in NewSymbols}),
      Op("Broadcast", {[m |-> [t |-> "MsgRemoveValidator", from |-> A, validator |-> B, consensus |-> C,
                               proposalID |-> p]] : p \in {0, 1}}),
      Op("Broadcast", {[m |-> [t |-> "MsgCreateValidator", from |-> A, validator |-> A, desc |-> Desc(1),
                               commission |-> Commission(1, 5), amount |-> n]] : n \in {0, 1}})}

OfGateway ==
    UNION {
      Op("IssueToken", {[symbol |-> s, name |-> n, supply |-> MaxTotalSupply] : s \in NewSymbols, n \in {0, 32}}),
      Op("IssueMiniToken", {[symbol |-> s, name |-> 1, uri |-> u] : s \in NewSymbols, u \in {2048, 2049}}),
      Op("IssueTinyToken", {[symbol |-> s, name |-> 1, uri |-> 0] : s \in NewSymbols}),
      UNION {Op(op, {[symbol |-> s, amount |-> n] : s \in Symbols, n \in {0, 1}}) :
                 op \in {"BurnToken", "FreezeToken", "UnfreezeToken"}},
      Op("MintToken", {[symbol |-> s, amount |-> 1] : s \in {NoSymbol, Token}}),
      Op("SetURI", {[symbol |-> s, uri |-> 1] : s \in Symbols}),
      UNION {Op(op, {[base |-> b, quote |-> BNB, initPrice |-> 1] : b \in Symbols}) :
                 op \in {"ListPair", "ListMiniPair"}},
      Op("SetAccountFlags", {[flags |-> 1]}),
      Op("VoteProposal", {[proposalID |-> 1, option |-> o] : o \in {1, 5}}),
      Op("DepositProposal", {[proposalID |-> 1, amount |-> n] : n \in {-1, 0, 1}}),
      Op("SubmitProposal", {Proposal([proposalType |-> 1, amount |-> n]) : n \in {-1, 1}}),
      Op("SubmitListPairProposal", {Proposal([amount |-> 1])}),
      Op("TimeLock", {[description |-> d, lockTime |-> 1, coins |-> c] : d \in {0, 128}, c \in {One, <<Coin(1, 0)>>}}),
      Op("TimeUnLock", {[recordId |-> r] : r \in {0, 1}}),
      Op("TimeReLock", {[recordId |-> 1, description |-> 0, lockTime |-> l, coins |-> c] :
                            l \in {0, 1}, c \in {<<>>, <<Coin(1, 0)>>}})}

Defaults == [num |-> -1, seq |-> -1, chainId |-> "", size |-> 200]

With(c, ops, mode, opts) == {[c |-> c, mode |-> mode, opts |-> opts] @@ o : o \in ops}

\* The methods on which modes and options are tried, and calls repeated.
Sending  == Op("SendToken", {[transfers |-> <<To(B, <<Coin(2, 3), Coin(1, 2)>>)>>]})
Ordering == Op("CreateOrder", {[side |-> 1, price |-> 1, quantity |-> 1, base |-> Token, quote |-> BNB]})

MCRepeated == UNION {
      With("gateway", Sending, "gateway", Defaults),
      With("rpc", Ordering, "sync", Defaults),
      UNION {With("rpc", Sending, mode, Defaults) : mode \in {"async", "commit"}}}

MCCalls == UNION {
      MCRepeated,
      With("rpc", Common \cup OfRpc, "sync", Defaults),
      With("gateway", Common \cup OfGateway, "gatewaySync", Defaults),
      With("gateway", Ordering, "gateway", Defaults),
      UNION {With("rpc", Ordering, mode, Defaults) : mode \in {"async", "commit", "unknown"}},
      UNION {With("rpc", Sending \cup Ordering, "sync", opts) :
               opts \in {[Defaults EXCEPT !.num = 1, !.seq = 0], [Defaults EXCEPT !.num = 1],
                         [Defaults EXCEPT !.chainId = "other"], [Defaults EXCEPT !.size = 1024 * 1024 + 1]}}}

-----------------------------------------------------------------------------
(* The queries, and what the node may answer.                              *)

Page(offset, limit) == [offset |-> offset, limit |-> limit]
Pages == {Page(-1, 1), Page(0, -1), Page(0, 0)}
Heights == {[height |-> <<>>], [height |-> <<-1>>], [height |-> <<0>>]}

SymbolQueries == {[symbol |-> s] : s \in {NoSymbol, BNB, Token, Mini, Symbol(9, TRUE, TRUE, <<Part(3, TRUE, FALSE)>>)}}
PairArgs == {<<Token, BNB>>, <<Token>>, <<NoSymbol, BNB>>}
Parties  == {A, B, Short, Long}
NoArgs   == {[any |-> 0]}

RpcOps ==
    UNION {
      Op("ABCIQueryWithOptions", {[path |-> p, data |-> 1] : p \in {1024, 1025}}),
      Op("UnconfirmedTxs", {[limit |-> n] : n \in {-1, 0, 100, 101}}),
      Op("BlockchainInfo", {[minHeight |-> a, maxHeight |-> b] : a, b \in {-1, 0, 1}}),
      UNION {Op(op, Heights) : op \in {"Block", "BlockResults", "Commit", "Validators"}},
      Op("Tx", {[hash |-> h] : h \in {20, 32}}),
      UNION {Op(op, {[query |-> q] : q \in {1024, 1025}}) : op \in {"TxSearch", "TxInfoSearch"}},
      UNION {Op(op, Pages) : op \in {"ListAllTokens", "ListAllMiniTokens", "GetTradingPairs", "GetMiniTradingPairs"}},
      UNION {Op(op, SymbolQueries) : op \in {"GetTokenInfo", "GetMiniTokenInfo"}},
      Op("GetOpenOrders", {[pair |-> p] : p \in PairArgs}),
      Op("GetDepth", {[pair |-> p, level |-> l] : p \in PairArgs, l \in {0, 1001}}),
      UNION {Op(op, {[bech32 |-> b] : b \in BOOLEAN}) : op \in {"GetSwapByCreator", "GetSwapByRecipient"}},
      UNION {Op(op, NoArgs) : op \in {"GetFee", "GetTimelocks", "GetTimelock", "GetProposals",
               "GetSideChainProposals", "GetProposal", "GetSideChainProposal", "GetSideChainParams",
               "GetSwapByID", "GetProphecy", "GetCurrentOracleSequence", "GetCommitAccount", "GetAccount",
               "GetBalances", "QuerySideChainValidator", "QuerySideChainRedelegations",
               "QuerySideChainUnbondingDelegations", "QuerySideChainDelegation", "QuerySideChainDelegations",
               "GetSideChainUnBondingDelegationsByValidator", "GetSideChainRedelegationsByValidator",
               "GetSideChainPool", "GetSideChainAllValidatorsCount", "GetStakeValidators",
               "GetDelegatorUnbondingDelegations"}},
      Op("GetBalance", {[denom |-> d] @@ s : d \in 1 .. 5, s \in SymbolQueries}),
      Op("QuerySideChainTopValidators", {[top |-> n] : n \in {0, 1, 50, 51}}),
      Op("QuerySideChainRedelegation", {[del |-> x, src |-> y, dst |-> z] : x, y, z \in {A, B, Short, Long}}),
      Op("QuerySideChainUnbondingDelegation", {[del |-> x, val |-> y] : x, y \in Parties})}

Options(S) == {<<>>} \cup {<<n>> : n \in S}

Page_ == [address : {0, 42}, side : {"BUY", "", "buy"}, limitOpt : Options({0, 1}),
          start : Options({0, 1, 2}), end : Options({1})]

GatewayOps ==
    UNION {
      UNION {Op(op, Page_) : op \in {"GetClosedOrders", "GetMiniClosedOrders", "GetTrades", "GetMiniTrades"}},
      UNION {Op(op, [address : {0, 42}, limitOpt : Options({0, 1})]) : op \in {"GetOpenOrders", "GetMiniOpenOrders"}},
      UNION {Op(op, [limitOpt : Options({0, 1}), symbols : {0, 1}]) :
                 op \in {"GetDepth", "GetMarkets", "GetMiniMarkets"}},
      UNION {Op(op, [order : {0, 1}]) : op \in {"GetOrder", "GetMiniOrder"}},
      UNION {Op(op, [symbols : {0, 1}, interval : {0, 1}, limitOpt : Options({0}), start : Options({2}),
                     end : Options({1, 2})]) : op \in {"GetKlines", "GetMiniKlines"}},
      Op("GetAccount", [address : {0, 42}]),
      UNION {Op(op, NoArgs) : op \in {"GetTokens", "GetMiniTokens", "GetTicker24h", "GetMiniTicker24h",
                                      "GetTime", "GetNodeInfo"}}}

MCQueries == {[c |-> "rpc"] @@ q : q \in RpcOps} \cup {[c |-> "gateway"] @@ q : q \in GatewayOps}

\* Balances of every set of denominations, sorted as the chain keeps them.
Holding(denoms) == Sort(SetToSeq({Coin(d, d) : d \in denoms}))

Holdings == {[free |-> Holding(F), locked |-> Holding(L), frozen |-> <<>>] :
                F \in SUBSET (1 .. 4), L \in {{}, {2}, {1, 3}}}

Prefix == <<<<"prefix", 1>>, <<"prefix", 2>>>>
Stored(k) == [key |-> Prefix \o k, value |-> 1]

Data(x, n) ==
    CASE x.op \in {"GetBalance", "QuerySideChainRedelegation", "QuerySideChainUnbondingDelegation",
                   "QuerySideChainValidator", "GetSideChainPool"} /\ n = 1 -> {Prefix}
      [] x.op \in {"QuerySideChainRedelegations", "QuerySideChainUnbondingDelegations"} /\ n = 1 -> {Prefix}
      [] x.op \in {"GetBalance", "GetBalances"} -> Holdings
      [] x.op = "QuerySideChainRedelegations" ->
           {<<>>, <<Stored(getREDKey(A, B, C)), Stored(getREDKey(B, A, C))>>, <<Stored(getUBDKey(A, B))>>}
      [] x.op = "QuerySideChainUnbondingDelegations" -> {<<>>, <<Stored(getUBDKey(A, B))>>, <<Stored(<<>>)>>}
      [] x.op \in {"GetKlines", "GetMiniKlines"} -> {<<>>, <<9, 8>>, <<9, 10>>}
      [] OTHER -> {1}

\* Only the v of data is looked at.
MCReplies(x, n) ==
    {[k |-> k, v |-> CHOOSE v \in Data(x, n) : TRUE] :
         k \in {"lost", "refused", "notfound", "nil", "empty", "garbage"}}
      \cup {[k |-> "data", v |-> v] : v \in Data(x, n)}
=============================================================================
