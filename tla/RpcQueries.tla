----------------------------- MODULE RpcQueries -----------------------------
(***************************************************************************)
(* The queries of client/rpc (dex_client.go, staking_client.go,            *)
(* basic_client.go, ops_client.go) and the checks of validate.go.          *)
(*                                                                         *)
(* A query is a function of the replies it has got so far: it asks (once   *)
(* more), or ends with an error, with nothing, with a value, or in a       *)
(* panic.  A reply (external) is [k, v]: lost, refused (a response code    *)
(* that is not OK), notfound (the code of the time-lock module), nil or    *)
(* empty (OK with no bytes), garbage (bytes that do not decode) or data.   *)
(***************************************************************************)
EXTENDS Messages

Ask    == [r |-> "ask"]
Err    == [r |-> "err"]
None   == [r |-> "none"]
Panic  == [r |-> "panic"]
Val(v) == [r |-> "val", v |-> v]

\* Mutant: a response that came is taken for an answer, whatever its code.
IsOKAlways(reply) == reply.k # "lost"

\* IsOK of a response that came.
IsOK(reply) == reply.k \in {"nil", "empty", "garbage", "data"}

\* len(value) = 0, and value == nil.
noBytes(reply) == reply.k \in {"nil", "empty", "refused", "notfound"}
isNil(reply)   == reply.k = "nil"

\* amino and JSON refuse no bytes at all (external).
decode(reply) == IF reply.k = "data" THEN Val(reply.v) ELSE Err

decodeIfOK(reply) == IF IsOK(reply) THEN decode(reply) ELSE Err

\* One request, then answer; two requests, the first of which must pass.
OneRequest(check, answer(_), rs) ==
    IF ~check THEN Err ELSE IF rs = <<>> THEN Ask ELSE answer(rs[1])

TwoRequests(check, first(_), answer(_), rs) ==
    IF ~check THEN Err
    ELSE CASE rs = <<>>   -> Ask
           [] Len(rs) = 1 -> IF first(rs[1]) THEN Ask ELSE Err
           [] Len(rs) = 2 -> answer(rs[2])

-----------------------------------------------------------------------------
(* validate.go                                                             *)

ValidateUnConfirmedTxsLimit(limit) == limit \in 0 .. 100
ValidateHeightRange(from, to)      == from >= 0 /\ to >= 0 /\ from <= to
ValidateHeight(height)             == height # <<>> => height[1] >= 0
ValidateHash(hash)                 == hash = 32
ValidateABCIQueryStr(query)        == query <= 1024
ValidateTxSearchQueryStr(query)    == query <= 1024
ValidateABCIPath(path)             == path <= 1024
ValidateABCIData(data)             == data <= 1024 * 1024
ValidateTx(size)                   == size <= 1024 * 1024
ValidateOffset(offset)             == offset >= 0
ValidateLimit(limit)               == limit >= 0
ValidateLength(symbol)             == SymbolLen(symbol) \in 3 .. 14
ValidatePair(pair)                 == Len(pair) = 2 /\ ValidateLength(pair[1]) /\ ValidateLength(pair[2])
ValidateDepthLevel(level)          == level \in 0 .. 1000

-----------------------------------------------------------------------------
(* basic_client.go: the calls that pass on what the node answers, and the  *)
(* three forms of a store query.                                           *)

passOn(reply) == IF reply.k = "lost" THEN Err ELSE Val(reply.k)

ABCIQueryWithOptions(a, rs) == OneRequest(ValidateABCIPath(a.path) /\ ValidateABCIData(a.data), passOn, rs)
UnconfirmedTxs(a, rs) == OneRequest(ValidateUnConfirmedTxsLimit(a.limit), passOn, rs)
BlockchainInfo(a, rs) == OneRequest(ValidateHeightRange(a.minHeight, a.maxHeight), passOn, rs)
Block(a, rs)          == OneRequest(ValidateHeight(a.height), passOn, rs)
BlockResults(a, rs)   == OneRequest(ValidateHeight(a.height), passOn, rs)
Commit(a, rs)         == OneRequest(ValidateHeight(a.height), passOn, rs)
Validators(a, rs)     == OneRequest(ValidateHeight(a.height), passOn, rs)
Tx(a, rs)             == OneRequest(ValidateHash(a.hash), passOn, rs)
TxSearch(a, rs)       == OneRequest(ValidateABCIQueryStr(a.query), passOn, rs)
TxInfoSearch(a, rs)   == OneRequest(ValidateTxSearchQueryStr(a.query), passOn, rs)

\* The queries that pass on what the node said.
PassedOn == {"ABCIQueryWithOptions", "UnconfirmedTxs", "BlockchainInfo", "Block", "BlockResults",
             "Commit", "Validators", "Tx", "TxSearch", "TxInfoSearch"}

\* QueryWithData and QueryStore return the bytes of an OK response.
QueryWithData(reply) == IF IsOK(reply) THEN reply ELSE [k |-> "lost"]
QueryStore(reply)    == IF IsOK(reply) THEN reply ELSE [k |-> "lost"]

QueryStoreSubspace(reply) == IF ~IsOK(reply) \/ noBytes(reply) THEN Err ELSE decode(reply)

-----------------------------------------------------------------------------
(* dex_client.go                                                           *)

page(a) == ValidateOffset(a.offset) /\ ValidateLimit(a.limit)

ListAllTokens(a, rs)     == OneRequest(page(a), decodeIfOK, rs)
ListAllMiniTokens(a, rs) == OneRequest(page(a), decodeIfOK, rs)
GetTokenInfo(a, rs)      == OneRequest(ValidateLength(a.symbol), decodeIfOK, rs)
GetMiniTokenInfo(a, rs)  == OneRequest(ValidateLength(a.symbol), decodeIfOK, rs)
GetFee(a, rs)            == OneRequest(TRUE, decodeIfOK, rs)

\* An OK response without a value is an empty list.
listOrNone(reply) == IF IsOK(reply) /\ isNil(reply) THEN None ELSE decodeIfOK(reply)

GetOpenOrders(a, rs)       == OneRequest(ValidatePair(a.pair), listOrNone, rs)
GetTradingPairs(a, rs)     == OneRequest(page(a), listOrNone, rs)
GetMiniTradingPairs(a, rs) == OneRequest(page(a), listOrNone, rs)

GetDepth(a, rs) == OneRequest(ValidatePair(a.pair) /\ ValidateDepthLevel(a.level), decodeIfOK, rs)

GetTimelocks(a, rs) == OneRequest(TRUE, decodeIfOK, rs)

\* The code for "no such record" is an answer; any other code is not looked at.
timelockRecord(reply) == IF reply.k = "notfound" THEN None ELSE decode(reply)

GetTimelock(a, rs) == OneRequest(TRUE, timelockRecord, rs)

getProposals(a, rs) == OneRequest(TRUE, decodeIfOK, rs)
getProposal(a, rs)  == OneRequest(TRUE, decodeIfOK, rs)

GetSideChainParams(a, rs) == OneRequest(TRUE, decodeIfOK, rs)

swapRecords(reply) == IF ~IsOK(reply) \/ noBytes(reply) THEN Err ELSE decode(reply)

GetSwapByID(a, rs)        == OneRequest(TRUE, swapRecords, rs)
GetSwapByCreator(a, rs)   == OneRequest(a.bech32, swapRecords, rs)
GetSwapByRecipient(a, rs) == OneRequest(a.bech32, swapRecords, rs)

prophecyOf(reply) ==
    LET bz == QueryStore(reply) IN IF isNil(bz) THEN None ELSE decode(bz)

GetProphecy(a, rs) == OneRequest(TRUE, prophecyOf, rs)

\* binary.BigEndian.Uint64 takes eight bytes and panics on fewer.
sequenceOf(reply) ==
    LET bz == QueryStore(reply) IN
    CASE bz.k = "lost"    -> Err
      [] isNil(bz)        -> None
      [] bz.k = "empty"   -> Panic
      [] bz.k = "garbage" -> Val("other bytes")
      [] OTHER           -> Val(bz.v)

GetCurrentOracleSequence(a, rs) == OneRequest(TRUE, sequenceOf, rs)

(* Accounts.  An account is [free, locked, frozen], three Coins, which the *)
(* chain (external) keeps sorted.                                          *)

IsAccount(acc) == \A coins \in {acc.free, acc.locked, acc.frozen} : coins \in Purse /\ Sorted(coins)

commitAccount(reply) ==
    LET bz == QueryStore(reply) IN IF isNil(bz) THEN None ELSE decode(bz)

GetCommitAccount(a, rs) == OneRequest(TRUE, commitAccount, rs)

account(reply) == IF IsOK(reply) /\ noBytes(reply) THEN None ELSE decodeIfOK(reply)

GetAccount(a, rs) == OneRequest(TRUE, account, rs)

TokenBalance(acc, denom) ==
    [denom |-> denom, free |-> AmountOf(acc.free, denom),
     locked |-> AmountOf(acc.locked, denom), frozen |-> AmountOf(acc.frozen, denom)]

balances(reply) ==
    LET acc == account(reply) IN
    IF acc.r # "val" THEN acc
    ELSE Val([i \in DOMAIN acc.v.free |-> TokenBalance(acc.v, acc.v.free[i].denom)])

GetBalances(a, rs) == OneRequest(TRUE, balances, rs)

\* The token is looked up first; whatever goes wrong there, it does not exist.
existsCC(reply) == reply.k = "data"

balance(reply, denom) ==
    LET acc == account(reply) IN
    CASE acc.r = "err"  -> Err
      [] acc.r = "none" -> Val(TokenBalance([free |-> <<>>, locked |-> <<>>, frozen |-> <<>>], denom))
      [] acc.r = "val"  -> Val(TokenBalance(acc.v, denom))

GetBalance(a, rs) ==
    TwoRequests(ValidateLength(a.symbol), existsCC, LAMBDA reply : balance(reply, a.denom), rs)

-----------------------------------------------------------------------------
(* staking_client.go and ops_client.go.  A byte is <<owner, position>>.    *)

BytesOf(a) == [i \in 1 .. a.len |-> <<a.id, i>>]
Pad        == <<"", 0>>

\* copy into a field of the key: cut to the field, or padded with zeros.
copyInto(bytes, n) == [i \in 1 .. n |-> IF i <= Len(bytes) THEN bytes[i] ELSE Pad]

\* Mutant: the destination starts one byte early, over the source.
getREDKeyOverlap(del, src, dst) ==
    <<<<"red", 1>>>> \o copyInto(BytesOf(del), AddrLen)
        \o copyInto(BytesOf(src), AddrLen - 1) \o copyInto(BytesOf(dst), AddrLen) \o <<Pad>>

getREDKey(del, src, dst) ==
    <<<<"red", 1>>>> \o copyInto(BytesOf(del), AddrLen)
        \o copyInto(BytesOf(src), AddrLen) \o copyInto(BytesOf(dst), AddrLen)

getUBDKey(del, val) == <<<<"ubd", 1>>>> \o BytesOf(del) \o BytesOf(val)

\* UnmarshalRED and unmarshalUBD: the addresses are cut out of the key.
UnmarshalRED(key, value) ==
    IF Len(key) # 1 + 3 * AddrLen THEN Err
    ELSE Val([del |-> SubSeq(key, 2, 1 + AddrLen),
              src |-> SubSeq(key, 2 + AddrLen, 1 + 2 * AddrLen),
              dst |-> SubSeq(key, 2 + 2 * AddrLen, 1 + 3 * AddrLen), value |-> value])

unmarshalUBD(key, value) ==
    IF Len(key) # 1 + 2 * AddrLen THEN Err
    ELSE Val([del |-> SubSeq(key, 2, 1 + AddrLen),
              val |-> SubSeq(key, 2 + AddrLen, 1 + 2 * AddrLen), value |-> value])

\* getSideChainStorePrefixKey: the node knows the side chain.
getSideChainStorePrefixKey(reply) == IsOK(reply) /\ ~noBytes(reply)

\* A record of the store: no bytes is an error.
record(reply, unmarshal(_)) ==
    LET bz == QueryStore(reply) IN
    IF noBytes(bz) THEN Err
    ELSE LET value == decode(bz) IN IF value.r = "val" THEN unmarshal(value.v) ELSE value

QuerySideChainValidator(a, rs) ==
    TwoRequests(TRUE, getSideChainStorePrefixKey, LAMBDA r : record(r, Val), rs)

QuerySideChainRedelegation(a, rs) ==
    LET unmarshal(v) == UnmarshalRED(getREDKey(a.del, a.src, a.dst), v)
    IN  TwoRequests(TRUE, getSideChainStorePrefixKey, LAMBDA r : record(r, unmarshal), rs)

QuerySideChainUnbondingDelegation(a, rs) ==
    LET unmarshal(v) == unmarshalUBD(getUBDKey(a.del, a.val), v)
    IN  TwoRequests(TRUE, getSideChainStorePrefixKey, LAMBDA r : record(r, unmarshal), rs)

(* A subspace is a sequence of [key, value], the key behind the prefix the *)
(* first request returned; kept is what the decoder makes of each of them. *)
records(kvs, kept) ==
    IF kvs.r # "val" THEN kvs
    ELSE IF kvs.v = <<>> THEN None
    ELSE IF \E i \in DOMAIN kept : kept[i].r = "err" THEN Err
    ELSE Val([i \in DOMAIN kept |-> kept[i].v])

behind(prefix, key) == SubSeq(key, Len(prefix) + 1, Len(key))

redelegations(reply, prefix) ==
    LET kvs == QueryStoreSubspace(reply)
    IN  records(kvs, [i \in DOMAIN kvs.v |-> UnmarshalRED(behind(prefix, kvs.v[i].key), kvs.v[i].value)])

unbondingDelegations(reply, prefix) ==
    LET kvs == QueryStoreSubspace(reply)
    IN  records(kvs, [i \in DOMAIN kvs.v |-> unmarshalUBD(behind(prefix, kvs.v[i].key), kvs.v[i].value)])

QuerySideChainRedelegations(a, rs) ==
    TwoRequests(TRUE, getSideChainStorePrefixKey, LAMBDA r : redelegations(r, rs[1].v), rs)

QuerySideChainUnbondingDelegations(a, rs) ==
    TwoRequests(TRUE, getSideChainStorePrefixKey, LAMBDA r : unbondingDelegations(r, rs[1].v), rs)

\* QueryWithData, where no bytes are an empty list or an error.
listOf(reply)  == LET bz == QueryWithData(reply) IN IF bz.k \in {"nil", "empty"} THEN None ELSE decode(bz)
foundIn(reply) == LET bz == QueryWithData(reply) IN IF noBytes(bz) THEN Err ELSE decode(bz)

QuerySideChainTopValidators(a, rs)                 == OneRequest(a.top \in 1 .. 50, listOf, rs)
QuerySideChainDelegation(a, rs)                    == OneRequest(TRUE, foundIn, rs)
QuerySideChainDelegations(a, rs)                   == OneRequest(TRUE, foundIn, rs)
GetSideChainUnBondingDelegationsByValidator(a, rs) == OneRequest(TRUE, listOf, rs)
GetSideChainRedelegationsByValidator(a, rs)        == OneRequest(TRUE, listOf, rs)

\* The error of the second request is not looked at: it is a pool of zeros.
poolOf(reply) ==
    LET bz == QueryStore(reply) IN IF noBytes(bz) \/ bz.k = "lost" THEN None ELSE decode(bz)

GetSideChainPool(a, rs) == TwoRequests(TRUE, getSideChainStorePrefixKey, poolOf, rs)

GetSideChainAllValidatorsCount(a, rs) == OneRequest(TRUE, decodeIfOK, rs)

GetStakeValidators(a, rs)               == OneRequest(TRUE, decode, rs)
GetDelegatorUnbondingDelegations(a, rs) == OneRequest(TRUE, decode, rs)

-----------------------------------------------------------------------------
QueryMethods ==
    {"ABCIQueryWithOptions", "UnconfirmedTxs", "BlockchainInfo", "Block", "BlockResults", "Commit",
     "Validators", "Tx", "TxSearch", "TxInfoSearch", "ListAllTokens", "ListAllMiniTokens",
     "GetTokenInfo", "GetMiniTokenInfo", "GetFee", "GetOpenOrders", "GetTradingPairs",
     "GetMiniTradingPairs", "GetDepth", "GetTimelocks", "GetTimelock", "GetProposals",
     "GetSideChainProposals", "GetProposal", "GetSideChainProposal", "GetSideChainParams",
     "GetSwapByID", "GetSwapByCreator", "GetSwapByRecipient", "GetProphecy",
     "GetCurrentOracleSequence", "GetCommitAccount", "GetAccount", "GetBalances", "GetBalance",
     "QuerySideChainValidator", "QuerySideChainRedelegation", "QuerySideChainUnbondingDelegation",
     "QuerySideChainRedelegations", "QuerySideChainUnbondingDelegations",
     "QuerySideChainTopValidators", "QuerySideChainDelegation", "QuerySideChainDelegations",
     "GetSideChainUnBondingDelegationsByValidator", "GetSideChainRedelegationsByValidator",
     "GetSideChainPool", "GetSideChainAllValidatorsCount", "GetStakeValidators",
     "GetDelegatorUnbondingDelegations"}

RpcQuery(op, a, rs) ==
    CASE op = "ABCIQueryWithOptions" -> ABCIQueryWithOptions(a, rs)
      [] op = "UnconfirmedTxs" -> UnconfirmedTxs(a, rs)
      [] op = "BlockchainInfo" -> BlockchainInfo(a, rs)
      [] op = "Block" -> Block(a, rs)
      [] op = "BlockResults" -> BlockResults(a, rs)
      [] op = "Commit" -> Commit(a, rs)
      [] op = "Validators" -> Validators(a, rs)
      [] op = "Tx" -> Tx(a, rs)
      [] op = "TxSearch" -> TxSearch(a, rs)
      [] op = "TxInfoSearch" -> TxInfoSearch(a, rs)
      [] op = "ListAllTokens" -> ListAllTokens(a, rs)
      [] op = "ListAllMiniTokens" -> ListAllMiniTokens(a, rs)
      [] op = "GetTokenInfo" -> GetTokenInfo(a, rs)
      [] op = "GetMiniTokenInfo" -> GetMiniTokenInfo(a, rs)
      [] op = "GetFee" -> GetFee(a, rs)
      [] op = "GetOpenOrders" -> GetOpenOrders(a, rs)
      [] op = "GetTradingPairs" -> GetTradingPairs(a, rs)
      [] op = "GetMiniTradingPairs" -> GetMiniTradingPairs(a, rs)
      [] op = "GetDepth" -> GetDepth(a, rs)
      [] op = "GetTimelocks" -> GetTimelocks(a, rs)
      [] op = "GetTimelock" -> GetTimelock(a, rs)
      [] op \in {"GetProposals", "GetSideChainProposals"} -> getProposals(a, rs)
      [] op \in {"GetProposal", "GetSideChainProposal"} -> getProposal(a, rs)
      [] op = "GetSideChainParams" -> GetSideChainParams(a, rs)
      [] op = "GetSwapByID" -> GetSwapByID(a, rs)
      [] op = "GetSwapByCreator" -> GetSwapByCreator(a, rs)
      [] op = "GetSwapByRecipient" -> GetSwapByRecipient(a, rs)
      [] op = "GetProphecy" -> GetProphecy(a, rs)
      [] op = "GetCurrentOracleSequence" -> GetCurrentOracleSequence(a, rs)
      [] op = "GetCommitAccount" -> GetCommitAccount(a, rs)
      [] op = "GetAccount" -> GetAccount(a, rs)
      [] op = "GetBalances" -> GetBalances(a, rs)
      [] op = "GetBalance" -> GetBalance(a, rs)
      [] op = "QuerySideChainValidator" -> QuerySideChainValidator(a, rs)
      [] op = "QuerySideChainRedelegation" -> QuerySideChainRedelegation(a, rs)
      [] op = "QuerySideChainUnbondingDelegation" -> QuerySideChainUnbondingDelegation(a, rs)
      [] op = "QuerySideChainRedelegations" -> QuerySideChainRedelegations(a, rs)
      [] op = "QuerySideChainUnbondingDelegations" -> QuerySideChainUnbondingDelegations(a, rs)
      [] op = "QuerySideChainTopValidators" -> QuerySideChainTopValidators(a, rs)
      [] op = "QuerySideChainDelegation" -> QuerySideChainDelegation(a, rs)
      [] op = "QuerySideChainDelegations" -> QuerySideChainDelegations(a, rs)
      [] op = "GetSideChainUnBondingDelegationsByValidator" -> GetSideChainUnBondingDelegationsByValidator(a, rs)
      [] op = "GetSideChainRedelegationsByValidator" -> GetSideChainRedelegationsByValidator(a, rs)
      [] op = "GetSideChainPool" -> GetSideChainPool(a, rs)
      [] op = "GetSideChainAllValidatorsCount" -> GetSideChainAllValidatorsCount(a, rs)
      [] op = "GetStakeValidators" -> GetStakeValidators(a, rs)
      [] op = "GetDelegatorUnbondingDelegations" -> GetDelegatorUnbondingDelegations(a, rs)

=============================================================================
