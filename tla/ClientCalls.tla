----------------------------- MODULE ClientCalls -----------------------------
(***************************************************************************)
(* A program that uses the rpc client (client/rpc) and the gateway client  *)
(* (client/transaction, client/query) for one chain: it makes one call     *)
(* after another, while other goroutines exchange the key of the rpc       *)
(* client and create further clients.                                      *)
(*                                                                         *)
(* A transaction of the rpc client reads c.key at each of its steps; both  *)
(* clients read the global types.Network, for the chain id and for every   *)
(* address they write as text.  Requests may be lost, and so may answers.  *)
(* The chain (external) has the state that checked transactions have led   *)
(* to and the committed one, which a block brings up to it; it takes a     *)
(* transaction only from the signers of its message, with the account's    *)
(* next sequence, the id of the chain and addresses in its own form.       *)
(***************************************************************************)
EXTENDS RpcCalls, GatewayCalls

CONSTANTS
    Keys,               \* addresses of the keys given to SetKeyManager
    GatewayKey,         \* the key of the gateway client
    Accounts,           \* addresses with an account on the chain
    Networks,           \* networks that clients are created for
    HomeNetwork,        \* the network of this program's clients
    Calls, Queries,     \* the calls made: [c, op, args] with mode and opts for the first
    Repeated,           \* bound: the calls that are also made after others
    Replies(_, _),      \* the replies of the node to the n-th request of a query
    MaxTxs              \* bound: transactions sent

\* The messages whose field symbol names a token, and the methods that send them.
Named   == {"TokenIssueMsg", "MiniTokenIssueMsg", "TokenBurnMsg", "TokenFreezeMsg", "TokenUnfreezeMsg",
            "SetURIMsg", "TransferOwnershipMsg"}
NamedBy == {"IssueToken", "IssueMiniToken", "IssueTinyToken", "BurnToken", "FreezeToken", "UnfreezeToken",
            "SetURI", "TransferTokenOwnership"}

ASSUME ClientAssumption ==
    /\ \A x \in Calls :
         \/ /\ x.c = "rpc" /\ x.op \in RpcMethods \cup {"Broadcast"}
            /\ x.mode \in {"async", "sync", "commit", "unknown"}
         \/ x.c = "gateway" /\ x.op \in GatewayMethods /\ x.mode \in {"gateway", "gatewaySync"}
    /\ \A x \in Calls :       \* the message is a value of one of the types of types/msg
         x.op = "Broadcast" =>
           /\ x.args.m # Refused
           /\ x.args.m.t = "CreateOrderMsg" => {"t", "from", "orderId"} \subseteq DOMAIN x.args.m
           /\ x.args.m.t = "SendMsg" => x.args.m.inputs \in Payments /\ x.args.m.outputs \in Payments
           /\ x.args.m.t \in Named => IsSymbol(x.args.m.symbol)
    /\ \A x \in Calls :       \* and so are the other arguments
         /\ x.op = "SendToken" => x.args.transfers \in Seq([to : Address, coins : Purse])
         /\ x.op \in NamedBy => "symbol" \in DOMAIN x.args /\ IsSymbol(x.args.symbol)
    /\ \A k \in Keys \cup {GatewayKey} : k \in Address /\ IsAddr(k)
    /\ \A x \in Queries :
         (x.c = "rpc" /\ x.op \in QueryMethods) \/ (x.c = "gateway" /\ x.op \in GatewayQueries)
    /\ \A x \in Queries :     \* an account that the node sends is one
         /\ x.op = "GetBalance" => x.args.denom \in Int
         /\ x.op = "GetBalance" => \A reply \in Replies(x, 2) : reply.k = "data" => IsAccount(reply.v)
         /\ x.op = "GetBalances" => \A reply \in Replies(x, 1) : reply.k = "data" => IsAccount(reply.v)
    /\ Calls \cap Queries = {}

VARIABLES
    network,    \* types.Network
    key,        \* c.key of the rpc client
    checked,    \* chain: sequence of each account after CheckTx
    committed,  \* chain: sequence of each account in the last block
    queue,      \* chain: transactions taken without a check
    call        \* the call in progress, or the last one

chain == <<checked, committed, queue>>
vars  == <<network, key, chain, call>>

Idle == [pc |-> "idle"]

\* What a call knows at its start; the last line is history.
Started(x) ==
    [pc |-> "sign", x |-> x, m |-> Refused, chainId |-> "", seq |-> -1, asked |-> NilAddr,
     signer |-> NilAddr, prefix |-> "", replies |-> <<>>, out |-> Ask,
     fate |-> "none", lost |-> FALSE, switched |-> FALSE, foreign |-> network # HomeNetwork, quiet |-> TRUE]

Init ==
    /\ network = HomeNetwork
    /\ key = NilAddr
    /\ checked = [a \in Accounts |-> 0]
    /\ committed = [a \in Accounts |-> 0]
    /\ queue = <<>>
    /\ call = Idle

(* Other goroutines take no step during a query, which reads none of their *)
(* state, nor between the return of a call and the next.                   *)
apart == call.pc \notin {"query", "returned"}

\* Bound: nothing was sent yet.
unused == queue = <<>> /\ \A a \in Accounts : checked[a] = 0

busy    == call.pc \notin {"idle", "returned"}
rpc     == call.x.c = "rpc"
goto(w) == call' = [call EXCEPT !.pc = w]

ends(out) == [call EXCEPT !.pc = "returned", !.out = out]
fails     == call' = ends(Err)

-----------------------------------------------------------------------------
(* Other goroutines.                                                       *)

SetKeyManager(k) ==
    /\ apart /\ key # k
    /\ key' = k
    /\ call' = IF busy THEN [call EXCEPT !.switched = TRUE] ELSE call
    /\ UNCHANGED <<network, chain>>

\* NewRPCClient and NewDexClient set the network for the whole process.
NewRPCClient(n) ==
    /\ apart /\ network # n
    /\ network' = n
    /\ call' = IF busy THEN [call EXCEPT !.foreign = TRUE] ELSE call
    /\ UNCHANGED <<key, chain>>

-----------------------------------------------------------------------------
(* Networks, and the chain (external).                                     *)

ChainIdOf(n) ==
    CASE n = "prod"   -> "Binance-Chain-Tigris"
      [] n = "test"   -> "Binance-Chain-Ganges"
      [] n = "tmp"    -> "Binance-Chain-Kongo"
      [] n = "ganges" -> "Binance-Chain-Ganges"

Bech32Prefixes(n) == IF n = "prod" THEN "bnb" ELSE "tbnb"

Sum == Len(queue) + SumFunction(checked)

Admits(tx) ==
    /\ tx.signers = {tx.signer} /\ tx.signer \in Accounts
    /\ tx.chainId = ChainIdOf(HomeNetwork) /\ tx.prefix = Bech32Prefixes(HomeNetwork)
    /\ tx.seq = checked[tx.signer]

admit(tx) == checked' = [checked EXCEPT ![tx.signer] = @ + 1]

CheckQueued ==
    /\ apart /\ queue # <<>>
    /\ queue' = Tail(queue)
    /\ IF Admits(Head(queue)) THEN admit(Head(queue)) ELSE UNCHANGED checked
    /\ UNCHANGED <<network, key, committed, call>>

NewBlock ==
    /\ apart /\ committed # checked
    /\ committed' = checked
    /\ UNCHANGED <<network, key, checked, queue, call>>

-----------------------------------------------------------------------------
(* Transactions.                                                           *)

\* A method of the rpc client or the gateway; Broadcast takes the message.
message(x) ==
    CASE x.c = "gateway"    -> GatewayMessage(x.op, GatewayKey, x.args)
      [] x.op = "Broadcast" -> x.args.m
      [] OTHER              -> RpcMessage(x.op, key, x.args)

Begin(x) ==
    /\ call.pc = "idle"
    /\ Sum < MaxTxs /\ (x \in Repeated \/ unused)
    /\ call' = IF x.c = "rpc" /\ key = NilAddr THEN [Started(x) EXCEPT !.pc = "returned", !.out = Err]
               ELSE LET m == message(x) IN
                    IF m = Refused THEN [Started(x) EXCEPT !.pc = "returned", !.out = Err]
                    ELSE [Started(x) EXCEPT !.m = m]
    /\ UNCHANGED <<network, key, chain>>

\* The first part of sign: the chain id, then the options in turn.
chainIdNow == IF rpc THEN ChainIdOf(network) ELSE ChainIdOf(HomeNetwork)

\* The account is asked for unless WithAcNumAndSequence gave both values.
needsAccount(opts) == opts.seq = -1 \/ opts.num = -1

sign ==
    /\ call.pc = "sign"
    /\ call' = [call EXCEPT
                  !.chainId = IF call.x.opts.chainId = "" THEN chainIdNow ELSE call.x.opts.chainId,
                  !.seq = call.x.opts.seq,
                  !.pc = IF needsAccount(call.x.opts) THEN "ask" ELSE "identify"]
    /\ UNCHANGED <<network, key, chain>>

\* Mutant: the rpc client asks for the account of the last block.
latestCommitted(a) == committed[a]

\* GetAccount of the rpc client asks the node for the account after CheckTx.
latest(a) == checked[a]

keyNow == IF rpc THEN key ELSE GatewayKey

AccountReply(k, v) == [k |-> k, v |-> v]

AskAccount ==
    /\ call.pc = "ask"
    /\ LET a == keyNow
           present == IF rpc THEN AccountReply("data", latest(a)) ELSE AccountReply("data", committed[a])
           absent  == AccountReply(IF rpc THEN "nil" ELSE "notfound", -1)
           readable == Bech32Prefixes(network) = Bech32Prefixes(HomeNetwork)
       IN  \E reply \in {AccountReply("lost", -1), AccountReply("refused", -1), AccountReply("garbage", -1)}
                          \cup (IF readable THEN {IF a \in Accounts THEN present ELSE absent} ELSE {}) :
             LET acc == IF rpc THEN account(reply) ELSE accountOrNone(reply)
                 got(seq) == [call EXCEPT !.pc = "identify", !.asked = a, !.seq = seq,
                                          !.quiet = \A i \in DOMAIN queue : queue[i].signer # a]
             IN  call' = CASE acc.r = "val"            -> got(acc.v)
                           [] acc.r = "none" /\ ~rpc   -> got(0)
                           [] OTHER                    -> ends(Err)
    /\ UNCHANGED <<network, key, chain>>

\* The id of an order, then ValidateBasic.
identify ==
    /\ call.pc = "identify"
    /\ LET m == IF call.m.t = "CreateOrderMsg"
                THEN [call.m EXCEPT !.orderId = OrderID(keyNow, call.seq + 1)] ELSE call.m
       IN  call' = IF MsgOf(m).valid THEN [call EXCEPT !.pc = "keysign", !.m = m] ELSE ends(Err)
    /\ UNCHANGED <<network, key, chain>>

\* KeyManager.Sign: the signature over the JSON form, then the encoding.
Sign ==
    /\ call.pc = "keysign"
    /\ IF RegisterCodec(call.m)
       THEN call' = [call EXCEPT !.pc = "post", !.signer = keyNow, !.prefix = Bech32Prefixes(network)]
       ELSE fails
    /\ UNCHANGED <<network, key, chain>>

tx == [signers |-> MsgOf(call.m).signers, signer |-> call.signer, seq |-> call.seq,
       chainId |-> call.chainId, prefix |-> call.prefix]

\* The caller gets an answer, or it was lost and the caller gets an error.
answer(fate, out) ==
    \/ call' = [ends(out) EXCEPT !.fate = fate]
    \/ call' = [ends(Err) EXCEPT !.fate = fate, !.lost = TRUE]

\* Nothing is sent: an unknown mode, a transaction too large, no connection.
PostFails ==
    /\ call.pc = "post"
    /\ fails
    /\ UNCHANGED <<network, key, chain>>

sendable == rpc => ValidateTx(call.x.opts.size) /\ call.x.mode # "unknown"

Code(n) == [r |-> "code", v |-> n]

BroadcastTxAsync ==
    /\ call.pc = "post" /\ sendable /\ call.x.mode = "async"
    /\ queue' = Append(queue, tx)
    /\ answer("queued", Code(0))
    /\ UNCHANGED <<network, key, checked, committed>>

BroadcastTxSync ==
    /\ call.pc = "post" /\ sendable /\ call.x.mode = "sync"
    /\ IF Admits(tx) THEN admit(tx) /\ answer("pooled", Code(0))
       ELSE UNCHANGED checked /\ answer("refused", Code(1))
    /\ UNCHANGED <<network, key, committed, queue>>

\* Mutant: the result of CheckTx is ignored; DeliverTx is all zeros then.
commitResultDelivered(checkTx, deliverTx) == Code(deliverTx)

\* Broadcast in mode Commit: the code of CheckTx if that failed, else of DeliverTx.
commitResult(checkTx, deliverTx) == IF checkTx # 0 THEN Code(checkTx) ELSE Code(deliverTx)

BroadcastTxCommit ==
    /\ call.pc = "post" /\ sendable /\ call.x.mode = "commit"
    /\ IF Admits(tx) THEN admit(tx) /\ goto("wait")
       ELSE UNCHANGED checked /\ answer("refused", commitResult(1, 0))
    /\ UNCHANGED <<network, key, committed, queue>>

\* What a method of the gateway makes of [Ok, Data]; Data may not parse.
GatewayResult(ok, parses, sync) ==
    IF Parses(call.x.op, ok, sync) /\ ~parses THEN Err ELSE Code(IF ok THEN 0 ELSE 1)

\* The gateway answers with an error status, no commit at all, or one commit.
gatewayAnswer(fate, ok, sync) ==
    \/ \E parses \in BOOLEAN : answer(fate, GatewayResult(ok, parses, sync))
    \/ ~ok /\ answer(fate, Err)

PostTx ==
    /\ call.pc = "post" /\ call.x.mode \in {"gateway", "gatewaySync"}
    /\ IF ~Admits(tx) THEN UNCHANGED checked /\ gatewayAnswer("refused", FALSE, call.x.mode = "gatewaySync")
       ELSE /\ admit(tx)
            /\ IF call.x.mode = "gatewaySync" THEN goto("wait") ELSE gatewayAnswer("pooled", TRUE, FALSE)
    /\ UNCHANGED <<network, key, committed, queue>>

\* The transaction is in a block; it may have failed there.
Delivered ==
    /\ call.pc = "wait"
    /\ committed' = checked
    /\ \E ok \in BOOLEAN :
         LET fate == IF ok THEN "delivered" ELSE "failed" IN
         IF rpc THEN answer(fate, commitResult(0, IF ok THEN 0 ELSE 1)) ELSE gatewayAnswer(fate, ok, TRUE)
    /\ UNCHANGED <<network, key, checked, queue>>

-----------------------------------------------------------------------------
(* Queries.                                                                *)

Answer(x, rs) == IF x.c = "rpc" THEN RpcQuery(x.op, x.args, rs) ELSE GatewayQuery(x.op, x.args, rs)

resume(x, rs) ==
    LET out == Answer(x, rs) IN
    [Started(x) EXCEPT !.pc = IF out = Ask THEN "query" ELSE "returned", !.replies = rs, !.out = out]

\* Bound: queries are asked at the start; they read none of the other state.
BeginQuery(x) ==
    /\ call.pc = "idle" /\ unused /\ key = NilAddr /\ network = HomeNetwork
    /\ call' = resume(x, <<>>)
    /\ UNCHANGED <<network, key, chain>>

Reply ==
    /\ call.pc = "query"
    /\ \E reply \in Replies(call.x, Len(call.replies) + 1) : call' = resume(call.x, Append(call.replies, reply))
    /\ UNCHANGED <<network, key, chain>>

\* The caller has what it wanted.
Return ==
    /\ call.pc = "returned"
    /\ call' = Idle
    /\ UNCHANGED <<network, key, chain>>

-----------------------------------------------------------------------------
Next ==
    \/ \E k \in Keys : SetKeyManager(k)
    \/ \E n \in Networks : NewRPCClient(n)
    \/ CheckQueued \/ NewBlock
    \/ \E x \in Calls : Begin(x)
    \/ sign \/ AskAccount \/ identify \/ Sign
    \/ PostFails \/ BroadcastTxAsync \/ BroadcastTxSync \/ BroadcastTxCommit \/ PostTx \/ Delivered
    \/ \E x \in Queries : BeginQuery(x)
    \/ Reply \/ Return

Spec == Init /\ [][Next]_vars

-----------------------------------------------------------------------------
(* Properties                                                              *)

posted   == call.pc \in {"post", "wait"}
returned == call.pc = "returned"
sent     == call.pc = "returned" /\ call.m # Refused

\* A transaction is signed by the signer of its message, with the sequence of
\* that account, an order id that names it and the id of the client's own chain,
\* unless the key was exchanged while the call ran (sign reads c.key four times,
\* dex_client.go:1008-1057) or a client for another network exists (basic_client.go:64).
\* SideChainUnjail and Broadcast take the signer from the caller.
SignedForItself ==
    posted =>
      /\ ~call.switched /\ call.x.op \notin {"SideChainUnjail", "Broadcast"}
           => MsgOf(call.m).signers = {call.signer} /\ call.signer \in MsgOf(call.m).involved
      /\ ~call.switched /\ needsAccount(call.x.opts) => call.asked = call.signer
      /\ ~call.switched /\ call.m.t = "CreateOrderMsg" => call.m.orderId = OrderID(call.signer, call.seq + 1)
      /\ ~call.foreign /\ call.x.opts.chainId = "" => call.chainId = ChainIdOf(HomeNetwork)
      /\ ~call.foreign => call.prefix = Bech32Prefixes(HomeNetwork)

\* The result of a transaction tells what became of it: code 0 only if it went as
\* far as the mode waits for, another code only if the chain refused it or it
\* failed in its block, and an error after it was taken only if the answer was
\* lost or its data could not be parsed (Broadcast, dex_client.go:923-955;
\* broadcastMsg, transaction.go:120-127).
ResultTellsFate ==
    sent =>
      /\ call.out = Code(0) =>
           call.fate = CASE call.x.mode = "async" -> "queued"
                         [] call.x.mode \in {"sync", "gateway"} -> "pooled"
                         [] call.x.mode \in {"commit", "gatewaySync"} -> "delivered"
      /\ call.out = Code(1) => call.fate \in {"refused", "failed"}
      /\ call.out = Err /\ call.fate \in {"queued", "pooled", "delivered"} =>
           call.lost \/ Parses(call.x.op, TRUE, call.x.mode = "gatewaySync")

\* "Always fetch the latest account from the cache in node even the previous
\* transaction from this account is not included in block yet" (dex_client.go:172):
\* a call of the rpc client that reads the account itself is not refused for its
\* sequence, unless one sent in mode Async still waits for its check.
NextSequenceFits ==
    call.pc = "post" /\ rpc /\ needsAccount(call.x.opts) /\ ~call.switched /\ call.quiet
      => call.seq = checked[call.signer]

\* An accepted SendMsg moves coins and makes none: for every denomination inputs
\* and outputs add up to the same in the arithmetic of the machine, so to the same
\* whenever both sums fit a word (SendMsg.ValidateBasic, Coins.Plus, SendToken).
SendConserves ==
    posted /\ call.m.t = "SendMsg" =>
      \A d \in Denoms : Wrap(moved(call.m.inputs, d)) = Wrap(moved(call.m.outputs, d))

\* SendToken with proper transfers, in whatever order their coins are listed, is
\* not refused by the client's own checks (CreateSendMsg sorts, msg-send.go:171).
ProperSendAccepted ==
    LET ts == call.x.args.transfers
        proper ==
          /\ ts # <<>>
          /\ \A i \in DOMAIN ts :
               /\ ts[i].to.len > 0 /\ IsPositive(ts[i].coins)
               /\ \A j, k \in DOMAIN ts[i].coins :
                    ts[i].coins[j].denom = ts[i].coins[k].denom => j = k
          /\ \A d \in Denoms : moved(ts, d) < Half
    IN  call.pc = "identify" /\ call.x.op = "SendToken" /\ proper => MsgOf(call.m).valid

\* The names of tokens agree between the messages and the queries: what an
\* accepted message works on is a token or a mini token, never both, and short
\* enough to be asked for (rpc.ValidateSymbol); and an accepted issue gets a name
\* that the other messages take, unless it is issued as BNB.
NamesAgree ==
    posted =>
      /\ call.m.t \in {"TokenBurnMsg", "TokenFreezeMsg", "TokenUnfreezeMsg", "SetURIMsg", "TransferOwnershipMsg"} =>
           /\ ValidateSymbol(call.m.symbol) # ValidateMiniTokenSymbol(call.m.symbol)
           /\ ValidateLength(call.m.symbol)
      /\ call.m.t = "TokenIssueMsg" /\ ~call.m.symbol.native =>
           ValidateSymbol(Suffix(call.m.symbol, 3)) /\ ValidateLength(Suffix(call.m.symbol, 3))
      /\ call.m.t = "MiniTokenIssueMsg" =>
           ValidateMiniTokenSymbol(Suffix(call.m.symbol, 4)) /\ ValidateLength(Suffix(call.m.symbol, 4))

\* A failed request is never taken for an answer, and "nothing there" is only
\* said when the node said so.  GetSideChainPool drops the error of its second
\* request (staking_client.go:497); GetCurrentOracleSequence panics on a value of
\* no bytes (dex_client.go:1003).
AnswersComeFromNode ==
    LET rs == call.replies
        last == rs[Len(rs)]
    IN  returned /\ call.x \in Queries /\ call.x.op # "GetSideChainPool" =>
          /\ call.out.r \in {"none", "val"} =>
               \A i \in DOMAIN rs :
                 rs[i].k # "lost" /\ (rs[i].k = "refused" => call.x.op \in PassedOn)
          /\ call.out.r = "none" =>
               \/ last.k \in {"nil", "empty", "notfound"}
               \/ /\ call.x.op \in {"QuerySideChainRedelegations", "QuerySideChainUnbondingDelegations"}
                  /\ last.k = "data" /\ last.v = <<>>
          /\ call.out.r = "panic" => call.x.op = "GetCurrentOracleSequence" /\ last.k = "empty"

\* A redelegation or an unbonding delegation names the addresses of the question,
\* if they have the proper length (getREDKey, getUBDKey and the two decoders).
RecordFitsQuestion ==
    LET a == call.x.args
        v == call.out.v
    IN  returned /\ call.out.r = "val" =>
          /\ call.x.op = "QuerySideChainRedelegation" /\ IsAddr(a.del) /\ IsAddr(a.src) /\ IsAddr(a.dst) =>
               v.del = BytesOf(a.del) /\ v.src = BytesOf(a.src) /\ v.dst = BytesOf(a.dst)
          /\ call.x.op = "QuerySideChainUnbondingDelegation" /\ IsAddr(a.del) /\ IsAddr(a.val) =>
               v.del = BytesOf(a.del) /\ v.val = BytesOf(a.val)

\* GetBalance and GetBalances report what the account holds of each denomination
\* they name (Coins.AmountOf searches a sorted list by halves).
BalanceFitsAccount ==
    LET v == call.out.v
        last == call.replies[Len(call.replies)]
        ofAccount(b) == /\ b.free = Total(last.v.free, b.denom) /\ b.locked = Total(last.v.locked, b.denom)
                        /\ b.frozen = Total(last.v.frozen, b.denom)
    IN  returned /\ call.out.r = "val" =>
          /\ call.x.op = "GetBalance" /\ last.k = "data" => ofAccount(v)
          /\ call.x.op = "GetBalances" => \A i \in DOMAIN v : ofAccount(v[i])

\* What a query returns is what it was asked for.
AnswerFitsQuestion == RecordFitsQuestion /\ BalanceFitsAccount

-----------------------------------------------------------------------------
(* The inductive invariant behind SignedForItself, ResultTellsFate and     *)
(* NextSequenceFits.                                                       *)

CallFields == {"pc", "x", "m", "chainId", "seq", "asked", "signer", "prefix", "replies", "out",
               "fate", "lost", "switched", "foreign", "quiet"}

\* The chain: sequences are numbers, and the queue is a sequence.
ChainInv ==
    /\ checked \in [Accounts -> Nat]
    /\ queue \in Seq(Range(queue))

\* The steps of a transaction up to its result.
Running == call.pc \in {"sign", "ask", "identify", "keysign", "post", "wait"}

asked_    == call.pc \in {"identify", "keysign", "post", "wait"}
identified == call.pc \in {"keysign", "post", "wait"}

\* What a running transaction has decided so far still agrees with the key and
\* the network it will use next, as long as nobody has exchanged them.
KeyInv ==
    Running /\ ~call.switched =>
      /\ call.x.op \notin {"SideChainUnjail", "Broadcast"} =>
           MsgOf(call.m).signers = {keyNow} /\ keyNow \in MsgOf(call.m).involved
      /\ asked_ /\ needsAccount(call.x.opts) => call.asked = keyNow
      /\ identified /\ call.m.t = "CreateOrderMsg" => call.m.orderId = OrderID(keyNow, call.seq + 1)
      /\ posted => call.signer = keyNow

NetworkInv ==
    Running /\ ~call.foreign =>
      /\ network = HomeNetwork
      /\ call.pc # "sign" /\ call.x.opts.chainId = "" => call.chainId = ChainIdOf(HomeNetwork)
      /\ posted => call.prefix = Bech32Prefixes(HomeNetwork)

\* The sequence that the rpc client read is still the next one: nobody else
\* sends for this account but what waits in the queue.
SequenceInv ==
    call.pc \in {"identify", "keysign", "post"} /\ rpc /\ needsAccount(call.x.opts) /\ ~call.switched /\ call.quiet =>
      /\ keyNow \in Accounts /\ call.seq = checked[keyNow]
      /\ \A i \in DOMAIN queue : queue[i].signer # keyNow

\* Before its result a transaction has no fate; only two modes wait for a block.
FateInv ==
    Running =>
      /\ call.x \in Calls /\ call.m # Refused
      /\ call.m.t = "CreateOrderMsg" => {"t", "from", "orderId"} \subseteq DOMAIN call.m
      /\ call.fate = "none" /\ ~call.lost
      /\ call.pc = "wait" => call.x.mode \in {"commit", "gatewaySync"}

CallInv ==
    /\ call = Idle \/ (DOMAIN call = CallFields /\ call = [f \in CallFields |-> call[f]])
    /\ call.pc \in {"idle", "query", "returned"} \/ Running
    /\ call.pc # "idle" => call # Idle
    /\ call.pc \in {"query", "returned"} => call.x \in Calls \cup Queries

IInv == CallInv /\ ChainInv /\ KeyInv /\ NetworkInv /\ SequenceInv /\ FateInv /\ ResultTellsFate

(* The invariant behind AnswersComeFromNode and AnswerFitsQuestion: what a *)
(* query has got to is the answer to its replies, it asked for each of     *)
(* them, and the node gave them.                                           *)
IsSequence(s) == Len(s) \in Nat /\ s = [i \in 1 .. Len(s) |-> s[i]]

AskedFor(x, rs) == \A n \in 0 .. Len(rs) - 1 : Answer(x, SubSeq(rs, 1, n)) = Ask

Replied(x, rs) == \A i \in 1 .. Len(rs) : rs[i] \in Replies(x, i)

QueryInv ==
    /\ call.pc = "query" => call.x \in Queries /\ call.out = Ask
    /\ call.pc \in {"query", "returned"} /\ call.x \in Queries =>
         /\ IsSequence(call.replies) /\ AskedFor(call.x, call.replies) /\ Replied(call.x, call.replies)
         /\ call.out = Answer(call.x, call.replies)

(* The invariant behind SendConserves, ProperSendAccepted and NamesAgree:  *)
(* what the message of a running transaction was made of.                  *)
MessageInv ==
    /\ key \in Keys \cup {NilAddr}
    /\ Running =>
         /\ call.x.op = "SendToken" =>
              LET ts == call.x.args.transfers
              IN  call.m = CreateSendMsg(call.m.from, fromCoins(ts), ts) /\ IsAddr(call.m.from)
         /\ call.m.t = "SendMsg" => call.x.op = "SendToken" \/ (call.x.op = "Broadcast" /\ call.m = call.x.args.m)
         /\ call.m.t \in Named => IsSymbol(call.m.symbol)
         /\ identified => MsgOf(call.m).valid

=============================================================================
