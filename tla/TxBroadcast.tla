---------------------------- MODULE TxBroadcast ----------------------------
(***************************************************************************)
(* Signing and broadcasting with one account: broadcastMsg, CreateOrder    *)
(* and AddAccountFlags of client/transaction.  Several goroutines or       *)
(* processes use the same key.  sign and Broadcast of client/rpc, with     *)
(* other modes and other reports of a refusal, are in ClientCalls.         *)
(*                                                                         *)
(* A caller either lets the client read the account's sequence or passes   *)
(* WithAcNumAndSequence, counting from an account it read before, as the   *)
(* ReadMe shows.  The chain is external: GetAccount returns the committed  *)
(* state, and a transaction enters the mempool only with the sequence that *)
(* follows the ones already there.                                         *)
(***************************************************************************)
EXTENDS Integers, Sequences

CONSTANTS
    Clients,    \* the users of the account
    Flags,      \* the account flags
    MaxOps,     \* bound: calls per client
    MaxTxs      \* bound: transactions the chain takes

ASSUME TxBroadcastAssumption == MaxOps \in Nat /\ MaxTxs \in Nat

VARIABLES
    seq, flags,     \* chain: the committed account
    mempool,        \* chain: transactions that passed CheckTx, in order
    included,       \* chain: transactions in blocks, in order
    pc,             \* where each caller is
    op,             \* its call: number, kind, flag, and opt, the sequence option or -1
    val,            \* AddAccountFlags' local variable flags
    sn,             \* signMsg.Sequence
    cursor,         \* the sequence the caller will pass next, or -1
    fresh,          \* no transaction was sent since the caller read the account
    alone           \* nobody else's transaction got in since, and no answer was lost

chainVars == <<seq, flags, mempool, included>>
userVars  == <<cursor, fresh, alone>>
vars      == <<chainVars, pc, op, val, sn, userVars>>

NoOp == [n |-> 0, kind |-> "order", flag |-> {}, opt |-> -1, fresh |-> FALSE]

Init ==
    /\ seq = 0 /\ flags = {}
    /\ mempool = <<>> /\ included = <<>>
    /\ pc = [c \in Clients |-> "idle"]
    /\ op = [c \in Clients |-> NoOp]
    /\ val = [c \in Clients |-> {}]
    /\ sn = [c \in Clients |-> -1]
    /\ cursor = [c \in Clients |-> -1]
    /\ fresh = [c \in Clients |-> FALSE]
    /\ alone = [c \in Clients |-> FALSE]

-----------------------------------------------------------------------------
(* The chain (external).                                                   *)

CheckSeq == seq + Len(mempool)

Commit ==
    /\ mempool # <<>>
    /\ LET tx == Head(mempool) IN
         /\ included' = Append(included, tx)
         /\ flags' = IF tx.kind = "add" THEN tx.flags ELSE flags
    /\ mempool' = Tail(mempool)
    /\ seq' = seq + 1
    /\ UNCHANGED <<pc, op, val, sn, userVars>>

-----------------------------------------------------------------------------
(* The caller (external): reads the account, calls, and may call again     *)
(* with the same arguments after an error.                                 *)

UserReadsAccount(c) ==
    /\ pc[c] = "idle"
    /\ cursor' = [cursor EXCEPT ![c] = seq]
    /\ fresh' = [fresh EXCEPT ![c] = TRUE]
    /\ alone' = [alone EXCEPT ![c] = (mempool = <<>>)]
    /\ UNCHANGED <<chainVars, pc, op, val, sn>>

UserCalls(c, kind, f, opt) ==
    /\ pc[c] = "idle"
    /\ op[c].n < MaxOps
    /\ op' = [op EXCEPT ![c] = [n |-> op[c].n + 1, kind |-> kind, flag |-> f, opt |-> opt,
                                fresh |-> fresh[c] /\ opt # -1]]
    /\ pc' = [pc EXCEPT ![c] = kind]
    /\ UNCHANGED <<chainVars, val, sn, userVars>>

UserRetries(c) ==
    /\ pc[c] = "failed"
    /\ pc' = [pc EXCEPT ![c] = op[c].kind]
    /\ UNCHANGED <<chainVars, op, val, sn, userVars>>

UserGivesUp(c) ==
    /\ pc[c] = "failed"
    /\ pc' = [pc EXCEPT ![c] = "idle"]
    /\ cursor' = [cursor EXCEPT ![c] = -1]
    /\ UNCHANGED <<chainVars, op, val, sn, fresh, alone>>

-----------------------------------------------------------------------------
(* The client.                                                             *)

\* The call returns: its local variables are gone.
Returns(c, where) ==
    /\ pc' = [pc EXCEPT ![c] = where]
    /\ val' = [val EXCEPT ![c] = {}]
    /\ sn' = [sn EXCEPT ![c] = -1]

\* AddAccountFlags: GetAccount, then flags | f.
AddAccountFlags(c) ==
    /\ pc[c] = "add"
    /\ val' = [val EXCEPT ![c] = flags \cup op[c].flag]
    /\ pc' = [pc EXCEPT ![c] = "broadcast"]
    /\ UNCHANGED <<chainVars, op, sn, userVars>>

\* CreateOrder goes straight to broadcastMsg.
CreateOrder(c) ==
    /\ pc[c] = "order"
    /\ pc' = [pc EXCEPT ![c] = "broadcast"]
    /\ UNCHANGED <<chainVars, op, val, sn, userVars>>

\* Mutant: the account is always read.
SequenceOfReread(c) == seq

\* if signMsg.Sequence == -1: the sequence of the account, else the option's.
SequenceOf(c) == IF op[c].opt = -1 THEN seq ELSE op[c].opt

BroadcastMsg(c) ==
    /\ pc[c] = "broadcast"
    /\ sn' = [sn EXCEPT ![c] = SequenceOf(c)]
    /\ pc' = [pc EXCEPT ![c] = "post"]
    /\ UNCHANGED <<chainVars, op, val, userVars>>

\* An argument is missing, a query fails, the message does not pass
\* ValidateBasic or cannot be signed: nothing is sent.
BroadcastFails(c) ==
    /\ pc[c] \in {"order", "add", "broadcast"}
    /\ Returns(c, "failed")
    /\ UNCHANGED <<chainVars, op, userVars>>

\* Mutant: the order id takes the sequence itself.
OrderIDOff(c) == sn[c]

\* GenerateOrderID(signMsg.Sequence+1, addr)
OrderID(c) == sn[c] + 1

SignedTx(c) ==
    [by |-> c, n |-> op[c].n, kind |-> op[c].kind, opt |-> op[c].opt, fresh |-> op[c].fresh,
     seq |-> sn[c], flags |-> val[c], id |-> OrderID(c)]

\* The signed transaction reaches the node and passes CheckTx.  The answer
\* comes back, or is lost and the caller sees an error.
Accepted(c) ==
    /\ pc[c] = "post"
    /\ sn[c] = CheckSeq /\ CheckSeq < MaxTxs
    /\ mempool' = Append(mempool, SignedTx(c))
    /\ \/ /\ Returns(c, "idle")
          /\ cursor' = [cursor EXCEPT ![c] = IF op[c].opt = -1 THEN -1 ELSE op[c].opt + 1]
          /\ alone' = [d \in Clients |-> d = c /\ alone[d]]
       \/ /\ Returns(c, "failed")
          /\ cursor' = cursor
          /\ alone' = [d \in Clients |-> FALSE]
    /\ fresh' = [fresh EXCEPT ![c] = FALSE]
    /\ UNCHANGED <<seq, flags, included, op>>

\* The node answers with a sequence mismatch.
Rejected(c) ==
    /\ pc[c] = "post"
    /\ sn[c] # CheckSeq
    /\ pc' = [pc EXCEPT ![c] = "rejected"]
    /\ UNCHANGED <<chainVars, op, val, sn, userVars>>

\* The request does not reach the node.
PostLost(c) ==
    /\ pc[c] = "post"
    /\ Returns(c, "failed")
    /\ UNCHANGED <<chainVars, op, userVars>>

RejectReturned(c) ==
    /\ pc[c] = "rejected"
    /\ Returns(c, "failed")
    /\ UNCHANGED <<chainVars, op, userVars>>

-----------------------------------------------------------------------------
User(c) ==
    \/ UserReadsAccount(c)
    \/ \E opt \in {-1, cursor[c]} :
         UserCalls(c, "order", {}, opt) \/ \E f \in Flags : UserCalls(c, "add", {f}, opt)
    \/ UserRetries(c) \/ UserGivesUp(c)

Client(c) ==
    \/ AddAccountFlags(c) \/ CreateOrder(c) \/ BroadcastMsg(c) \/ BroadcastFails(c)
    \/ Accepted(c) \/ Rejected(c) \/ PostLost(c) \/ RejectReturned(c)

Next == Commit \/ \E c \in Clients : User(c) \/ Client(c)

Spec == Init /\ [][Next]_vars

-----------------------------------------------------------------------------
(* Properties                                                              *)

\* The id that broadcastMsg gives an order (transaction.go:100) is the one the
\* chain expects: the account's sequence once the order is included, whoever
\* else used the account meanwhile.
OrderIdMatches ==
    \A i \in 1..Len(included) : included[i].kind = "order" => included[i].id = i

\* "to avoid sequence mismatch error, option WithAcNumAndSequence is required"
\* (ReadMe.md:150): a caller that read the account with nothing pending and
\* then counts on gets no mismatch, unless another user of the account got a
\* transaction in or an answer was lost.
PipelineAccepted == \A c \in Clients : pc[c] = "rejected" /\ op[c].opt # -1 => ~alone[c]

\* A call that is repeated after an error with the same explicit sequence
\* (option.go:19) takes effect at most once, even if only the answer was lost.
ExplicitRetryOnce ==
    \A i, j \in 1..Len(included) :
        /\ included[i].by = included[j].by /\ included[i].n = included[j].n
        /\ included[i].opt # -1
        => i = j

\* AddAccountFlags (set_account_flags.go:24) reads the flags and sets all of
\* them.  With the sequence of an account read before the call, it never clears
\* a flag that somebody else set in between: the chain then refuses it.
FreshAddKeepsFlags ==
    [][seq' # seq => LET tx == Head(mempool) IN
                     tx.kind = "add" /\ tx.fresh => flags \subseteq flags']_vars

-----------------------------------------------------------------------------
(* The inductive invariant behind OrderIdMatches and ExplicitRetryOnce.    *)

Ops == [n : Nat, kind : {"order", "add"}, flag : SUBSET Flags, opt : Int,
        fresh : BOOLEAN]
Tx  == [by : Clients, n : Nat, kind : {"order", "add"}, opt : Int, fresh : BOOLEAN,
        seq : Int, flags : SUBSET Flags, id : Int]

\* Every variable holds a value the code or the chain can give it.
TypeOK ==
    /\ seq \in Nat /\ flags \subseteq Flags
    /\ mempool \in Seq(Tx) /\ included \in Seq(Tx)
    /\ pc \in [Clients -> {"idle", "order", "add", "broadcast", "post", "rejected", "failed"}]
    /\ op \in [Clients -> Ops]
    /\ val \in [Clients -> SUBSET Flags]
    /\ sn \in [Clients -> Int] /\ cursor \in [Clients -> Int]
    /\ fresh \in [Clients -> BOOLEAN] /\ alone \in [Clients -> BOOLEAN]

\* The i-th transaction of the account has sequence i - 1, in blocks and beyond.
SlotsInv ==
    /\ seq = Len(included)
    /\ \A i \in 1..Len(included) : included[i].seq = i - 1
    /\ \A i \in 1..Len(mempool) : mempool[i].seq = seq + i - 1

Txs == {included[i] : i \in 1..Len(included)} \cup {mempool[i] : i \in 1..Len(mempool)}

\* Every transaction is signed as its call asked for.
SignedInv ==
    /\ \A c \in Clients : pc[c] = "post" /\ op[c].opt # -1 => sn[c] = op[c].opt
    /\ \A t \in Txs :
         /\ t.id = t.seq + 1
         /\ t.opt # -1 => t.seq = t.opt
         /\ t.n <= op[t.by].n
         /\ t.n = op[t.by].n => t.opt = op[t.by].opt
    /\ \A t, u \in Txs : t.by = u.by /\ t.n = u.n => t.opt = u.opt

\* Their conjunction holds initially and is preserved by every step.
IInv == TypeOK /\ SlotsInv /\ SignedInv

-----------------------------------------------------------------------------
(* Two more, each inductive given IInv, behind PipelineAccepted and        *)
(* FreshAddKeepsFlags.                                                     *)

\* As long as nobody interferes, the sequence a caller counts on is the next one.
PipelineInv ==
    \A c \in Clients : alone[c] =>
        /\ cursor[c] \in {-1, CheckSeq}
        /\ pc[c] # "idle" /\ op[c].opt # -1 => op[c].opt = CheckSeq
        /\ pc[c] = "rejected" => op[c].opt = -1

\* A fresh sequence is never ahead of the account, and as long as it is the
\* account's own, the flags have not changed since AddAccountFlags read them.
FreshInv ==
    /\ \A c \in Clients :
         /\ pc[c] = "order" => op[c].kind = "order"
         /\ fresh[c] => cursor[c] <= seq
         /\ op[c].fresh => op[c].opt # -1 /\ op[c].opt <= seq
         /\ pc[c] \in {"broadcast", "post"} /\ op[c].kind = "add" /\ op[c].fresh /\ op[c].opt = seq
              => flags \subseteq val[c]
    /\ \A i \in 1..Len(mempool) : mempool[i].fresh =>
         /\ mempool[i].opt # -1 /\ mempool[i].opt <= seq
         /\ mempool[i].kind = "add" /\ mempool[i].opt = seq => flags \subseteq mempool[i].flags

=============================================================================
