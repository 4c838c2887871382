------------------------- MODULE TxBroadcastProofs -------------------------
(***************************************************************************)
(* Proofs about TxBroadcast, for any users, flags and bounds.  Two facts   *)
(* carry them: the i-th transaction of the account has sequence i - 1, and *)
(* all the transactions one call ever signed agree on its sequence option. *)
(* Most steps leave the chain and what was signed alone: QuietStep.        *)
(***************************************************************************)
EXTENDS TxBroadcast, TLAPS

\* An account nobody has used satisfies the invariant.
LEMMA InitIInv == Init => IInv
  <1> SUFFICES ASSUME Init PROVE IInv
    OBVIOUS
  <1>1. Len(included) = 0 /\ Len(mempool) = 0
    BY Zenon DEF Init
  <1>2. NoOp \in Ops
    BY DEF NoOp, Ops
  <1>3. TypeOK
    <2>1. /\ fresh \in [Clients -> BOOLEAN] /\ alone \in [Clients -> BOOLEAN]
      BY Zenon DEF Init
    <2>2. /\ op \in [Clients -> Ops]
      BY <1>2, Zenon DEF Init
    <2> QED
      BY <2>1, <2>2 DEF Init, TypeOK
  <1>4. SlotsInv
    BY <1>1 DEF Init, SlotsInv
  <1>5. Txs = {}
    BY <1>1 DEF Txs
  <1>6. SignedInv
    BY <1>5, Zenon DEF Init, SignedInv
  <1> QED
    BY <1>3, <1>4, <1>6, Zenon DEF IInv

\* What a client signs is a transaction.
LEMMA SignedTxType == ASSUME TypeOK, NEW c \in Clients PROVE SignedTx(c) \in Tx
  BY DEF TypeOK, SignedTx, Tx, Ops, OrderID

\* The chain holds transactions only.
LEMMA TxsType == ASSUME TypeOK PROVE Txs \subseteq Tx
  <1>1. \A i \in 1..Len(included) : included[i] \in Tx
    BY DEF TypeOK
  <1>2. \A i \in 1..Len(mempool) : mempool[i] \in Tx
    BY DEF TypeOK
  <1> QED
    BY <1>1, <1>2, Zenon DEF Txs

\* When a call returns, its local variables keep their types.
LEMMA ReturnsType ==
  ASSUME TypeOK, NEW c \in Clients, NEW where \in {"idle", "failed"}, Returns(c, where)
  PROVE  /\ pc' \in [Clients -> {"idle", "order", "add", "broadcast", "post", "rejected", "failed"}]
         /\ val' \in [Clients -> SUBSET Flags]
         /\ sn' \in [Clients -> Int]
         /\ pc'[c] = where
  <1>1. {} \in SUBSET Flags
    OBVIOUS
  <1>2. val' \in [Clients -> SUBSET Flags]
    BY <1>1, Zenon DEF TypeOK, Returns
  <1> QED
    BY <1>2 DEF TypeOK, Returns

\* A step that leaves the chain and the sequences alone.
LEMMA QuietStep ==
  ASSUME IInv, TypeOK', UNCHANGED <<seq, mempool, included>>,
         \A c \in Clients : op'[c].n >= op[c].n,
         \A c \in Clients : op'[c].n = op[c].n => op'[c].opt = op[c].opt,
         \A c \in Clients : pc'[c] = "post" /\ op'[c].opt # -1 => sn'[c] = op'[c].opt
  PROVE  IInv'
  <1>1. SlotsInv'
    BY Zenon DEF IInv, SlotsInv
  <1>2. Txs' = Txs
    BY Zenon DEF Txs
  <1>3. \A t \in Txs : t.by \in Clients /\ t.n \in Nat
    BY TxsType, Zenon DEF IInv, Tx
  <1>4. ASSUME NEW t \in Txs
        PROVE  /\ t.n <= op'[t.by].n
               /\ t.n = op'[t.by].n => t.opt = op'[t.by].opt
    <2>1. t.by \in Clients /\ t.n \in Nat /\ t.n <= op[t.by].n
      BY <1>3, Zenon DEF IInv, SignedInv
    <2>2. op[t.by].n \in Nat /\ op'[t.by].n \in Nat
      BY <2>1, Zenon DEF IInv, TypeOK, Ops
    <2> QED
      BY <2>1, <2>2 DEF IInv, SignedInv
  <1>5. SignedInv'
    BY <1>2, <1>4, Zenon DEF IInv, SignedInv
  <1> QED
    BY <1>1, <1>5, Zenon DEF IInv

\* A block takes the first transaction of the mempool.
LEMMA CommitStep == IInv /\ Commit => IInv'
  <1> SUFFICES ASSUME IInv, Commit PROVE IInv'
    OBVIOUS
  <1>1. mempool \in Seq(Tx) /\ included \in Seq(Tx) /\ mempool # <<>> /\ seq \in Nat
    BY Zenon DEF IInv, TypeOK, Commit
  <1>2. included' = Append(included, mempool[1]) /\ mempool' = Tail(mempool) /\ seq' = seq + 1
    BY <1>1 DEF Commit
  <1>3. /\ Len(included') = Len(included) + 1
        /\ \A i \in 1..Len(included) : included'[i] = included[i]
        /\ included'[Len(included) + 1] = mempool[1]
    BY <1>1, <1>2
  <1>4. /\ Len(mempool') = Len(mempool) - 1 /\ Len(mempool) > 0
        /\ \A i \in 1..Len(mempool') : mempool'[i] = mempool[i + 1]
    BY <1>1, <1>2
  <1>5. mempool[1] \in Tx
    BY <1>1, <1>4
  <1>6. TypeOK'
    <2>1. included' \in Seq(Tx) /\ mempool' \in Seq(Tx)
      BY <1>1, <1>2, <1>5
    <2>2. flags' \subseteq Flags
      <3>1. mempool[1].flags \subseteq Flags
        BY <1>5 DEF Tx
      <3>2. flags' \in {mempool[1].flags, flags}
        BY <1>1 DEF Commit
      <3> QED
        BY <3>1, <3>2, Zenon DEF IInv, TypeOK
    <2> QED
      BY <2>1, <2>2, <1>1, <1>2 DEF Commit, IInv, TypeOK, userVars
  <1>7. SlotsInv'
    <2>0. /\ seq = Len(included) /\ Len(included) \in Nat /\ Len(mempool) \in Nat
          /\ \A i \in 1..Len(included) : included[i].seq = i - 1
          /\ \A i \in 1..Len(mempool) : mempool[i].seq = seq + i - 1
      BY <1>1 DEF IInv, SlotsInv
    <2>1. seq' = Len(included')
      BY <2>0, <1>2, <1>3, Zenon
    <2>2. mempool[1].seq = seq
      BY <2>0, <1>1, <1>4
    <2>3. ASSUME NEW i \in 1..Len(included') PROVE included'[i].seq = i - 1
      <3>1. CASE i \in 1..Len(included)
        BY <3>1, <2>0, <1>3, Zenon
      <3>2. CASE i = Len(included) + 1
        BY <3>2, <2>0, <2>2, <1>3
      <3> QED
        BY <3>1, <3>2, <2>0, <1>3
    <2>4. ASSUME NEW i \in 1..Len(mempool') PROVE mempool'[i].seq = seq' + i - 1
      <3>1. i + 1 \in 1..Len(mempool) /\ mempool'[i] = mempool[i + 1]
        BY <2>0, <1>4
      <3>2. mempool[i + 1].seq = seq + (i + 1) - 1
        BY <3>1, <2>0, Zenon
      <3> QED
        BY <3>1, <3>2, <1>1, <1>2
    <2> QED
      BY <2>1, <2>3, <2>4, Zenon DEF SlotsInv
  <1>8. Txs' \subseteq Txs
    <2>1. \A i \in 1..Len(included') : included'[i] \in Txs
      BY <1>1, <1>3, <1>4 DEF Txs
    <2>2. \A i \in 1..Len(mempool') : mempool'[i] \in Txs
      BY <1>1, <1>4 DEF Txs
    <2> QED
      BY <2>1, <2>2, Zenon DEF Txs
  <1>9. SignedInv'
    BY <1>8, Zenon DEF IInv, SignedInv, Commit
  <1> QED
    BY <1>6, <1>7, <1>9, Zenon DEF IInv

\* The node takes a transaction: it gets the next slot, and agrees with what
\* its caller's earlier attempts at the same call signed.
LEMMA AcceptedStep == ASSUME NEW c \in Clients, IInv, Accepted(c) PROVE IInv'
  <1> DEFINE tx == SignedTx(c)
  <1>1. /\ mempool \in Seq(Tx) /\ included \in Seq(Tx) /\ seq \in Nat
        /\ op \in [Clients -> Ops] /\ sn \in [Clients -> Int]
    BY Zenon DEF IInv, TypeOK
  <1>2. tx \in Tx
    BY SignedTxType, Zenon DEF IInv
  <1>3. /\ mempool' = Append(mempool, tx) /\ sn[c] = seq + Len(mempool)
        /\ included' = included /\ seq' = seq /\ op' = op /\ flags' = flags
        /\ pc[c] = "post" /\ pc' = [pc EXCEPT ![c] = pc'[c]] /\ pc'[c] \in {"idle", "failed"}
    BY Zenon DEF Accepted, CheckSeq, Returns, IInv, TypeOK
  <1>4. /\ Len(mempool') = Len(mempool) + 1
        /\ \A i \in 1..Len(mempool) : mempool'[i] = mempool[i]
        /\ mempool'[Len(mempool) + 1] = tx
    BY <1>1, <1>2, <1>3
  <1>5. /\ tx.seq = sn[c] /\ tx.id = sn[c] + 1 /\ tx.by = c
        /\ tx.n = op[c].n /\ tx.opt = op[c].opt
    BY Zenon DEF SignedTx, OrderID
  <1>6. TypeOK'
    <2>1. mempool' \in Seq(Tx)
      BY <1>1, <1>2, <1>3
    <2>2. cursor' \in [Clients -> Int]
      BY <1>1, SMTT(30) DEF Accepted, IInv, TypeOK, Ops
    <2>3. fresh' \in [Clients -> BOOLEAN]
      BY Zenon DEF Accepted, IInv, TypeOK
    <2>4. alone' \in [Clients -> BOOLEAN]
      BY Zenon DEF Accepted
    <2>5. PICK where \in {"idle", "failed"} : Returns(c, where)
      BY Zenon DEF Accepted
    <2> QED
      BY <2>1, <2>2, <2>3, <2>4, <2>5, <1>1, <1>3, ReturnsType DEF IInv, TypeOK
  <1>7. SlotsInv'
    <2> HIDE DEF tx
    <2>1. ASSUME NEW i \in 1..Len(mempool') PROVE mempool'[i].seq = seq' + i - 1
      <3>1. CASE i = Len(mempool) + 1
        BY <1>1, <1>3, <1>4, <1>5, <3>1
      <3>2. CASE i \in 1..Len(mempool)
        BY <1>3, <1>4, <3>2, Zenon DEF IInv, SlotsInv
      <3> QED
        BY <1>1, <1>4, <3>1, <3>2
    <2> QED
      BY <2>1, <1>3, Zenon DEF IInv, SlotsInv
  <1>8. Txs' \subseteq Txs \cup {tx}
    <2>1. \A i \in 1..Len(mempool') : mempool'[i] \in Txs \cup {tx}
      BY <1>1, <1>4 DEF Txs
    <2>2. \A i \in 1..Len(included') : included'[i] \in Txs \cup {tx}
      BY <1>3, Zenon DEF Txs
    <2> QED
      BY <2>1, <2>2, Zenon DEF Txs
  <1>9. SignedInv'
    <2> HIDE DEF tx
    <2>1. \A d \in Clients : pc'[d] = "post" /\ op'[d].opt # -1 => sn'[d] = op'[d].opt
      BY <1>3, ZenonT(30) DEF Accepted, Returns, IInv, TypeOK, SignedInv
    <2>2. \A t \in Txs \cup {tx} : /\ t.id = t.seq + 1
                                   /\ t.opt # -1 => t.seq = t.opt
                                   /\ t.n <= op[t.by].n
                                   /\ t.n = op[t.by].n => t.opt = op[t.by].opt
      BY <1>1, <1>3, <1>5 DEF IInv, SignedInv, Ops
    <2>3. \A t, u \in Txs \cup {tx} : t.by = u.by /\ t.n = u.n => t.opt = u.opt
      <3>1. \A t \in Txs \cup {tx} : t.by = c /\ t.n = op[c].n => t.opt = op[c].opt
        BY <2>2, Zenon
      <3> QED
        BY <3>1, <1>5 DEF IInv, SignedInv
    <2> QED
      BY <2>1, <2>2, <2>3, <1>3, <1>8, Zenon DEF SignedInv
  <1> QED
    BY <1>6, <1>7, <1>9, Zenon DEF IInv

\* Every step keeps the invariant.
LEMMA StepIInv == IInv /\ [Next]_vars => IInv'
  <1> SUFFICES ASSUME IInv, [Next]_vars PROVE IInv'
    OBVIOUS
  <1> USE DEF chainVars, userVars
  <1>1. CASE Commit
    BY <1>1, CommitStep, Zenon
  <1>2. ASSUME NEW c \in Clients, User(c) PROVE IInv'
    <2>1. CASE UserReadsAccount(c)
      <3>1. TypeOK'
        <4>1. cursor' \in [Clients -> Int]
          BY <2>1 DEF UserReadsAccount, IInv, TypeOK
        <4>2. fresh' \in [Clients -> BOOLEAN] /\ alone' \in [Clients -> BOOLEAN]
          BY <2>1, Zenon DEF UserReadsAccount, IInv, TypeOK
        <4> QED
          BY <2>1, <4>1, <4>2, Zenon DEF UserReadsAccount, IInv, TypeOK
      <3> QED
        BY <2>1, <3>1, QuietStep DEF UserReadsAccount, IInv, TypeOK, Ops, SignedInv
    <2>2. ASSUME NEW kind \in {"order", "add"}, NEW f \in SUBSET Flags, NEW opt \in Int,
                 UserCalls(c, kind, f, opt)
          PROVE  IInv'
      <3> DEFINE new == [n |-> op[c].n + 1, kind |-> kind, flag |-> f, opt |-> opt,
                         fresh |-> fresh[c] /\ opt # -1]
      <3>1. op' = [op EXCEPT ![c] = new] /\ op \in [Clients -> Ops]
        BY <2>2, Zenon DEF UserCalls, IInv, TypeOK
      <3>2. new \in Ops
        <4>1. (fresh[c] /\ opt # -1) \in BOOLEAN
          BY Zenon
        <4> QED
          BY <3>1, <4>1 DEF Ops
      <3>3. TypeOK'
        BY <2>2, <3>1, <3>2 DEF UserCalls, IInv, TypeOK
      <3>4. \A d \in Clients : op[d].n \in Nat
        BY <3>1, Zenon DEF Ops
      <3>5. \A d \in Clients : /\ op'[d].n >= op[d].n
                               /\ op'[d].n = op[d].n => op'[d].opt = op[d].opt
        BY <3>1, <3>4
      <3>6. \A d \in Clients : pc'[d] = "post" /\ op'[d].opt # -1 => sn'[d] = op'[d].opt
        BY <2>2, Zenon DEF UserCalls, IInv, TypeOK, SignedInv
      <3>7. UNCHANGED <<seq, mempool, included>>
        BY <2>2, Zenon DEF UserCalls
      <3> QED
        BY <3>3, <3>5, <3>6, <3>7, QuietStep, Zenon
    <2>3. CASE UserRetries(c)
      <3>1. op[c].kind \in {"order", "add"}
        BY Zenon DEF IInv, TypeOK, Ops
      <3>2. TypeOK'
        BY <2>3, <3>1, Zenon DEF UserRetries, IInv, TypeOK
      <3>3. \A d \in Clients : op'[d] = op[d] /\ op[d].n \in Nat
        BY <2>3, Zenon DEF UserRetries, IInv, TypeOK, Ops
      <3>4. \A d \in Clients : pc'[d] = "post" => pc[d] = "post" /\ sn'[d] = sn[d]
        BY <2>3, <3>1, Zenon DEF UserRetries, IInv, TypeOK
      <3>5. UNCHANGED <<seq, mempool, included>>
        BY <2>3, Zenon DEF UserRetries
      <3> QED
        BY <3>2, <3>3, <3>4, <3>5, QuietStep DEF IInv, SignedInv
    <2>4. CASE UserGivesUp(c)
      <3>1. TypeOK'
        BY <2>4 DEF UserGivesUp, IInv, TypeOK
      <3>2. \A d \in Clients : op'[d] = op[d] /\ op[d].n \in Nat
        BY <2>4, Zenon DEF UserGivesUp, IInv, TypeOK, Ops
      <3>3. \A d \in Clients : pc'[d] = "post" => pc[d] = "post" /\ sn'[d] = sn[d]
        BY <2>4, Zenon DEF UserGivesUp, IInv, TypeOK
      <3>4. UNCHANGED <<seq, mempool, included>>
        BY <2>4, Zenon DEF UserGivesUp
      <3> QED
        BY <3>1, <3>2, <3>3, <3>4, QuietStep DEF IInv, SignedInv
    <2>5. cursor[c] \in Int
      BY Zenon DEF IInv, TypeOK
    <2>6. {} \in SUBSET Flags /\ \A f \in Flags : {f} \in SUBSET Flags
      OBVIOUS
    <2>7. ASSUME NEW opt \in {-1, cursor[c]},
                 \/ UserCalls(c, "order", {}, opt)
                 \/ \E f \in Flags : UserCalls(c, "add", {f}, opt)
          PROVE  IInv'
      <3>1. opt \in Int
        BY <2>5
      <3>2. CASE UserCalls(c, "order", {}, opt)
        BY <2>2, <2>6, <3>1, <3>2, Zenon
      <3>3. ASSUME NEW f \in Flags, UserCalls(c, "add", {f}, opt) PROVE IInv'
        BY <2>2, <2>6, <3>1, <3>3, Zenon
      <3> QED
        BY <2>7, <3>2, <3>3, Zenon
    <2> QED
      BY <1>2, <2>1, <2>3, <2>4, <2>7, Zenon DEF User
  <1>3. ASSUME NEW c \in Clients, Client(c) PROVE IInv'
    <2>1. CASE AddAccountFlags(c)
      <3>1. TypeOK'
        BY <2>1, Zenon DEF AddAccountFlags, IInv, TypeOK, Ops
      <3>2. \A d \in Clients : op'[d] = op[d] /\ op[d].n \in Nat
        BY <2>1, Zenon DEF AddAccountFlags, IInv, TypeOK, Ops
      <3>3. \A d \in Clients : pc'[d] = "post" => pc[d] = "post" /\ sn'[d] = sn[d]
        BY <2>1, ZenonT(30) DEF AddAccountFlags, IInv, TypeOK
      <3> QED
        BY <2>1, <3>1, <3>2, <3>3, QuietStep DEF AddAccountFlags, chainVars, IInv, SignedInv
    <2>2. CASE CreateOrder(c)
      <3>1. TypeOK'
        BY <2>2, Zenon DEF CreateOrder, IInv, TypeOK
      <3> QED
        BY <2>2, <3>1, QuietStep, SMTT(30) DEF CreateOrder, IInv, TypeOK, Ops, SignedInv
    <2>3. CASE BroadcastMsg(c)
      <3>1. TypeOK'
        BY <2>3 DEF BroadcastMsg, SequenceOf, IInv, TypeOK, Ops
      <3> QED
        BY <2>3, <3>1, QuietStep, SMTT(30) DEF BroadcastMsg, SequenceOf, IInv, TypeOK, Ops, SignedInv
    <2>4. CASE BroadcastFails(c) \/ PostLost(c) \/ RejectReturned(c)
      <3>1. Returns(c, "failed") /\ UNCHANGED <<chainVars, op, userVars>>
        BY <2>4, Zenon DEF BroadcastFails, PostLost, RejectReturned
      <3>2. TypeOK' /\ pc'[c] = "failed"
        BY <3>1, ReturnsType, Zenon DEF IInv, TypeOK
      <3>3. \A d \in Clients : d # c => pc'[d] = pc[d] /\ sn'[d] = sn[d]
        BY <3>1, Zenon DEF Returns, IInv, TypeOK
      <3>4. \A d \in Clients : op'[d] = op[d] /\ op[d].n \in Nat
        BY <3>1, Zenon DEF IInv, TypeOK, Ops
      <3> QED
        BY <3>1, <3>2, <3>3, <3>4, QuietStep DEF IInv, SignedInv
    <2>5. CASE Accepted(c)
      BY <2>5, AcceptedStep, Zenon
    <2>6. CASE Rejected(c)
      <3>1. TypeOK'
        BY <2>6, Zenon DEF Rejected, IInv, TypeOK
      <3> QED
        BY <2>6, <3>1, QuietStep DEF Rejected, IInv, TypeOK, Ops, SignedInv
    <2> QED
      BY <1>3, <2>1, <2>2, <2>3, <2>4, <2>5, <2>6, Zenon DEF Client
  <1>4. CASE UNCHANGED vars
    <2>1. TypeOK'
      BY <1>4, Zenon DEF vars, IInv, TypeOK
    <2> QED
      BY <1>4, <2>1, QuietStep DEF vars, IInv, TypeOK, Ops, SignedInv
  <1> QED
    BY <1>1, <1>2, <1>3, <1>4, Zenon DEF Next

\* The invariant holds in every reachable state.
THEOREM BroadcastInvariant == Spec => []IInv
  BY InitIInv, StepIInv, PTL DEF Spec

\* Every included order carries the id that the chain expects.
THEOREM OrderIdMatchesHolds == Spec => []OrderIdMatches
  <1>1. ASSUME IInv, NEW i \in 1..Len(included) PROVE included[i].id = i
    <2>1. included[i].seq = i - 1
      BY <1>1, Zenon DEF IInv, SlotsInv
    <2>2. included[i] \in Txs
      BY Zenon DEF Txs
    <2>3. i \in Int
      BY <1>1 DEF IInv, TypeOK
    <2> QED
      BY <1>1, <2>1, <2>2, <2>3 DEF IInv, SignedInv
  <1>2. IInv => OrderIdMatches
    BY <1>1, Zenon DEF OrderIdMatches
  <1> QED
    BY <1>2, BroadcastInvariant, PTL

\* A call repeated with its explicit sequence is included at most once.
THEOREM ExplicitRetryOnceHolds == Spec => []ExplicitRetryOnce
  <1>1. ASSUME IInv, NEW i \in 1..Len(included), NEW j \in 1..Len(included),
               included[i].by = included[j].by, included[i].n = included[j].n,
               included[i].opt # -1
        PROVE  i = j
    <2>1. included[i].seq = i - 1 /\ included[j].seq = j - 1
      BY <1>1, Zenon DEF IInv, SlotsInv
    <2>2. included[i] \in Txs /\ included[j] \in Txs
      BY Zenon DEF Txs
    <2>3. included[i].opt = included[j].opt
      BY <1>1, <2>2, Zenon DEF IInv, SignedInv
    <2>4. included[i].seq = included[j].seq
      BY <1>1, <2>2, <2>3, Zenon DEF IInv, SignedInv
    <2>5. i \in Int /\ j \in Int
      BY <1>1 DEF IInv, TypeOK
    <2> QED
      BY <2>1, <2>4, <2>5
  <1>2. IInv => ExplicitRetryOnce
    BY <1>1, Zenon DEF ExplicitRetryOnce
  <1> QED
    BY <1>2, BroadcastInvariant, PTL

-----------------------------------------------------------------------------
(* Callers that count the sequence themselves.                             *)

\* A step after which no caller is newly alone, with the chain's next sequence,
\* the cursors and the calls as they were, keeps PipelineInv unless a caller is
\* rejected or begins a call.
LEMMA PipelineQuiet ==
  ASSUME IInv, PipelineInv, UNCHANGED <<seq, mempool, op, cursor, alone>>, NEW c \in Clients,
         \A d \in Clients : d # c => pc'[d] = pc[d],
         pc'[c] # "rejected", pc[c] # "idle"
  PROVE  PipelineInv'
  BY Zenon DEF PipelineInv, CheckSeq

\* Every step keeps PipelineInv.
LEMMA PipelineStep == IInv /\ PipelineInv /\ [Next]_vars => PipelineInv'
  <1> SUFFICES ASSUME IInv, PipelineInv, [Next]_vars PROVE PipelineInv'
    OBVIOUS
  <1> USE DEF chainVars, userVars
  <1>1. /\ mempool \in Seq(Tx) /\ seq \in Nat /\ op \in [Clients -> Ops]
        /\ pc \in [Clients -> {"idle", "order", "add", "broadcast", "post", "rejected", "failed"}]
        /\ cursor \in [Clients -> Int] /\ DOMAIN alone = Clients /\ DOMAIN sn = Clients
    BY Zenon DEF IInv, TypeOK
  <1>2. CASE Commit
    <2>1. Len(Tail(mempool)) = Len(mempool) - 1
      BY <1>1, <1>2 DEF Commit
    <2>2. CheckSeq' = CheckSeq
      BY <1>1, <1>2, <2>1 DEF Commit, CheckSeq
    <2> QED
      BY <1>2, <2>2, Zenon DEF Commit, PipelineInv
  <1>3. ASSUME NEW c \in Clients, UserReadsAccount(c) PROVE PipelineInv'
    <2>1. mempool = <<>> => CheckSeq = seq
      BY <1>1 DEF CheckSeq
    <2>2. CheckSeq' = CheckSeq
      BY <1>3, Zenon DEF UserReadsAccount, CheckSeq
    <2>3. alone'[c] => mempool = <<>>
      BY <1>1, <1>3, Zenon DEF UserReadsAccount
    <2> QED
      BY <1>1, <1>3, <2>1, <2>2, <2>3, Zenon DEF UserReadsAccount, PipelineInv
  <1>4. ASSUME NEW c \in Clients, NEW kind \in {"order", "add"}, NEW f, NEW opt \in {-1, cursor[c]},
               UserCalls(c, kind, f, opt)
        PROVE  PipelineInv'
    <2>1. CheckSeq' = CheckSeq
      BY <1>4, Zenon DEF UserCalls, CheckSeq
    <2>2. /\ pc'[c] = kind /\ op'[c].opt = opt
          /\ \A d \in Clients : d # c => pc'[d] = pc[d] /\ op'[d] = op[d]
      BY <1>1, <1>4, Zenon DEF UserCalls
    <2> QED
      BY <1>4, <2>1, <2>2, ZenonT(30) DEF UserCalls, PipelineInv
  <1>5. ASSUME NEW c \in Clients, UserRetries(c) \/ AddAccountFlags(c) \/ CreateOrder(c) \/ BroadcastMsg(c)
        PROVE  PipelineInv'
    <2>1. op[c] \in Ops
      BY <1>1, Zenon
    <2>2. op[c].kind # "rejected"
      BY <2>1, Zenon DEF Ops
    <2> QED
      BY <1>1, <1>5, <2>2, PipelineQuiet, Zenon DEF UserRetries, AddAccountFlags, CreateOrder, BroadcastMsg
  <1>6. ASSUME NEW c \in Clients, UserGivesUp(c) PROVE PipelineInv'
    BY <1>1, <1>6, Zenon DEF UserGivesUp, PipelineInv, CheckSeq
  <1>7. ASSUME NEW c \in Clients, BroadcastFails(c) \/ PostLost(c) \/ RejectReturned(c)
        PROVE  PipelineInv'
    BY <1>1, <1>7, PipelineQuiet, Zenon DEF BroadcastFails, PostLost, RejectReturned, Returns
  <1>8. ASSUME NEW c \in Clients, Rejected(c) PROVE PipelineInv'
    <2>1. op[c].opt # -1 => op[c].opt # CheckSeq
      BY <1>8, Zenon DEF Rejected, IInv, SignedInv
    <2>2. alone[c] => op[c].opt = -1
      BY <1>8, <2>1, Zenon DEF Rejected, PipelineInv
    <2>3. /\ pc'[c] = "rejected" /\ \A d \in Clients : d # c => pc'[d] = pc[d]
          /\ UNCHANGED <<seq, mempool, op, cursor, alone>>
      BY <1>1, <1>8, Zenon DEF Rejected
    <2> QED
      BY <2>2, <2>3, Zenon DEF PipelineInv, CheckSeq
  <1>9. ASSUME NEW c \in Clients, Accepted(c) PROVE PipelineInv'
    <2>1. \A d \in Clients : alone'[d] => d = c /\ alone[c] /\ Returns(c, "idle")
              /\ cursor' = [cursor EXCEPT ![c] = IF op[c].opt = -1 THEN -1 ELSE op[c].opt + 1]
      BY <1>9, Zenon DEF Accepted
    <2>2. Len(mempool') = Len(mempool) + 1 /\ seq' = seq /\ Len(mempool) \in Nat
      BY <1>1, <1>9 DEF Accepted
    <2>3. CheckSeq' = CheckSeq + 1
      BY <1>1, <2>2 DEF CheckSeq
    <2>4. pc[c] = "post"
      BY <1>9, Zenon DEF Accepted
    <2>5. Returns(c, "idle") => pc'[c] = "idle"
      BY <1>1, Zenon DEF Returns
    <2> QED
      BY <1>1, <2>1, <2>3, <2>4, <2>5, ZenonT(30) DEF PipelineInv
  <1>10. CASE UNCHANGED vars
    BY <1>10, Zenon DEF vars, PipelineInv, CheckSeq
  <1>11. ASSUME NEW c \in Clients, User(c) \/ Client(c) PROVE PipelineInv'
    <2>1. CASE User(c)
      <3>1. ASSUME NEW opt \in {-1, cursor[c]},
                   \/ UserCalls(c, "order", {}, opt)
                   \/ \E f \in Flags : UserCalls(c, "add", {f}, opt)
            PROVE  PipelineInv'
        <4>1. CASE UserCalls(c, "order", {}, opt)
          BY <4>1, <1>4, Zenon
        <4>2. ASSUME NEW f \in Flags, UserCalls(c, "add", {f}, opt) PROVE PipelineInv'
          BY <4>2, <1>4, Zenon
        <4> QED
          BY <3>1, <4>1, <4>2, Zenon
      <3> QED
        BY <2>1, <3>1, <1>3, <1>5, <1>6, Zenon DEF User
    <2>2. CASE Client(c)
      BY <2>2, <1>5, <1>7, <1>8, <1>9, Zenon DEF Client
    <2> QED
      BY <1>11, <2>1, <2>2, Zenon
  <1> QED
    BY <1>2, <1>10, <1>11, Zenon DEF Next

\* A caller that read the account with nothing pending and counts on is not
\* refused, unless another user's transaction got in or an answer was lost.
THEOREM PipelineAcceptedHolds == Spec => []PipelineAccepted
  <1>1. Init => PipelineInv
    BY Zenon DEF Init, PipelineInv
  <1>2. PipelineInv => PipelineAccepted
    BY Zenon DEF PipelineInv, PipelineAccepted
  <1> QED
    BY <1>1, <1>2, PipelineStep, BroadcastInvariant, PTL DEF Spec

-----------------------------------------------------------------------------
(* Flags that were read before another change.                             *)

\* A step that leaves the chain, the cursors, the freshness and the flags that
\* were read alone, and brings no caller into broadcastMsg, keeps FreshInv.
LEMMA FreshQuiet ==
  ASSUME FreshInv, UNCHANGED <<seq, flags, mempool, op>>,
         \A d \in Clients : fresh'[d] => fresh[d] /\ cursor'[d] \in {-1, cursor[d]},
         seq \in Nat,
         \A d \in Clients : pc'[d] = "order" => pc[d] = "order" \/ op[d].kind = "order",
         \A d \in Clients : pc'[d] \in {"broadcast", "post"} /\ op[d].kind = "add" =>
                              pc[d] \in {"broadcast", "post"} /\ val'[d] = val[d]
  PROVE  FreshInv'
  BY DEF FreshInv

\* Every step keeps FreshInv.
LEMMA FreshStep == IInv /\ IInv' /\ FreshInv /\ [Next]_vars => FreshInv'
  <1> SUFFICES ASSUME IInv, IInv', FreshInv, [Next]_vars PROVE FreshInv'
    OBVIOUS
  <1> USE DEF chainVars, userVars
  <1>1. /\ mempool \in Seq(Tx) /\ seq \in Nat /\ op \in [Clients -> Ops]
        /\ pc \in [Clients -> {"idle", "order", "add", "broadcast", "post", "rejected", "failed"}]
        /\ cursor \in [Clients -> Int] /\ DOMAIN val = Clients /\ DOMAIN fresh = Clients
    BY Zenon DEF IInv, TypeOK
  <1>2. CASE Commit
    <2>1. /\ Len(mempool') = Len(mempool) - 1 /\ Len(mempool) \in Nat
          /\ \A i \in 1..Len(mempool') : i + 1 \in 1..Len(mempool) /\ mempool'[i] = mempool[i + 1]
      BY <1>1, <1>2 DEF Commit
    <2>2. seq' = seq + 1 /\ UNCHANGED <<pc, op, val, fresh, cursor>>
      BY <1>2, Zenon DEF Commit
    <2>3. \A d \in Clients : cursor[d] \in Int /\ op[d].opt \in Int
      BY <1>1, Zenon DEF Ops
    <2>4. ASSUME NEW i \in 1..Len(mempool) PROVE mempool[i].opt \in Int
      <3>1. mempool[i] \in Tx
        BY <1>1
      <3> QED
        BY <3>1, Zenon DEF Tx
    <2>5. \A i \in 1..Len(mempool') : mempool'[i].fresh =>
            mempool'[i].opt # -1 /\ mempool'[i].opt <= seq /\ mempool'[i].opt # seq'
      BY <1>1, <2>1, <2>2, <2>4 DEF FreshInv
    <2>6. \A d \in Clients :
            /\ fresh[d] => cursor[d] <= seq'
            /\ op[d].fresh => op[d].opt # -1 /\ op[d].opt <= seq' /\ op[d].opt # seq'
      BY <1>1, <2>2, <2>3 DEF FreshInv
    <2>7. \A i \in 1..Len(mempool') : mempool'[i].opt \in Int
      BY <2>1, <2>4, Zenon
    <2> QED
      BY <1>1, <2>2, <2>5, <2>6, <2>7 DEF FreshInv
  <1>3. ASSUME NEW c \in Clients, UserReadsAccount(c) PROVE FreshInv'
    BY <1>1, <1>3 DEF UserReadsAccount, FreshInv
  <1>4. ASSUME NEW c \in Clients, NEW kind \in {"order", "add"}, NEW f, NEW opt \in {-1, cursor[c]},
               UserCalls(c, kind, f, opt)
        PROVE  FreshInv'
    <2>1. /\ op'[c].opt = opt /\ op'[c].kind = kind /\ (op'[c].fresh => fresh[c] /\ opt # -1)
          /\ \A d \in Clients : d # c => pc'[d] = pc[d] /\ op'[d] = op[d]
          /\ pc'[c] = kind /\ UNCHANGED <<seq, flags, mempool, val, fresh, cursor>>
      <3> DEFINE b == fresh[c] /\ opt # -1
      <3>1. op' = [op EXCEPT ![c] = [n |-> op[c].n + 1, kind |-> kind, flag |-> f, opt |-> opt, fresh |-> b]]
        BY <1>4, Zenon DEF UserCalls
      <3>2. b => fresh[c] /\ opt # -1
        OBVIOUS
      <3> HIDE DEF b
      <3>3. op'[c].opt = opt /\ op'[c].kind = kind /\ op'[c].fresh = b
        BY <1>1, <3>1, Zenon
      <3>4. op'[c].fresh => fresh[c] /\ opt # -1
        BY <3>2, <3>3, Zenon
      <3>5. \A d \in Clients : d # c => op'[d] = op[d]
        BY <1>1, <3>1, Zenon
      <3>6. /\ \A d \in Clients : d # c => pc'[d] = pc[d]
            /\ pc'[c] = kind /\ UNCHANGED <<seq, flags, mempool, val, fresh, cursor>>
        BY <1>1, <1>4, Zenon DEF UserCalls
      <3> QED
        BY <3>3, <3>4, <3>5, <3>6, Zenon
    <2> QED
      BY <1>1, <2>1, ZenonT(30) DEF FreshInv
  <1>5. ASSUME NEW c \in Clients, UserRetries(c) \/ CreateOrder(c) PROVE FreshInv'
    <2>1. op[c] \in Ops
      BY <1>1, Zenon
    <2>2. op[c].kind \in {"order", "add"}
      BY <2>1, Zenon DEF Ops
    <2>3. CASE UserRetries(c)
      BY <1>1, <2>2, <2>3, FreshQuiet, Zenon DEF UserRetries
    <2>4. CASE CreateOrder(c)
      <3>1. op[c].kind = "order"
        BY <2>4, Zenon DEF CreateOrder, FreshInv
      <3> QED
        BY <1>1, <2>4, <3>1, FreshQuiet, Zenon DEF CreateOrder
    <2> QED
      BY <1>5, <2>3, <2>4, Zenon
  <1>6. ASSUME NEW c \in Clients, UserGivesUp(c) PROVE FreshInv'
    BY <1>1, <1>6, FreshQuiet, Zenon DEF UserGivesUp
  <1>7. ASSUME NEW c \in Clients, AddAccountFlags(c) PROVE FreshInv'
    <2>1. /\ pc'[c] = "broadcast" /\ flags \subseteq val'[c]
          /\ \A d \in Clients : d # c => pc'[d] = pc[d] /\ val'[d] = val[d]
          /\ UNCHANGED <<seq, flags, mempool, op, fresh, cursor>>
      BY <1>1, <1>7, Zenon DEF AddAccountFlags
    <2> QED
      BY <2>1, Zenon DEF FreshInv
  <1>8. ASSUME NEW c \in Clients, BroadcastMsg(c) \/ Rejected(c) PROVE FreshInv'
    BY <1>1, <1>8, FreshQuiet, Zenon DEF BroadcastMsg, Rejected
  <1>9. ASSUME NEW c \in Clients, BroadcastFails(c) \/ PostLost(c) \/ RejectReturned(c)
        PROVE  FreshInv'
    BY <1>1, <1>9, FreshQuiet, Zenon DEF BroadcastFails, PostLost, RejectReturned, Returns
  <1>10. ASSUME NEW c \in Clients, Accepted(c) PROVE FreshInv'
    <2>1. /\ mempool' = Append(mempool, SignedTx(c)) /\ Len(mempool) \in Nat
          /\ pc[c] = "post" /\ pc'[c] \in {"idle", "failed"}
          /\ \A d \in Clients : d # c => pc'[d] = pc[d] /\ val'[d] = val[d]
          /\ UNCHANGED <<seq, flags, op>>
      BY <1>1, <1>10 DEF Accepted, Returns
    <2>2. \A d \in Clients : fresh'[d] => d # c /\ fresh[d] /\ cursor'[d] = cursor[d]
      BY <1>1, <1>10, Zenon DEF Accepted
    <2>3. SignedTx(c) \in Tx
      BY SignedTxType, Zenon DEF IInv
    <2>4. /\ Len(mempool') = Len(mempool) + 1 /\ mempool'[Len(mempool) + 1] = SignedTx(c)
          /\ \A i \in 1..Len(mempool) : mempool'[i] = mempool[i]
      BY <1>1, <2>1, <2>3
    <2>5. SignedTx(c).fresh =>
            /\ SignedTx(c).opt # -1 /\ SignedTx(c).opt <= seq
            /\ SignedTx(c).kind = "add" /\ SignedTx(c).opt = seq => flags \subseteq SignedTx(c).flags
      BY <2>1, Zenon DEF SignedTx, FreshInv
    <2>6. ASSUME NEW i \in 1..Len(mempool'), mempool'[i].fresh
          PROVE  /\ mempool'[i].opt # -1 /\ mempool'[i].opt <= seq
                 /\ mempool'[i].kind = "add" /\ mempool'[i].opt = seq => flags \subseteq mempool'[i].flags
      <3>1. CASE i = Len(mempool) + 1
        BY <2>4, <2>5, <2>6, <3>1, Zenon
      <3>2. CASE i \in 1..Len(mempool)
        BY <2>4, <2>6, <3>2, Zenon DEF FreshInv
      <3> QED
        BY <2>1, <2>4, <3>1, <3>2
    <2> QED
      BY <2>1, <2>2, <2>6, ZenonT(30) DEF FreshInv
  <1>11. CASE UNCHANGED vars
    BY <1>11, Zenon DEF vars, FreshInv
  <1>12. ASSUME NEW c \in Clients, User(c) \/ Client(c) PROVE FreshInv'
    <2>1. CASE User(c)
      <3>1. ASSUME NEW opt \in {-1, cursor[c]},
                   \/ UserCalls(c, "order", {}, opt)
                   \/ \E f \in Flags : UserCalls(c, "add", {f}, opt)
            PROVE  FreshInv'
        <4>1. CASE UserCalls(c, "order", {}, opt)
          BY <4>1, <1>4, Zenon
        <4>2. ASSUME NEW f \in Flags, UserCalls(c, "add", {f}, opt) PROVE FreshInv'
          BY <4>2, <1>4, Zenon
        <4> QED
          BY <3>1, <4>1, <4>2, Zenon
      <3> QED
        BY <2>1, <3>1, <1>3, <1>5, <1>6, Zenon DEF User
    <2>2. CASE Client(c)
      BY <2>2, <1>5, <1>7, <1>8, <1>9, <1>10, Zenon DEF Client
    <2> QED
      BY <1>12, <2>1, <2>2
  <1> QED
    BY <1>2, <1>11, <1>12, Zenon DEF Next

\* AddAccountFlags with a sequence read before the call never clears a flag that
\* was set in between: had the account moved on, the chain would have refused it.
THEOREM FreshAddKeepsFlagsHolds == Spec => FreshAddKeepsFlags
  <1>1. Init => FreshInv
    BY DEF Init, FreshInv, NoOp
  <1>2. IInv /\ FreshInv /\ [Next]_vars
        => [seq' # seq => LET tx == Head(mempool) IN
                          tx.kind = "add" /\ tx.fresh => flags \subseteq flags']_vars
    <2> SUFFICES ASSUME IInv, FreshInv, Next, seq' # seq, Head(mempool).kind = "add", Head(mempool).fresh
                 PROVE  flags \subseteq flags'
      OBVIOUS
    <2>1. Commit
      BY Zenon DEF Next, User, Client, UserReadsAccount, UserCalls, UserRetries, UserGivesUp, AddAccountFlags,
         CreateOrder, BroadcastMsg, BroadcastFails, Accepted, Rejected, PostLost, RejectReturned, chainVars
    <2>2. mempool \in Seq(Tx) /\ mempool # <<>> /\ seq \in Nat /\ flags' = Head(mempool).flags
      BY <2>1, Zenon DEF Commit, IInv, TypeOK
    <2>3. Head(mempool) = mempool[1] /\ 1 \in 1..Len(mempool)
      BY <2>2
    <2>4. mempool[1].seq = seq
      BY <2>2, <2>3 DEF IInv, SlotsInv
    <2>5. mempool[1] \in Txs
      BY <2>3, Zenon DEF Txs
    <2>6. mempool[1].opt # -1 /\ mempool[1].opt = seq
      BY <2>3, <2>4, <2>5, ZenonT(30) DEF IInv, SignedInv, FreshInv
    <2> QED
      BY <2>2, <2>3, <2>6, Zenon DEF FreshInv
  <1> QED
    BY <1>1, <1>2, FreshStep, BroadcastInvariant, PTL DEF Spec, FreshAddKeepsFlags
=============================================================================
