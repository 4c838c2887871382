---------------------------- MODULE MessageProofs ----------------------------
(***************************************************************************)
(* Proofs about what the messages and answers of ClientCalls hold, for     *)
(* lists of any length and any amounts: an accepted SendMsg moves coins    *)
(* and makes none, proper transfers are accepted, the names of tokens      *)
(* agree between messages and queries, and a balance is what the account   *)
(* holds.                                                                  *)
(***************************************************************************)
EXTENDS ClientCallsProofs, CoinProofs

-----------------------------------------------------------------------------
(* Sending.                                                                *)

\* totalOf, in SendMsg.ValidateBasic, is the last of the sums that it goes through.
LEMMA TotalOfGathers ==
    ASSUME NEW list, Len(list) \in Nat, NEW g, Gathers(list, g)
    PROVE  totalOf(list) = g[Len(list)]
<1> DEFINE Run(h) == h = [i \in 0 .. Len(list) |-> IF i = 0 THEN << >> ELSE Plus(h[i - 1], list[i].coins)]
<1>1. Run(g)
  <2>1. ASSUME NEW i \in 0 .. Len(list) PROVE g[i] = IF i = 0 THEN << >> ELSE Plus(g[i - 1], list[i].coins)
    <3>1. i = 0 \/ i \in 1 .. Len(list)
      OBVIOUS
    <3>2. i \in 1 .. Len(list) => i # 0
      OBVIOUS
    <3> QED BY <3>1, <3>2, ZenonT(30) DEF Gathers
  <2>2. g \in [0 .. Len(list) -> Purse]
    BY ZenonT(30) DEF Gathers
  <2> QED BY <2>1, <2>2, ZenonT(30)
<1>2. Run(CHOOSE h : Run(h))
  BY <1>1, ZenonT(30)
<1>3. totalOf(list) = (CHOOSE h : Run(h))[Len(list)]
  BY Zenon DEF totalOf, foldLeft
<1> DEFINE h == CHOOSE h : Run(h)
           at(i) == IF i = 0 THEN << >> ELSE Plus(h[i - 1], list[i].coins)
<1> HIDE DEF h
<1>4. ASSUME NEW i \in 0 .. Len(list) PROVE h[i] = at(i)
  <2>1. h = [j \in 0 .. Len(list) |-> at(j)]
    BY <1>2, Zenon DEF h
  <2> HIDE DEF at
  <2> QED BY <2>1, Zenon
<1>5. InStep(Len(list), g, h)
  <2>1. 0 \in 0 .. Len(list)
    OBVIOUS
  <2>2. h[0] = g[0]
    BY <2>1, <1>4, ZenonT(30) DEF Gathers
  <2>3. ASSUME NEW i \in 1 .. Len(list), h[i - 1] = g[i - 1] PROVE h[i] = g[i]
    <3>1. i \in 0 .. Len(list) /\ i # 0
      OBVIOUS
    <3>2. h[i] = Plus(h[i - 1], list[i].coins)
      BY <3>1, <1>4, Zenon
    <3> QED BY <2>3, <3>2, Zenon DEF Gathers
  <2> QED BY <2>2, <2>3, ZenonT(30) DEF InStep
<1>6. h[Len(list)] = g[Len(list)]
  <2>1. Len(list) \in 0 .. Len(list)
    OBVIOUS
  <2> QED BY <1>5, <2>1, OneRun, ZenonT(30)
<1> QED BY <1>3, <1>6, Zenon DEF h

\* totalOf adds up what the payments move, in the arithmetic of int64.
LEMMA TotalOfAdds ==
    ASSUME NEW E, NEW list \in Seq(E), Pays(E), NEW d
    PROVE  /\ totalOf(list) \in Purse /\ moved(list, d) \in Int
           /\ Cong(Total(totalOf(list), d), moved(list, d))
<1>0. Len(list) \in Nat
  OBVIOUS
<1>1. PICK g : Gathers(list, g)
  BY GatherExists
<1>2. PICK h : Counts(list, d, h)
  BY CountExists
<1> DEFINE n == Len(list)
           S == {i \in 0 .. n : Cong(Total(g[i], d), h[i])}
<1>3. 0 \in S
  <2>1. Total(g[0], d) = 0 /\ h[0] = 0 /\ Cong(0, 0)
    BY <1>1, <1>2, TotalEmpty, CongSame, SMTT(30) DEF Gathers, Counts
  <2> QED BY <2>1, <1>0, SMTT(30)
<1>4. ASSUME NEW k \in 0 .. n - 1, k \in S PROVE k + 1 \in S
  <2>1. k + 1 \in 1 .. n /\ (k + 1) - 1 = k /\ k + 1 \in 0 .. n /\ k \in 0 .. n
    BY <1>0
  <2>2. list[k + 1] \in E
    BY <2>1
  <2>3. list[k + 1].coins \in Purse
    BY <2>2, ZenonT(30) DEF Pays
  <2>4. g[k + 1] = Plus(g[k], list[k + 1].coins) /\ g[k] \in Purse
    BY <2>1, <1>1, SMTT(30) DEF Gathers
  <2>5. h[k + 1] = h[k] + Total(list[k + 1].coins, d) /\ h[k] \in Int
    BY <2>1, <1>2, SMTT(30) DEF Counts
  <2>6. /\ Total(list[k + 1].coins, d) \in Int /\ Total(g[k], d) \in Int
        /\ Total(Plus(g[k], list[k + 1].coins), d) \in Int
    BY <2>3, <2>4, PlusAdds, TotalInt, SMTT(30) DEF Purse
  <2>7. Cong(Total(g[k + 1], d), Total(g[k], d) + Total(list[k + 1].coins, d))
    BY <2>3, <2>4, PlusAdds, SMTT(30)
  <2>8. Cong(Total(g[k], d) + Total(list[k + 1].coins, d), h[k] + Total(list[k + 1].coins, d))
    <3>1. Cong(Total(g[k], d), h[k]) /\ Cong(Total(list[k + 1].coins, d), Total(list[k + 1].coins, d))
      BY <1>4, <2>6, CongSame, SMTT(30)
    <3> QED BY <3>1, <2>5, <2>6, CongSum, ZenonT(30)
  <2>9. Cong(Total(g[k + 1], d), h[k + 1])
    <3>1. /\ Total(g[k], d) + Total(list[k + 1].coins, d) \in Int
          /\ h[k] + Total(list[k + 1].coins, d) \in Int
      BY <2>5, <2>6
    <3> QED BY <2>4, <2>5, <2>6, <2>7, <2>8, <3>1, CongChain, ZenonT(30)
  <2> QED BY <2>1, <2>9, SMTT(30)
<1> HIDE DEF S
<1>5. n \in 0 .. n
  BY <1>0
<1>6. n \in S
  BY <1>0, <1>3, <1>4, <1>5, UpTo, ZenonT(30)
<1>7. Cong(Total(g[n], d), h[n]) /\ g[n] \in Purse /\ h[n] \in Int
  BY <1>1, <1>2, <1>5, <1>6, SMTT(30) DEF S, Gathers, Counts
<1> QED BY <1>0, <1>1, <1>2, <1>7, TotalOfGathers, MovedCounts, SMTT(30)

\* Inputs and outputs whose sums are equal move the same, in the arithmetic of int64.
LEMMA SendAdds ==
    ASSUME NEW E, NEW ins \in Seq(E), Pays(E), NEW F, NEW outs \in Seq(F), Pays(F),
           totalOf(ins) = totalOf(outs), NEW d
    PROVE  Wrap(moved(ins, d)) = Wrap(moved(outs, d))
<1>1. /\ moved(ins, d) \in Int /\ Cong(Total(totalOf(ins), d), moved(ins, d))
      /\ moved(outs, d) \in Int /\ Cong(Total(totalOf(ins), d), moved(outs, d))
      /\ totalOf(ins) \in Purse
  BY TotalOfAdds
<1>2. Total(totalOf(ins), d) \in Int
  BY <1>1, TotalInt, SMTT(30) DEF Purse
<1>3. Cong(moved(ins, d), moved(outs, d))
  BY <1>1, <1>2, CongFlip, CongChain
<1> QED BY <1>1, <1>3, WrapCong, SMTT(30)

\* The outputs of transfers, and what is known of them.
Outs(E) == {output(t) : t \in E}
SentTo(E, ts, outs) ==
    /\ outs \in Seq(Outs(E)) /\ Len(outs) = Len(ts)
    /\ \A i \in 1 .. Len(ts) : outs[i] = output(ts[i])
    /\ Pays(Outs(E)) /\ fromCoins(ts) = totalOf(outs)

\* fromCoins of SendToken is the sum that ValidateBasic takes of the outputs.
LEMMA FromCoinsIsTotal ==
    ASSUME NEW E, NEW ts \in Seq(E), Pays(E), NEW from, NEW coins
    PROVE  SentTo(E, ts, CreateSendMsg(from, coins, ts).outputs)
<1> DEFINE outs == [i \in DOMAIN ts |-> output(ts[i])]
           F == Outs(E)
<1>0. CreateSendMsg(from, coins, ts).outputs = outs
  BY DEF CreateSendMsg
<1>1. outs \in Seq(F) /\ Len(outs) = Len(ts) /\ Len(ts) \in Nat /\ \A i \in 1 .. Len(ts) : outs[i] = output(ts[i])
  <2>1. DOMAIN ts = 1 .. Len(ts) /\ Len(ts) \in Nat /\ \A i \in 1 .. Len(ts) : ts[i] \in E
    OBVIOUS
  <2> HIDE DEF F
  <2>2. \A i \in 1 .. Len(ts) : output(ts[i]) \in F
    BY <2>1, ZenonT(30) DEF F, Outs
  <2> QED BY <2>1, <2>2
<1>2. Pays(F)
  <2>1. ASSUME NEW t \in E PROVE output(t).coins \in Purse
    <3>1. t.coins \in Purse
      BY DEF Pays
    <3>2. Sort(t.coins) \in Purse
      BY <3>1, SortFits DEF SortsTo
    <3> QED BY <3>2 DEF output
  <2> QED BY <2>1 DEF Pays, Outs
<1> HIDE DEF outs, F
<1>3. PICK g : Gathers(outs, g)
  BY <1>1, <1>2, GatherExists, ZenonT(30)
<1>4. totalOf(outs) = g[Len(ts)]
  BY <1>1, <1>3, TotalOfGathers
<1>5. /\ g[0] = << >> /\ g \in [0 .. Len(ts) -> Purse]
      /\ \A i \in 1 .. Len(ts) : g[i] = Plus(g[i - 1], Sort(ts[i].coins))
  <2>1. \A i \in 1 .. Len(ts) : outs[i].coins = Sort(ts[i].coins)
    <3>1. ASSUME NEW t PROVE output(t).coins = Sort(t.coins)
      BY DEF output
    <3> QED BY <1>1, <3>1, ZenonT(30)
  <2> QED BY <1>1, <1>3, <2>1, ZenonT(30) DEF Gathers
<1> DEFINE Run(h) == h = [i \in 0 .. Len(ts) |-> IF i = 0 THEN << >> ELSE Plus(h[i - 1], Sort(ts[i].coins))]
<1>6. Run(g)
  <2>1. ASSUME NEW i \in 0 .. Len(ts) PROVE g[i] = IF i = 0 THEN << >> ELSE Plus(g[i - 1], Sort(ts[i].coins))
    <3>1. i = 0 \/ i \in 1 .. Len(ts)
      BY <1>1
    <3>2. i \in 1 .. Len(ts) => i # 0
      BY <1>1
    <3> QED BY <1>5, <3>1, <3>2, ZenonT(30)
  <2> QED BY <1>5, <2>1, ZenonT(30)
<1>7. Run(CHOOSE h : Run(h))
  BY <1>6, Zenon
<1>8. fromCoins(ts) = (CHOOSE h : Run(h))[Len(ts)]
  BY Zenon DEF fromCoins, foldLeft
<1> DEFINE h == CHOOSE h : Run(h)
           at(i) == IF i = 0 THEN << >> ELSE Plus(h[i - 1], Sort(ts[i].coins))
<1> HIDE DEF h
<1>9. ASSUME NEW i \in 0 .. Len(ts) PROVE h[i] = at(i)
  <2>1. h = [j \in 0 .. Len(ts) |-> at(j)]
    BY <1>7, Zenon DEF h
  <2> HIDE DEF at
  <2> QED BY <2>1, Zenon
<1>10. InStep(Len(ts), g, h)
  <2>1. 0 \in 0 .. Len(ts)
    BY <1>1
  <2>2. h[0] = g[0]
    BY <2>1, <1>5, <1>9, ZenonT(30)
  <2>3. ASSUME NEW i \in 1 .. Len(ts), h[i - 1] = g[i - 1] PROVE h[i] = g[i]
    <3>1. i \in 0 .. Len(ts) /\ i # 0
      BY <1>1
    <3>2. h[i] = Plus(h[i - 1], Sort(ts[i].coins))
      BY <3>1, <1>9, Zenon
    <3> QED BY <2>3, <3>2, <1>5, ZenonT(30)
  <2> QED BY <2>2, <2>3, ZenonT(30) DEF InStep
<1>11. h[Len(ts)] = g[Len(ts)]
  <2>1. Len(ts) \in 0 .. Len(ts)
    BY <1>1
  <2> QED BY <1>1, <1>10, <2>1, OneRun, ZenonT(30)
<1>12. fromCoins(ts) = totalOf(outs)
  BY <1>4, <1>8, <1>11, ZenonT(30) DEF h
<1> QED BY <1>0, <1>1, <1>2, <1>12, ZenonT(30) DEF F, SentTo

\* The transfers that SendToken takes; a list of coins that it can send: some, positive,
\* every denomination once.
Transfers == Seq([to : Address, coins : Purse])
Payable(coins) == IsPositive(coins) /\ Distinct(coins)

\* Such coins, sorted, are clean.
LEMMA SortClean ==
    ASSUME NEW coins \in Purse, Payable(coins)
    PROVE  Clean(Sort(coins)) /\ Sort(coins) # << >>
<1>1. PICK d : TRUE
  OBVIOUS
<1>2. SortsTo(coins, Len(coins), Sort(coins), d, Total(coins, d))
  BY SortFits
<1>3. /\ Sort(coins) \in Purse /\ Len(Sort(coins)) = Len(coins)
      /\ \A i \in 1 .. Len(coins) : \E j \in 1 .. Len(coins) : Sort(coins)[i] = coins[j]
      /\ Sorted(Sort(coins))
  BY <1>2, Zenon DEF SortsTo, Payable
<1>4. \A i \in 1 .. Len(Sort(coins)) : Sort(coins)[i].amount > 0
  BY <1>3, Zenon DEF Payable, IsPositive
<1>5. Len(coins) # 0
  BY DEF Payable, IsPositive, Purse
<1>6. Sort(coins) # << >>
  <2>1. Len(<< >>) = 0
    OBVIOUS
  <2> QED BY <1>3, <1>5, <2>1, ZenonT(30)
<1> QED BY <1>3, <1>4, <1>6, ZenonT(30) DEF Clean

\* A clean list passes Coins.IsValid and Coins.IsPositive.
LEMMA CleanIsValid ==
    ASSUME NEW s, Clean(s), s # << >>
    PROVE  IsValid(s) /\ IsPositive(s)
<1>0. s \in Purse /\ Len(s) \in Nat
  BY DEF Clean, Purse
<1>1. ASSUME NEW i \in 1 .. Len(s) PROVE s[i].amount # 0
  <2>1. s[i].amount \in Int /\ s[i].amount > 0
    BY <1>0, CoinAt, Zenon DEF Clean
  <2> QED BY <2>1
<1>2. ASSUME NEW i \in 2 .. Len(s) PROVE s[i - 1].denom < s[i].denom /\ s[i].amount # 0
  <2>1. i - 1 \in 1 .. Len(s) /\ i \in 1 .. Len(s) /\ i - 1 < i
    BY <1>0
  <2> QED BY <2>1, <1>1, ZenonT(30) DEF Clean, Sorted
<1>3. Len(s) = 1 => 1 \in 1 .. Len(s)
  OBVIOUS
<1>4. IsValid(s)
  BY <1>1, <1>2, <1>3, ZenonT(30) DEF IsValid
<1>5. IsPositive(s)
  BY Zenon DEF IsPositive, Clean
<1> QED BY <1>4, <1>5

\* SendToken of proper transfers builds a message that SendMsg.ValidateBasic accepts.
LEMMA ProperSend ==
    ASSUME NEW from, from.len > 0, NEW ts \in Transfers, ts # << >>,
           \A i \in 1 .. Len(ts) : ts[i].to.len > 0 /\ Payable(ts[i].coins),
           \A d \in Denoms : moved(ts, d) < Half
    PROVE  SendMsg(CreateSendMsg(from, fromCoins(ts), ts)).valid
<1> DEFINE E == [to : Address, coins : Purse]
           m == CreateSendMsg(from, fromCoins(ts), ts)
           F == Outs(E)
<1>1. ts \in Seq(E) /\ Len(ts) \in Nat /\ Pays(E) /\ Len(ts) # 0
  BY DEF Transfers, Pays
<1>2. /\ m.outputs \in Seq(F) /\ Len(m.outputs) = Len(ts)
      /\ \A i \in 1 .. Len(ts) : m.outputs[i] = output(ts[i])
      /\ Pays(F) /\ fromCoins(ts) = totalOf(m.outputs)
  <2> HIDE DEF E
  <2>1. SentTo(E, ts, CreateSendMsg(from, fromCoins(ts), ts).outputs)
    BY <1>1, FromCoinsIsTotal, ZenonT(30)
  <2> QED BY <2>1, Zenon DEF SentTo
<1>3. m.inputs = <<[address |-> from, coins |-> fromCoins(ts)]>>
  BY DEF CreateSendMsg
<1>4. ASSUME NEW i \in 1 .. Len(ts)
      PROVE  /\ ts[i].coins \in Purse
             /\ m.outputs[i].address = ts[i].to /\ m.outputs[i].coins = Sort(ts[i].coins)
             /\ Clean(m.outputs[i].coins) /\ m.outputs[i].coins # << >>
             /\ \A d : Total(m.outputs[i].coins, d) = Total(ts[i].coins, d)
  <2>1. ts[i].coins \in Purse
    <3> HIDE DEF E
    <3>1. ts[i] \in E
      BY <1>1
    <3> QED BY <1>1, <3>1, ZenonT(30) DEF Pays
  <2>2. ASSUME NEW t PROVE output(t).address = t.to /\ output(t).coins = Sort(t.coins)
    BY DEF output
  <2>3. m.outputs[i].address = ts[i].to /\ m.outputs[i].coins = Sort(ts[i].coins)
    BY <1>2, <2>2, ZenonT(30)
  <2>4. Clean(Sort(ts[i].coins)) /\ Sort(ts[i].coins) # << >>
    BY <2>1, SortClean
  <2>5. ASSUME NEW d PROVE Total(Sort(ts[i].coins), d) = Total(ts[i].coins, d)
    BY <2>1, SortFits, ZenonT(30) DEF SortsTo
  <2> QED BY <2>1, <2>3, <2>4, <2>5, ZenonT(30)
<1> HIDE DEF E, F, m
<1> DEFINE outs == m.outputs
<1> HIDE DEF outs
<1>5. ASSUME NEW d \in Denoms PROVE moved(outs, d) < Half
  <2>1. PICK h : Counts(ts, d, h)
    BY <1>1, CountExists, Zenon
  <2>2. Counts(outs, d, h)
    <3>1. Len(outs) = Len(ts)
      BY <1>2 DEF outs
    <3> QED BY <3>1, <1>4, <2>1, ZenonT(30) DEF Counts, outs
  <2>3. moved(outs, d) = h[Len(ts)] /\ moved(ts, d) = h[Len(ts)]
    BY <1>1, <1>2, <2>1, <2>2, MovedCounts, ZenonT(30) DEF outs
  <2> QED BY <2>3, Zenon
<1>6. fromCoins(ts) \in Purse /\ Clean(fromCoins(ts)) /\ fromCoins(ts) # << >>
  <2>1. PICK g : Gathers(outs, g)
    BY <1>2, GatherExists, Zenon DEF outs
  <2>2. \A i \in 1 .. Len(outs) : Clean(outs[i].coins) /\ outs[i].coins # << >>
    BY <1>2, <1>4, Zenon DEF outs
  <2>3. \A k \in 0 .. Len(outs) : Level(outs, g, k)
    BY <1>2, <1>5, <2>1, <2>2, LevelsRise, ZenonT(30) DEF outs
  <2>4. Len(outs) \in 0 .. Len(outs) /\ Len(outs) # 0
    BY <1>1, <1>2 DEF outs
  <2>5. totalOf(outs) = g[Len(outs)]
    BY <1>1, <1>2, <2>1, TotalOfGathers, ZenonT(30) DEF outs
  <2> QED BY <1>2, <2>3, <2>4, <2>5, ZenonT(30) DEF Level, outs, Clean
<1>7. totalOf(m.inputs) = fromCoins(ts)
  <2> DEFINE one == <<[address |-> from, coins |-> fromCoins(ts)]>>
             g == [i \in 0 .. 1 |-> IF i = 0 THEN << >> ELSE fromCoins(ts)]
  <2>1. Len(one) = 1 /\ one[1].coins = fromCoins(ts) /\ 1 \in Nat /\ 1 - 1 = 0
    OBVIOUS
  <2>2. g[0] = << >> /\ g[1] = fromCoins(ts) /\ g \in [0 .. 1 -> Purse]
    BY <1>6 DEF Purse
  <2>3. Plus(<< >>, fromCoins(ts)) = fromCoins(ts)
    BY <1>6, PlusEmpty
  <2>4. \A i \in 1 .. 1 : i = 1
    OBVIOUS
  <2> HIDE DEF one, g
  <2>5. Gathers(one, g)
    BY <2>1, <2>2, <2>3, <2>4, ZenonT(30) DEF Gathers
  <2>6. totalOf(one) = fromCoins(ts)
    BY <2>1, <2>2, <2>5, TotalOfGathers, ZenonT(30)
  <2> QED BY <1>3, <2>6, ZenonT(30) DEF one
<1>8. \A i \in DOMAIN m.inputs : InputOK(m.inputs[i])
  <2>1. \A i \in DOMAIN m.inputs : m.inputs[i].address = from /\ m.inputs[i].coins = fromCoins(ts)
    BY <1>3
  <2>2. IsValid(fromCoins(ts)) /\ IsPositive(fromCoins(ts))
    BY <1>6, CleanIsValid, Zenon
  <2> QED BY <2>1, <2>2, ZenonT(30) DEF InputOK
<1>9. \A i \in DOMAIN m.outputs : OutputOK(m.outputs[i])
  <2>1. DOMAIN m.outputs = 1 .. Len(ts)
    BY <1>2
  <2> QED BY <1>4, <2>1, CleanIsValid, ZenonT(30) DEF OutputOK
<1>10. m.inputs # << >> /\ m.outputs # << >>
  <2>1. m.inputs # << >>
    BY <1>3
  <2>2. m.outputs # << >>
    BY <1>1, <1>2
  <2> QED BY <2>1, <2>2
<1>11. IsEqual(totalOf(m.inputs), totalOf(m.outputs))
  BY <1>2, <1>7 DEF IsEqual
<1>12. ASSUME NEW v, NEW x, NEW y PROVE Msg(v, x, y).valid = v
  BY DEF Msg
<1> QED BY <1>8, <1>9, <1>10, <1>11, <1>12, ZenonT(30) DEF SendMsg, m

\* What ProperSendAccepted calls proper transfers.
Proper(ts) ==
    /\ ts # <<>>
    /\ \A i \in DOMAIN ts :
         /\ ts[i].to.len > 0 /\ IsPositive(ts[i].coins)
         /\ \A j, k \in DOMAIN ts[i].coins : ts[i].coins[j].denom = ts[i].coins[k].denom => j = k
    /\ \A d \in Denoms : moved(ts, d) < Half

\* Each of them is sent to somebody, and payable.
LEMMA ProperPays ==
    ASSUME NEW ts \in Transfers, Proper(ts), NEW i \in 1 .. Len(ts)
    PROVE  ts[i].to.len > 0 /\ Payable(ts[i].coins)
<1> DEFINE E == [to : Address, coins : Purse]
           coins == ts[i].coins
<1>1. \A e \in E : e.coins \in Purse
  BY Zenon
<1>0. ts \in Seq(E)
  BY Zenon DEF Transfers
<1> HIDE DEF E
<1>2. i \in DOMAIN ts /\ ts[i] \in E
  BY <1>0
<1>3. coins \in Purse
  BY <1>1, <1>2, Zenon
<1>4. DOMAIN coins = 1 .. Len(coins)
  <2> HIDE DEF coins
  <2> QED BY <1>3 DEF Purse
<1> QED BY <1>2, <1>4, ZenonT(30) DEF Proper, Payable, Distinct

\* The message of SendToken with proper transfers is valid.
LEMMA ProperIsValid ==
    ASSUME NEW from, IsAddr(from), NEW ts \in Transfers, Proper(ts)
    PROVE  MsgOf(CreateSendMsg(from, fromCoins(ts), ts)).valid
<1> DEFINE m == CreateSendMsg(from, fromCoins(ts), ts)
<1>1. from.len > 0
  <2>1. from.len = 20
    BY Zenon DEF IsAddr, AddrLen
  <2> QED BY <2>1
<1>2. ASSUME NEW i \in 1 .. Len(ts) PROVE ts[i].to.len > 0 /\ Payable(ts[i].coins)
  BY ProperPays, Zenon
<1>3. ts # <<>> /\ \A d \in Denoms : moved(ts, d) < Half
  BY Zenon DEF Proper
<1>4. SendMsg(m).valid
  BY <1>1, <1>2, <1>3, ProperSend, ZenonT(30)
<1>5. m.t = "SendMsg"
  BY Zenon DEF CreateSendMsg
<1> HIDE DEF m
<1>6. MsgOf(m).valid
  BY <1>4, <1>5, Zenon DEF MsgOf
<1> QED BY <1>6, Zenon DEF m

-----------------------------------------------------------------------------
(* Symbols.                                                                *)

\* What hyphens separate in a symbol; the length that the suffix .B adds.
PartType == [len : Nat, hex : BOOLEAN, m : BOOLEAN]
Dot(s) == IF s.dotB THEN 2 ELSE 0

\* The length of a symbol with one hyphen at most.
LEMMA ShortSymbolLen ==
    ASSUME NEW s, s.parts \in Seq(PartType), Len(s.parts) \in {0, 1}
    PROVE  /\ Len(s.parts) = 0 => SymbolLen(s) = s.len + Dot(s) + 0
           /\ Len(s.parts) = 1 => SymbolLen(s) = s.len + Dot(s) + (0 + 1 + s.parts[1].len)
<1> DEFINE ps == s.parts
           n == Len(ps)
           Run(h) == h = [i \in 0 .. n |-> IF i = 0 THEN 0 ELSE h[i - 1] + 1 + ps[i].len]
           f == [i \in 0 .. n |-> IF i = 0 THEN 0 ELSE 0 + 1 + ps[i].len]
<1>1. \A i \in 0 .. n : i # 0 => i = 1 /\ f[i - 1] = 0
  OBVIOUS
<1>2. Run(f)
  <2>1. ASSUME NEW i \in 0 .. n
        PROVE  (IF i = 0 THEN 0 ELSE 0 + 1 + ps[i].len) = (IF i = 0 THEN 0 ELSE f[i - 1] + 1 + ps[i].len)
    BY <1>1, Zenon
  <2> QED BY <2>1, Zenon
<1>3. Run(CHOOSE h : Run(h))
  BY <1>2, Zenon
<1>4. SymbolLen(s) = s.len + Dot(s) + (CHOOSE h : Run(h))[n]
  BY Zenon DEF SymbolLen, foldLeft, Dot
<1> HIDE DEF f
<1> DEFINE h == CHOOSE h : Run(h)
           at(i) == IF i = 0 THEN 0 ELSE h[i - 1] + 1 + ps[i].len
<1> HIDE DEF h
<1>5. ASSUME NEW i \in 0 .. n PROVE h[i] = at(i)
  <2>1. h = [j \in 0 .. n |-> at(j)]
    BY <1>3, Zenon DEF h
  <2> HIDE DEF at
  <2> QED BY <2>1, Zenon
<1>6. n \in 0 .. n /\ 0 \in 0 .. n /\ (n = 0 \/ n = 1) /\ 1 # 0 /\ 1 - 1 = 0
  OBVIOUS
<1>7. h[0] = 0
  BY <1>5, <1>6, ZenonT(30)
<1>8. n = 1 => h[1] = 0 + 1 + ps[1].len
  <2> SUFFICES ASSUME n = 1 PROVE h[1] = 0 + 1 + ps[1].len
    OBVIOUS
  <2>1. h[1] = h[1 - 1] + 1 + ps[1].len
    BY <1>5, <1>6, ZenonT(30)
  <2> QED BY <2>1, <1>6, <1>7
<1>9. SymbolLen(s) = s.len + Dot(s) + h[n]
  BY <1>4, Zenon DEF h
<1> QED BY <1>7, <1>8, <1>9, ZenonT(30)

\* A symbol and the suffix of its kind are between 3 and 14 characters long.
LEMMA LenBounds ==
    ASSUME NEW x \in 2 .. 8, NEW y \in {0, 2}, NEW w \in {3, 4}, w = 4 => y = 0
    PROVE  x + y + (0 + 1 + w) \in 3 .. 14 /\ x + y + (0 + 1 + w) > 0
<1>1. x \in Int /\ 2 <= x /\ x <= 8
  OBVIOUS
<1>2. y \in Int /\ 0 <= y /\ y <= 2 /\ w \in Int /\ 3 <= w /\ w + y <= 5
  OBVIOUS
<1> QED BY <1>1, <1>2

\* The fields of a symbol.
LEMMA SymbolFields ==
    ASSUME NEW s, IsSymbol(s)
    PROVE  /\ s.native \in BOOLEAN /\ s.dotB \in BOOLEAN /\ s.alnum \in BOOLEAN /\ s.len \in Nat
           /\ s.parts \in Seq(PartType)
           /\ s.native => s.len = 3 /\ ~s.dotB
BY DEF IsSymbol, PartType

\* A symbol that one of the two validators accepts is refused by the other, and is
\* short enough for rpc.ValidateSymbol.
LEMMA SymbolAgrees ==
    ASSUME NEW s, IsSymbol(s), ValidateSymbol(s) \/ ValidateMiniTokenSymbol(s)
    PROVE  /\ ~ (ValidateSymbol(s) /\ ValidateMiniTokenSymbol(s))
           /\ ValidateLength(s)
<1>0. /\ s.native \in BOOLEAN /\ s.dotB \in BOOLEAN /\ s.alnum \in BOOLEAN /\ s.len \in Nat
      /\ s.parts \in Seq(PartType)
      /\ s.native => s.len = 3 /\ ~s.dotB
  BY SymbolFields
<1>p. Len(s.parts) = 1 => s.parts # << >> /\ s.parts[1] \in PartType
  BY <1>0
<1>1. CASE IsNative(s)
  <2>1. s.parts = << >> /\ Len(s.parts) = 0 /\ s.len = 3 /\ ~s.dotB
    BY <1>0, <1>1 DEF IsNative
  <2>2. ~ ValidateMiniTokenSymbol(s)
    BY <2>1 DEF ValidateMiniTokenSymbol
  <2>3. SymbolLen(s) = 3
    <3>1. SymbolLen(s) = s.len + Dot(s) + 0
      BY <1>0, <2>1, ShortSymbolLen, ZenonT(30)
    <3> QED BY <3>1, <2>1 DEF Dot
  <2> QED BY <2>2, <2>3 DEF ValidateLength
<1>2. CASE ~ IsNative(s)
  <2>1. Len(s.parts) = 1 /\ s.len \in 2 .. 8 /\ s.parts[1].len \in {3, 4}
    BY <1>0, <1>2, SMTT(30) DEF ValidateSymbol, ValidateMiniTokenSymbol, splitSuffixedTokenSymbol, hashSuffix
  <2>2. ~ (ValidateSymbol(s) /\ ValidateMiniTokenSymbol(s))
    BY <1>2 DEF ValidateSymbol, ValidateMiniTokenSymbol, hashSuffix
  <2>3. SymbolLen(s) = s.len + Dot(s) + (0 + 1 + s.parts[1].len)
    BY <1>0, <2>1, ShortSymbolLen, ZenonT(30)
  <2>4. Dot(s) \in {0, 2} /\ (s.parts[1].len = 4 => Dot(s) = 0)
    BY <1>0, <1>2 DEF Dot, ValidateSymbol, ValidateMiniTokenSymbol, hashSuffix
  <2>5. SymbolLen(s) \in 3 .. 14
    BY <2>1, <2>3, <2>4, LenBounds, ZenonT(30)
  <2> QED BY <2>2, <2>5, SMTT(30) DEF ValidateLength
<1> QED BY <1>1, <1>2

\* The name that a new token gets passes the validator of its kind.
LEMMA SuffixFits ==
    ASSUME NEW s, IsSymbol(s), NEW len \in {3, 4}, s.len \in 2 .. 8, s.alnum, len = 4 => ~s.dotB
    PROVE  /\ ValidateLength(Suffix(s, len))
           /\ len = 3 /\ ~s.native => ValidateSymbol(Suffix(s, len))
           /\ len = 4 => ValidateMiniTokenSymbol(Suffix(s, len))
<1> DEFINE p == [len |-> len, hex |-> TRUE, m |-> len = 4]
           z == Suffix(s, len)
<1>0. /\ s.native \in BOOLEAN /\ s.dotB \in BOOLEAN /\ s.alnum \in BOOLEAN /\ s.len \in Nat
  BY SymbolFields
<1>1. /\ z.native = s.native /\ z.dotB = s.dotB /\ z.alnum = s.alnum /\ z.len = s.len /\ z.parts = <<p>>
  BY Zenon DEF IsSymbol, Suffix
<1>2. p \in PartType /\ p.len = len /\ p.hex /\ p.m = (len = 4)
  BY DEF PartType
<1> HIDE DEF p, z
<1>3. z.parts \in Seq(PartType) /\ Len(z.parts) = 1 /\ z.parts[1] = p /\ z.parts # << >>
  BY <1>1, <1>2
<1>4. SymbolLen(z) = s.len + Dot(z) + (0 + 1 + len)
  <2>1. SymbolLen(z) = z.len + Dot(z) + (0 + 1 + z.parts[1].len)
    BY <1>3, ShortSymbolLen, Zenon
  <2> QED BY <2>1, <1>1, <1>2, <1>3, ZenonT(30)
<1>5. SymbolLen(z) \in 3 .. 14 /\ SymbolLen(z) > 0
  <2>2. Dot(z) \in {0, 2} /\ (len = 4 => Dot(z) = 0)
    BY <1>1 DEF Dot
  <2> QED BY <1>4, <2>2, LenBounds, ZenonT(30)
<1>6. len = 3 /\ ~s.native => ValidateSymbol(z)
  BY <1>1, <1>2, <1>3, ZenonT(30) DEF ValidateSymbol, splitSuffixedTokenSymbol, hashSuffix
<1>7. len = 4 => ValidateMiniTokenSymbol(z)
  BY <1>1, <1>2, <1>3, <1>5, ZenonT(30) DEF ValidateMiniTokenSymbol, splitSuffixedTokenSymbol
<1> QED BY <1>5, <1>6, <1>7 DEF ValidateLength, z

-----------------------------------------------------------------------------
(* Balances.                                                               *)

\* The balance b is what the account holds.
Holds(acc, b) ==
    /\ b.free = Total(acc.free, b.denom) /\ b.locked = Total(acc.locked, b.denom)
    /\ b.frozen = Total(acc.frozen, b.denom)

\* TokenBalance, from the three searches of AmountOf.
LEMMA BalanceHeld ==
    ASSUME NEW acc, IsAccount(acc), NEW denom \in Int
    PROVE  Holds(acc, TokenBalance(acc, denom))
<1>1. ASSUME NEW coins \in {acc.free, acc.locked, acc.frozen}
      PROVE  AmountOf(coins, denom) = Total(coins, denom)
  BY AmountIsTotal, Zenon DEF IsAccount
<1>2. /\ AmountOf(acc.free, denom) = Total(acc.free, denom)
      /\ AmountOf(acc.locked, denom) = Total(acc.locked, denom)
      /\ AmountOf(acc.frozen, denom) = Total(acc.frozen, denom)
  BY <1>1, Zenon
<1> QED
  BY <1>2, Zenon DEF Holds, TokenBalance

\* A list with a length is not empty.
LEMMA SomeReplies == ASSUME NEW rs, Len(rs) \in {1, 2} PROVE rs # <<>>
OBVIOUS

\* What GetBalance makes of an account.
LEMMA BalanceRead ==
    ASSUME NEW a, a.denom \in Int, NEW rs, Len(rs) = 2, RpcQuery("GetBalance", a, rs).r = "val",
           rs[2].k = "data", IsAccount(rs[2].v)
    PROVE  Holds(rs[2].v, RpcQuery("GetBalance", a, rs).v)
<1> DEFINE out == RpcQuery("GetBalance", a, rs)
<1>1. out = GetBalance(a, rs)
  BY Zenon DEF RpcQuery
<1>2. rs # <<>>
  BY SomeReplies, SMTT(30)
<1>3. out = balance(rs[2], a.denom)
  BY <1>1, <1>2 DEF GetBalance, TwoRequests, Err
<1>4. account(rs[2]) = Val(rs[2].v)
  BY Zenon DEF account, IsOK, noBytes, decodeIfOK, decode
<1>5. out = Val(TokenBalance(rs[2].v, a.denom))
  BY <1>3, <1>4, SMTT(30) DEF balance, Val
<1>6. out.v = TokenBalance(rs[2].v, a.denom)
  BY <1>5, SMTT(30) DEF Val
<1>7. Holds(rs[2].v, TokenBalance(rs[2].v, a.denom))
  BY BalanceHeld, Zenon
<1> QED
  BY <1>6, <1>7, ZenonT(30)

\* What GetBalances makes of an account.
LEMMA BalancesRead ==
    ASSUME NEW a, NEW rs, rs # <<>>, RpcQuery("GetBalances", a, rs).r = "val",
           rs[1].k = "data" => IsAccount(rs[1].v)
    PROVE  LET v == RpcQuery("GetBalances", a, rs).v IN \A i \in DOMAIN v : Holds(rs[1].v, v[i])
<1> DEFINE out == RpcQuery("GetBalances", a, rs)
           acc == rs[1].v
           list == [i \in DOMAIN acc.free |-> TokenBalance(acc, acc.free[i].denom)]
<1>1. out = balances(rs[1])
  BY Zenon DEF RpcQuery, GetBalances, OneRequest
<1>2. account(rs[1]).r = "val" => rs[1].k = "data" /\ account(rs[1]) = Val(acc)
  BY Zenon DEF account, IsOK, noBytes, decodeIfOK, decode, Err, None
<1>3. account(rs[1]).r = "val"
  BY <1>1, ZenonT(30) DEF balances
<1>4. out.v = list
  BY <1>1, <1>2, <1>3, SMTT(30) DEF balances, Val
<1>5. ASSUME NEW i \in DOMAIN acc.free
      PROVE  Holds(acc, TokenBalance(acc, acc.free[i].denom))
  <2>1. IsAccount(acc) /\ acc.free \in Purse
    BY <1>2, <1>3, ZenonT(30) DEF IsAccount
  <2>2. acc.free[i].denom \in Int
    <3> HIDE DEF acc
    <3>1. acc.free[i] \in CoinType
      BY <2>1 DEF Purse
    <3>2. acc.free[i].denom \in Denoms
      BY <3>1, Zenon DEF CoinType
    <3> QED
      BY <3>2, DenomsAssumption, ZenonT(30)
  <2> QED
    BY <2>1, <2>2, BalanceHeld, ZenonT(30)
<1>6. ASSUME NEW i \in DOMAIN list
      PROVE  Holds(acc, list[i])
  BY <1>5, Zenon
<1> HIDE DEF out, list, acc
<1>7. \A i \in DOMAIN out.v : Holds(acc, out.v[i])
  BY <1>4, <1>6, ZenonT(30)
<1> QED
  BY <1>7, Zenon DEF out, acc

-----------------------------------------------------------------------------
(* The theorems.                                                           *)

\* An accepted SendMsg, however it was made, moves coins and makes none: for lists
\* of any length, any amounts and denominations (SendMsg.ValidateBasic, SendToken).
THEOREM SendsConserve ==
    Spec => []SendConserves
<1> DEFINE m == call.m
<1>1. IInv /\ MessageInv => SendConserves
  <2> SUFFICES ASSUME IInv, MessageInv, posted, m.t = "SendMsg", NEW d \in Denoms
               PROVE  Wrap(moved(m.inputs, d)) = Wrap(moved(m.outputs, d))
    BY Zenon DEF SendConserves
  <2>1. Running /\ identified
    BY Zenon DEF posted, Running, identified
  <2>2. call.x \in Calls /\ SendMsg(m).valid
    BY <2>1, ZenonT(30) DEF IInv, FateInv, MessageInv, MsgOf
  <2>3. totalOf(m.inputs) = totalOf(m.outputs)
    BY <2>2, Zenon DEF SendMsg, Msg, IsEqual
  <2>4. CASE call.x.op = "Broadcast" /\ m = call.x.args.m
    <3> DEFINE E == [address : Address, coins : Purse]
    <3>1. m.inputs \in Seq(E) /\ m.outputs \in Seq(E)
      BY <2>2, <2>4, ClientAssumption, ZenonT(30) DEF Payments
    <3>2. Pays(E)
      BY DEF Pays
    <3> HIDE DEF E
    <3> QED
      BY <2>3, <3>1, <3>2, SendAdds, ZenonT(30)
  <2>5. CASE call.x.op = "SendToken"
    <3> DEFINE E == [to : Address, coins : Purse]
               ts == call.x.args.transfers
               F == {[address |-> m.from, coins |-> fromCoins(ts)]}
    <3>1. ts \in Seq(E) /\ m = CreateSendMsg(m.from, fromCoins(ts), ts)
      BY <2>1, <2>2, <2>5, ClientAssumption, ZenonT(30) DEF MessageInv
    <3>2. Pays(E)
      BY DEF Pays
    <3> HIDE DEF E, ts
    <3>3. SentTo(E, ts, m.outputs)
      BY <3>1, <3>2, FromCoinsIsTotal, ZenonT(30)
    <3>4. m.outputs \in Seq(Outs(E)) /\ Pays(Outs(E)) /\ fromCoins(ts) = totalOf(m.outputs)
      BY <3>3, ZenonT(30) DEF SentTo
    <3>5. Pays(F)
      <4>1. totalOf(m.outputs) \in Purse
        BY <3>4, TotalOfAdds, ZenonT(30)
      <4> QED
        BY <3>4, <4>1 DEF Pays
    <3>6. m.inputs \in Seq(F)
      <4>1. m.inputs = <<[address |-> m.from, coins |-> fromCoins(ts)]>>
        <5>1. \A from, coins, list : CreateSendMsg(from, coins, list).inputs = <<[address |-> from, coins |-> coins]>>
          BY ZenonT(30) DEF CreateSendMsg
        <5> QED
          BY <3>1, <5>1
      <4> QED
        BY <4>1
    <3> HIDE DEF F
    <3> QED
      BY <2>3, <3>4, <3>5, <3>6, SendAdds, ZenonT(30)
  <2> QED
    BY <2>1, <2>4, <2>5, ZenonT(30) DEF MessageInv
<1> QED
  BY <1>1, ClientInvariant, MessageInvariant, PTL

\* SendToken of either client with proper transfers passes ValidateBasic: for any
\* number of transfers and coins, in whatever order the coins are listed.
THEOREM ProperSendsAccepted ==
    Spec => []ProperSendAccepted
<1> DEFINE ts == call.x.args.transfers
           m == call.m
<1>1. IInv /\ MessageInv => ProperSendAccepted
  <2> SUFFICES ASSUME IInv, MessageInv, call.pc = "identify", call.x.op = "SendToken", Proper(ts)
               PROVE  MsgOf(m).valid
    BY ZenonT(30) DEF ProperSendAccepted, Proper
  <2>1. Running
    BY Zenon DEF Running
  <2>2. call.x \in Calls /\ ts \in Transfers
    BY <2>1, ClientAssumption, ZenonT(30) DEF IInv, FateInv, Transfers
  <2>3. PICK from : m = CreateSendMsg(from, fromCoins(ts), ts) /\ IsAddr(from)
    BY <2>1, ZenonT(30) DEF MessageInv
  <2> HIDE DEF m, ts
  <2>4. MsgOf(CreateSendMsg(from, fromCoins(ts), ts)).valid
    BY <2>2, <2>3, ProperIsValid, ZenonT(30)
  <2> QED
    BY <2>3, <2>4, ZenonT(30) DEF m
<1> QED
  BY <1>1, ClientInvariant, MessageInvariant, PTL

\* The names of tokens agree between the messages and the queries, and a new token
\* gets a name that the other messages take: for all symbols (ValidateSymbol,
\* ValidateMiniTokenSymbol and the validation of the messages that use them).
THEOREM NamesAgreeAlways ==
    Spec => []NamesAgree
<1> DEFINE m == call.m
           s == call.m.symbol
<1>1. IInv /\ MessageInv => NamesAgree
  <2> SUFFICES ASSUME MessageInv, posted
               PROVE  /\ m.t \in {"TokenBurnMsg", "TokenFreezeMsg", "TokenUnfreezeMsg", "SetURIMsg",
                                  "TransferOwnershipMsg"} =>
                           ValidateSymbol(s) # ValidateMiniTokenSymbol(s) /\ ValidateLength(s)
                      /\ m.t = "TokenIssueMsg" /\ ~s.native =>
                           ValidateSymbol(Suffix(s, 3)) /\ ValidateLength(Suffix(s, 3))
                      /\ m.t = "MiniTokenIssueMsg" =>
                           ValidateMiniTokenSymbol(Suffix(s, 4)) /\ ValidateLength(Suffix(s, 4))
    BY Zenon DEF NamesAgree
  <2>1. Running /\ identified
    BY Zenon DEF posted, Running, identified
  <2>2. MsgOf(m).valid /\ (m.t \in Named => IsSymbol(s))
    BY <2>1, ZenonT(30) DEF MessageInv
  <2>3. CASE m.t \in {"TokenBurnMsg", "TokenFreezeMsg", "TokenUnfreezeMsg", "SetURIMsg",
                      "TransferOwnershipMsg"}
    <3>1. ValidateSymbol(s) \/ ValidateMiniTokenSymbol(s)
      BY <2>2, <2>3, ZenonT(30) DEF MsgOf, TokenBurnMsg, TokenFreezeMsg, TokenUnfreezeMsg, SetURIMsg,
                                    TransferOwnershipMsg, BySender, Msg
    <3>2. IsSymbol(s)
      BY <2>2, <2>3, ZenonT(30) DEF Named
    <3>3. ~(ValidateSymbol(s) /\ ValidateMiniTokenSymbol(s)) /\ ValidateLength(s)
      BY <3>1, <3>2, SymbolAgrees, ZenonT(30)
    <3>4. ValidateSymbol(s) \in BOOLEAN /\ ValidateMiniTokenSymbol(s) \in BOOLEAN
      BY Zenon DEF ValidateSymbol, ValidateMiniTokenSymbol
    <3>5. m.t \notin {"TokenIssueMsg", "MiniTokenIssueMsg"}
      BY <2>3
    <3> QED
      BY <3>1, <3>3, <3>4, <3>5, SMTT(30)
  <2>4. CASE m.t = "TokenIssueMsg"
    <3>1. s.len \in 2 .. 8 /\ s.alnum /\ IsSymbol(s)
      BY <2>2, <2>4, ZenonT(30) DEF MsgOf, TokenIssueMsg, BySender, Msg, validateIssueMsgTokenSymbol, Named
    <3>2. ~s.native => ValidateSymbol(Suffix(s, 3)) /\ ValidateLength(Suffix(s, 3))
      BY <3>1, SuffixFits
    <3> QED
      BY <2>4, <3>2, SMTT(30)
  <2>5. CASE m.t = "MiniTokenIssueMsg"
    <3>1. s.len \in 2 .. 8 /\ s.alnum /\ IsSymbol(s) /\ ~s.dotB
      BY <2>2, <2>5, ZenonT(30) DEF MsgOf, MiniTokenIssueMsg, BySender, Msg, validateIssueMsgMiniTokenSymbol, Named
    <3>2. ValidateMiniTokenSymbol(Suffix(s, 4)) /\ ValidateLength(Suffix(s, 4))
      BY <3>1, SuffixFits
    <3> QED
      BY <2>5, <3>2
  <2> QED
    BY <2>3, <2>4, <2>5, ZenonT(30)
<1> QED
  BY <1>1, ClientInvariant, MessageInvariant, PTL

\* What a query returns is what it was asked for: the record of the addresses, and
\* for accounts of any size the balance that the account holds.
THEOREM AnswersFitQuestions ==
    Spec => []AnswerFitsQuestion
<1> DEFINE rs == call.replies
           x  == call.x
           v  == call.out.v
<1>1. IInv /\ QueryInv => BalanceFitsAccount
  <2> DEFINE last == rs[Len(rs)]
  <2> SUFFICES ASSUME IInv, QueryInv, returned, call.out.r = "val", x.op \in {"GetBalance", "GetBalances"}
               PROVE  /\ x.op = "GetBalance" /\ last.k = "data" => Holds(last.v, v)
                      /\ x.op = "GetBalances" => \A i \in DOMAIN v : Holds(last.v, v[i])
    BY ZenonT(30) DEF BalanceFitsAccount, Holds
  <2>1. x \in Queries /\ x.c = "rpc"
    BY ClientAssumption DEF returned, IInv, CallInv, RpcMethods, GatewayMethods, GatewayQueries
  <2>2. IsSequence(rs) /\ AskedFor(x, rs) /\ Replied(x, rs) /\ call.out = Answer(x, rs)
    BY <2>1 DEF QueryInv, returned
  <2>3. Answer(x, rs) \notin {Ask, Err} /\ Answer(x, rs) = RpcQuery(x.op, x.args, rs)
    BY <2>1, <2>2, SMTT(30) DEF Ask, Err, Answer
  <2>4. Len(rs) \in {1, 2}
    BY <2>1, <2>2, <2>3, AnswerReads, SMTT(30)
  <2>5. CASE x.op = "GetBalance"
    <3>1. Len(rs) = 2
      BY <2>3, <2>4, <2>5, RpcTwice, SMTT(30) DEF Twice
    <3>2. rs[2] \in Replies(x, 2)
      BY <2>2, <3>1 DEF Replied
    <3>3. x.args.denom \in Int /\ (rs[2].k = "data" => IsAccount(rs[2].v))
      BY <2>1, <2>5, <3>2, ClientAssumption, ZenonT(30)
    <3>4. rs[2].k = "data" => Holds(rs[2].v, v)
      BY <2>2, <2>3, <2>5, <3>1, <3>3, BalanceRead, ZenonT(30)
    <3> QED
      BY <2>5, <3>1, <3>4, SMTT(30)
  <2>6. CASE x.op = "GetBalances"
    <3>1. rs # <<>> /\ Len(rs) = 1
      <4>1. rs # <<>>
        BY <2>4, SomeReplies, SMTT(30)
      <4>2. \A ss : IF ss = <<>> THEN Answer(x, ss) \in {Ask, Err} ELSE Reads(x.op, ss[1], Answer(x, ss))
        BY <2>1, <2>6, RpcOnce, SMTT(30) DEF Answer, QueryMethods, Twice
      <4>3. Len(rs) = 2 => Answer(x, SubSeq(rs, 1, 1)) = Ask /\ SubSeq(rs, 1, 1) # <<>>
        BY <2>2 DEF AskedFor, IsSequence
      <4>4. \A reply : ~Reads(x.op, reply, Ask)
        BY Zenon DEF Reads
      <4>5. Len(rs) # 2
        BY <4>2, <4>3, <4>4, ZenonT(30)
      <4> QED
        BY <2>4, <4>1, <4>5, SMTT(30)
    <3>2. rs[1] \in Replies(x, 1)
      BY <2>2, <3>1 DEF Replied
    <3>3. rs[1].k = "data" => IsAccount(rs[1].v)
      BY <2>1, <2>6, <3>2, ClientAssumption, ZenonT(30)
    <3>4. \A i \in DOMAIN v : Holds(rs[1].v, v[i])
      BY <2>2, <2>3, <2>6, <3>1, <3>3, BalancesRead, ZenonT(30)
    <3> QED
      BY <2>6, <3>1, <3>4, SMTT(30)
  <2> QED
    BY <2>5, <2>6
<1>2. RecordFitsQuestion /\ BalanceFitsAccount => AnswerFitsQuestion
  BY Zenon DEF AnswerFitsQuestion
<1> QED
  BY <1>1, <1>2, ClientInvariant, QueryInvariant, RecordsFitQuestions, PTL

=============================================================================
