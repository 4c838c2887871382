-------------------------------- MODULE Coins --------------------------------
(***************************************************************************)
(* common/types/coins.go.  A coin is [denom, amount]; denominations are    *)
(* numbers, which keeps the order strings.Compare gives them.  An amount   *)
(* is a two's-complement word of AmountBits bits (int64 in the code), and  *)
(* additions wrap.                                                         *)
(***************************************************************************)
EXTENDS Integers, Sequences, FiniteSetsExt

CONSTANTS
    AmountBits,     \* bits of an amount
    Denoms          \* the denominations

Half   == 2 ^ (AmountBits - 1)

\* The provers know no powers.
ASSUME AmountBitsAssumption == AmountBits \in Nat \ {0} /\ Half \in Nat \ {0}
ASSUME DenomsAssumption == Denoms \subseteq Int

Amount == -Half .. Half - 1

\* The types Coin and Coins.
CoinType == [denom : Denoms, amount : Amount]
Purse    == Seq(CoinType)

\* int64 addition.
Wrap(n) == ((n + Half) % (2 * Half)) - Half

Coin(denom, amount) == [denom |-> denom, amount |-> amount]

\* A loop over a list with an accumulator.
foldLeft(op(_, _), base, list) ==
    LET acc[i \in 0 .. Len(list)] == IF i = 0 THEN base ELSE op(acc[i - 1], list[i])
    IN  acc[Len(list)]

\* Coins.IsValid: with two coins or more the first one may be zero.
IsValid(coins) ==
    IF Len(coins) = 1 THEN coins[1].amount # 0
    ELSE \A i \in 2 .. Len(coins) :
            coins[i - 1].denom < coins[i].denom /\ coins[i].amount # 0

IsPositive(coins) == coins # <<>> /\ \A i \in 1 .. Len(coins) : coins[i].amount > 0

IsNotNegative(coins) == \A i \in 1 .. Len(coins) : coins[i].amount >= 0

IsZero(coins) == \A i \in 1 .. Len(coins) : coins[i].amount = 0

\* Mutant: a coin both sides have is counted once.
mergedOnce(a, b) == <<a>>

\* Coin.Plus of two coins of one denomination; a sum of zero is dropped.
merged(a, b) ==
    LET n == Wrap(a.amount + b.amount)
    IN  IF n = 0 THEN <<>> ELSE <<Coin(a.denom, n)>>

\* Coins.Plus: one pass over both lists, which the code takes to be sorted.
Plus(coins, coinsB) ==
    LET sum[at \in (1 .. Len(coins) + 1) \X (1 .. Len(coinsB) + 1)] ==
          LET i == at[1]
              j == at[2]
          IN  IF i > Len(coins) THEN SubSeq(coinsB, j, Len(coinsB))
              ELSE IF j > Len(coinsB) THEN SubSeq(coins, i, Len(coins))
              ELSE IF coins[i].denom < coinsB[j].denom THEN <<coins[i]>> \o sum[<<i + 1, j>>]
              ELSE IF coins[i].denom = coinsB[j].denom
                   THEN merged(coins[i], coinsB[j]) \o sum[<<i + 1, j + 1>>]
              ELSE <<coinsB[j]>> \o sum[<<i, j + 1>>]
    IN  sum[<<1, 1>>]

IsEqual(coins, coinsB) == coins = coinsB

above(mid) == mid + 1

\* Coins.AmountOf: a binary search, coins[:mid] and coins[mid+1:] in turn.
AmountOf(coins, denom) ==
    LET find[part \in (1 .. Len(coins) + 2) \X (0 .. Len(coins))] ==
          LET lo  == part[1]
              hi  == part[2]
              len == hi - lo + 1
              mid == lo + (len \div 2)
          IN  IF len <= 0 THEN 0
              ELSE IF len = 1 THEN IF coins[lo].denom = denom THEN coins[lo].amount ELSE 0
              ELSE IF denom < coins[mid].denom THEN find[<<lo, mid - 1>>]
              ELSE IF denom = coins[mid].denom THEN coins[mid].amount
              ELSE find[<<above(mid), hi>>]
    IN  find[<<1, Len(coins)>>]

\* A coin is inserted behind the last one that it is not less than.
insert(coins, c) ==
    LET n == CHOOSE n \in 0 .. Len(coins) :
               /\ n # 0 => coins[n].denom <= c.denom
               /\ \A i \in n + 1 .. Len(coins) : c.denom < coins[i].denom
    IN  [i \in 1 .. Len(coins) + 1 |->
            IF i <= n THEN coins[i] ELSE IF i = n + 1 THEN c ELSE coins[i - 1]]

\* Coins.Sort, in place, by insertion.  The sort is not stable on long lists, but
\* coins of one denomination make the list invalid wherever they end up.
Sort(coins) == foldLeft(insert, <<>>, coins)

\* Sorted, every denomination once.
Sorted(coins) == \A i, j \in 1 .. Len(coins) : i < j => coins[i].denom < coins[j].denom

\* Reference: the exact sum of a denomination, over the integers.
Total(coins, denom) ==
    foldLeft(LAMBDA n, c : IF c.denom = denom THEN n + c.amount ELSE n, 0, coins)

\* Reference: the same for what a list of payments or transfers moves.
moved(list, denom) == foldLeft(LAMBDA n, e : n + Total(e.coins, denom), 0, list)

=============================================================================
