----------------------------- MODULE CoinProofs -----------------------------
(***************************************************************************)
(* Lemmas about the operators of Coins, for lists of any length and any    *)
(* amounts: Coins.Plus adds in the arithmetic of int64 and is exact where  *)
(* nothing overflows, Coins.AmountOf finds the amount in a sorted list,    *)
(* and Coins.Sort sorts.  They rest on induction over data, which follows  *)
(* from the well-foundedness of < on the natural numbers.                  *)
(***************************************************************************)
EXTENDS Coins, WellFoundedInduction, TLAPS

-----------------------------------------------------------------------------
(* Induction over data.                                                    *)

\* A set of numbers has a least one.
LEMMA Least ==
    ASSUME NEW S \in SUBSET Nat, S # {}
    PROVE  \E n \in S : \A m \in S : n <= m
<1> DEFINE R == {ss \in Nat \X Nat : ss[1] < ss[2]}
<1>1. IsWellFoundedOn(R, Nat)
  BY NatLessThanWellFounded, Zenon DEF OpToRel
<1> HIDE DEF R
<1>2. PICK n \in S : \A m \in S : ~ (<<m, n>> \in R)
  BY <1>1, WFMin, Zenon
<1>3. ASSUME NEW m \in S PROVE n <= m
  <2>1. ~ (<<m, n>> \in R)
    BY <1>2
  <2>2. ~ (m < n)
    BY <2>1 DEF R
  <2> QED BY <2>2
<1> QED BY <1>2, <1>3

\* Induction up to n.
LEMMA UpTo ==
    ASSUME NEW n \in Nat, NEW S, 0 \in S, \A k \in 0 .. n - 1 : k \in S => k + 1 \in S
    PROVE  \A k \in 0 .. n : k \in S
<1> SUFFICES ASSUME {k \in 0 .. n : k \notin S} # {} PROVE FALSE
  OBVIOUS
<1> DEFINE B == {k \in 0 .. n : k \notin S}
<1>1. PICK k \in B : \A m \in B : k <= m
  <2>1. B \in SUBSET Nat /\ B # {}
    OBVIOUS
  <2> HIDE DEF B
  <2> QED BY <2>1, Least
<1>2. k # 0 /\ k \in 0 .. n
  BY <1>1
<1>3. k - 1 \in S
  <2>1. k - 1 \in 0 .. n /\ ~ (k <= k - 1)
    BY <1>2
  <2> QED BY <2>1, <1>1
<1> QED BY <1>1, <1>2, <1>3

\* A function F of a place and of a table of results, which looks only at places of
\* a smaller measure; and a table that is its own result.
LooksBelow(D, T, mu, F) ==
    \A x \in D : \A g, h \in [D -> T] :
       (\A y \in D : mu[y] < mu[x] => g[y] = h[y]) => F[x][g] = F[x][h]
Obeys(D, F, g) == \A x \in D : g[x] = F[x][g]

\* A recursive definition whose measure falls has a solution: what loops and recursive
\* functions of the code come down to (Coins.Plus, Coins.AmountOf, folds).
LEMMA Recursion ==
    ASSUME NEW D, NEW T, NEW top \in Nat, NEW mu \in [D -> 0 .. top], NEW base \in T,
           NEW F \in [D -> [[D -> T] -> T]], LooksBelow(D, T, mu, F)
    PROVE  \E g \in [D -> T] : Obeys(D, F, g)
<1> DEFINE Upto(k) == \E g \in [D -> T] : \A x \in D : mu[x] < k => g[x] = F[x][g]
           S == {k \in Nat : Upto(k)}
<1>1. 0 \in S
  <2>1. [x \in D |-> base] \in [D -> T]
    OBVIOUS
  <2>2. \A x \in D : ~ (mu[x] < 0)
    OBVIOUS
  <2>3. Upto(0)
    BY <2>1, <2>2, Zenon
  <2> QED BY <2>3
<1>2. ASSUME NEW k \in 0 .. top, k \in S PROVE k + 1 \in S
  <2>1. PICK g \in [D -> T] : \A x \in D : mu[x] < k => g[x] = F[x][g]
    BY <1>2
  <2> DEFINE h == [x \in D |-> IF mu[x] < k THEN g[x] ELSE F[x][g]]
  <2>2. h \in [D -> T]
    OBVIOUS
  <2>3. ASSUME NEW x \in D, mu[x] < k + 1 PROVE h[x] = F[x][h]
    <3>1. h[x] = F[x][g]
      BY <2>1
    <3>2. \A y \in D : mu[y] < mu[x] => g[y] = h[y]
      BY <2>3
    <3> HIDE DEF h
    <3>3. F[x][g] = F[x][h]
      BY <3>2, <2>2, Zenon DEF LooksBelow
    <3> QED BY <3>1, <3>3
  <2> HIDE DEF h
  <2>4. Upto(k + 1)
    BY <2>2, <2>3
  <2> QED BY <2>4
<1> HIDE DEF S
<1>3. \A k \in 0 .. top + 1 : k \in S
  <2>1. top + 1 \in Nat /\ \A k \in 0 .. (top + 1) - 1 : k \in 0 .. top
    OBVIOUS
  <2> QED BY <1>1, <1>2, <2>1, UpTo, Zenon
<1>4. Upto(top + 1)
  <2>1. top + 1 \in 0 .. top + 1
    OBVIOUS
  <2>2. top + 1 \in S
    BY <2>1, <1>3, Zenon
  <2> QED BY <2>2, Zenon DEF S
<1>5. ASSUME NEW x \in D PROVE mu[x] < top + 1
  <2>1. mu[x] \in 0 .. top
    BY Zenon
  <2> QED BY <2>1
<1>6. PICK g \in [D -> T] : \A x \in D : mu[x] < top + 1 => g[x] = F[x][g]
  BY <1>4, Zenon
<1>7. \A x \in D : g[x] = F[x][g]
  BY <1>5, <1>6, Zenon
<1> QED BY <1>7, Zenon DEF Obeys

\* S holds at a place if it holds at all places of a smaller measure.
Inherits(D, mu, S) == \A x \in D : (\A y \in D : mu[y] < mu[x] => y \in S) => x \in S

\* Induction on a measure.
LEMMA ByMeasure ==
    ASSUME NEW D, NEW mu \in [D -> Nat], NEW S, Inherits(D, mu, S)
    PROVE  \A x \in D : x \in S
<1> SUFFICES ASSUME NEW z \in D, z \notin S PROVE FALSE
  OBVIOUS
<1> DEFINE B == {mu[x] : x \in {x \in D : x \notin S}}
<1>1. B \in SUBSET Nat /\ B # {}
  OBVIOUS
<1> HIDE DEF B
<1>2. PICK n \in B : \A m \in B : n <= m
  BY <1>1, Least, Zenon
<1>3. PICK x \in D : x \notin S /\ n = mu[x]
  BY DEF B
<1>4. ASSUME NEW y \in D, mu[y] < mu[x] PROVE y \in S
  <2> SUFFICES ASSUME y \notin S PROVE FALSE
    OBVIOUS
  <2>1. mu[y] \in B
    BY DEF B
  <2>2. mu[x] <= mu[y] /\ mu[x] \in Nat /\ mu[y] \in Nat
    BY <2>1, <1>2, <1>3
  <2> QED BY <2>2, <1>4
<1> QED BY <1>3, <1>4, Zenon DEF Inherits

\* The values that a loop over a list goes through.
Runs(list, base, G, g) ==
    g[0] = base /\ \A i \in 1 .. Len(list) : g[i] = G[<<g[i - 1], list[i]>>]

\* A loop over a list goes through some values.
LEMMA FoldRuns ==
    ASSUME NEW T, NEW E, NEW list \in Seq(E), NEW base \in T, NEW G \in [T \X E -> T]
    PROVE  \E g \in [0 .. Len(list) -> T] : Runs(list, base, G, g)
<1> DEFINE n  == Len(list)
           D  == 0 .. n
           mu == [i \in D |-> i]
           F  == [i \in D |-> [g \in [D -> T] |-> IF i = 0 THEN base ELSE G[<<g[i - 1], list[i]>>]]]
<1>1. n \in Nat /\ mu \in [D -> 0 .. n]
  OBVIOUS
<1>2. ASSUME NEW i \in D, NEW g \in [D -> T], i # 0
      PROVE  i - 1 \in D /\ g[i - 1] \in T /\ list[i] \in E /\ G[<<g[i - 1], list[i]>>] \in T
  <2>1. i - 1 \in D /\ i \in 1 .. Len(list)
    BY <1>2
  <2>2. g[i - 1] \in T /\ list[i] \in E
    BY <2>1
  <2> QED BY <2>1, <2>2
<1>3. F \in [D -> [[D -> T] -> T]]
  <2>1. ASSUME NEW i \in D, NEW g \in [D -> T]
        PROVE  (IF i = 0 THEN base ELSE G[<<g[i - 1], list[i]>>]) \in T
    BY <1>2
  <2> QED BY <2>1, Zenon
<1>4. ASSUME NEW i \in D, NEW g \in [D -> T]
      PROVE  F[i][g] = IF i = 0 THEN base ELSE G[<<g[i - 1], list[i]>>]
  BY Zenon
<1>5. LooksBelow(D, T, mu, F)
  <2> SUFFICES ASSUME NEW i \in D, NEW g \in [D -> T], NEW h \in [D -> T],
                      \A y \in D : mu[y] < mu[i] => g[y] = h[y]
               PROVE  F[i][g] = F[i][h]
    BY Zenon DEF LooksBelow
  <2>1. CASE i = 0
    BY <2>1, <1>4, Zenon
  <2>2. CASE i # 0
    <3>1. i - 1 \in D /\ mu[i - 1] < mu[i]
      BY <2>2
    <3>2. g[i - 1] = h[i - 1]
      BY <3>1
    <3> QED BY <2>2, <3>2, <1>4, Zenon
  <2> QED BY <2>1, <2>2
<1> HIDE DEF F, mu, n
<1>6. PICK g \in [D -> T] : Obeys(D, F, g)
  <2> HIDE DEF D
  <2> QED BY <1>1, <1>3, <1>5, Recursion, Zenon
<1>7. g[0] = base
  <2>1. 0 \in D
    BY <1>1
  <2> QED BY <2>1, <1>4, <1>6, Zenon DEF Obeys
<1>8. ASSUME NEW i \in 1 .. Len(list) PROVE g[i] = G[<<g[i - 1], list[i]>>]
  <2>1. i \in D /\ i # 0
    BY DEF n
  <2> QED BY <2>1, <1>4, <1>6, Zenon DEF Obeys
<1> QED BY <1>7, <1>8, Zenon DEF Runs, n

\* Two runs of a loop that start alike and take the same steps.
InStep(n, g, h) == h[0] = g[0] /\ \A i \in 1 .. n : h[i - 1] = g[i - 1] => h[i] = g[i]

\* A loop goes through one run only.
LEMMA OneRun ==
    ASSUME NEW n \in Nat, NEW g, NEW h, InStep(n, g, h)
    PROVE  \A i \in 0 .. n : h[i] = g[i]
<1> DEFINE S == {i \in 0 .. n : h[i] = g[i]}
<1>1. 0 \in S
  BY DEF InStep
<1>2. ASSUME NEW i \in 0 .. n - 1, i \in S PROVE i + 1 \in S
  <2>1. i + 1 \in 1 .. n /\ (i + 1) - 1 = i /\ i + 1 \in 0 .. n
    OBVIOUS
  <2>2. h[i] = g[i]
    BY <1>2
  <2>3. h[i + 1] = g[i + 1]
    BY <2>1, <2>2 DEF InStep
  <2> QED BY <2>1, <2>3
<1> HIDE DEF S
<1>3. \A i \in 0 .. n : i \in S
  BY <1>1, <1>2, UpTo
<1> QED BY <1>3 DEF S

-----------------------------------------------------------------------------
(* Totals.                                                                 *)

\* What one coin adds to the total of a denomination, and the running totals of a list.
Share(c, d) == IF c.denom = d THEN c.amount ELSE 0

\* A share is a number.
LEMMA ShareInt == ASSUME NEW c \in CoinType, NEW d PROVE Share(c, d) \in Int
BY AmountBitsAssumption DEF CoinType, Share, Amount
Tally(coins, d, g) ==
    /\ g \in [0 .. Len(coins) -> Int]
    /\ g[0] = 0
    /\ \A i \in 1 .. Len(coins) : g[i] = g[i - 1] + Share(coins[i], d)

\* The running totals of a list of coins exist.
LEMMA TallyExists ==
    ASSUME NEW coins \in Seq(CoinType), NEW d
    PROVE  \E g : Tally(coins, d, g)
<1> DEFINE G == [p \in Int \X CoinType |-> p[1] + Share(p[2], d)]
<1>1. G \in [Int \X CoinType -> Int]
  BY ShareInt
<1>2. ASSUME NEW n \in Int, NEW c \in CoinType PROVE G[<<n, c>>] = n + Share(c, d)
  OBVIOUS
<1> HIDE DEF G
<1>3. PICK g \in [0 .. Len(coins) -> Int] : Runs(coins, 0, G, g)
  <2>1. 0 \in Int
    OBVIOUS
  <2> QED BY <1>1, <2>1, FoldRuns, Zenon
<1>4. ASSUME NEW i \in 1 .. Len(coins) PROVE g[i] = g[i - 1] + Share(coins[i], d)
  <2>1. i - 1 \in 0 .. Len(coins) /\ coins[i] \in CoinType
    OBVIOUS
  <2>2. g[i - 1] \in Int
    BY <2>1
  <2>3. g[i] = G[<<g[i - 1], coins[i]>>]
    BY <1>3, Zenon DEF Runs
  <2> QED BY <1>2, <2>1, <2>2, <2>3
<1> QED BY <1>3, <1>4, Zenon DEF Tally, Runs

\* Total is the last of the running totals.
LEMMA TotalTally ==
    ASSUME NEW coins \in Seq(CoinType), NEW d, NEW g, Tally(coins, d, g)
    PROVE  Total(coins, d) = g[Len(coins)]
<1> DEFINE Run(h) == h = [i \in 0 .. Len(coins) |->
              IF i = 0 THEN 0 ELSE IF coins[i].denom = d THEN h[i - 1] + coins[i].amount ELSE h[i - 1]]
<1>0. Len(coins) \in Nat /\ g \in [0 .. Len(coins) -> Int] /\ g[0] = 0
  BY DEF Tally
<1>1. ASSUME NEW i \in 1 .. Len(coins)
      PROVE  g[i] = IF coins[i].denom = d THEN g[i - 1] + coins[i].amount ELSE g[i - 1]
  <2>1. g[i] = g[i - 1] + Share(coins[i], d) /\ g[i - 1] \in Int
    BY DEF Tally
  <2> QED BY <2>1 DEF Share
<1>2. Run(g)
  <2>1. \A i \in 0 .. Len(coins) : i # 0 => i \in 1 .. Len(coins)
    BY <1>0
  <2> QED BY <1>0, <1>1, <2>1
<1>3. Run(CHOOSE h : Run(h))
  BY <1>2, Zenon
<1>4. Total(coins, d) = (CHOOSE h : Run(h))[Len(coins)]
  BY Zenon DEF Total, foldLeft
<1> DEFINE h == CHOOSE h : Run(h)
<1> HIDE DEF h
<1>5. Run(h)
  BY <1>3, Zenon DEF h
<1> DEFINE at(i) == IF i = 0 THEN 0 ELSE IF coins[i].denom = d THEN h[i - 1] + coins[i].amount ELSE h[i - 1]
<1>a. ASSUME NEW i \in 0 .. Len(coins) PROVE h[i] = at(i)
  <2>1. h = [j \in 0 .. Len(coins) |-> at(j)]
    BY <1>5, Zenon
  <2> HIDE DEF at
  <2> QED BY <2>1, Zenon
<1>6. h[0] = 0
  BY <1>0, <1>a
<1>7. ASSUME NEW i \in 1 .. Len(coins), h[i - 1] = g[i - 1] PROVE h[i] = g[i]
  <2>1. i \in 0 .. Len(coins) /\ i # 0
    BY <1>0
  <2>2. h[i] = IF coins[i].denom = d THEN h[i - 1] + coins[i].amount ELSE h[i - 1]
    BY <2>1, <1>a, Zenon
  <2> QED BY <2>2, <1>1, <1>7, Zenon
<1>8. \A i \in 0 .. Len(coins) : h[i] = g[i]
  <2>1. InStep(Len(coins), g, h)
    BY <1>0, <1>6, <1>7, Zenon DEF InStep
  <2> QED BY <1>0, <2>1, OneRun, ZenonT(30)
<1>9. Len(coins) \in 0 .. Len(coins)
  BY <1>0
<1> QED BY <1>4, <1>8, <1>9, Zenon DEF h

\* A total is a number.
LEMMA TotalInt ==
    ASSUME NEW coins \in Seq(CoinType), NEW d
    PROVE  Total(coins, d) \in Int
<1>1. PICK g : Tally(coins, d, g)
  BY TallyExists
<1> QED BY <1>1, TotalTally, SMTT(30) DEF Tally

\* Nothing adds up to zero.
LEMMA TotalEmpty == ASSUME NEW d PROVE Total(<<>>, d) = 0
<1>1. << >> \in Seq(CoinType) /\ Len(<< >>) = 0
  OBVIOUS
<1>2. PICK g : Tally(<< >>, d, g)
  BY <1>1, TallyExists, Zenon
<1> QED BY <1>1, <1>2, TotalTally DEF Tally

\* One coin more in front of a list.
LEMMA TotalCons ==
    ASSUME NEW c \in CoinType, NEW coins \in Seq(CoinType), NEW d
    PROVE  Total(<<c>> \o coins, d) = Share(c, d) + Total(coins, d)
<1> DEFINE all == <<c>> \o coins
<1>1. all \in Seq(CoinType) /\ Len(all) = Len(coins) + 1 /\ Len(coins) \in Nat
      /\ all[1] = c /\ \A i \in 1 .. Len(coins) : all[i + 1] = coins[i]
  OBVIOUS
<1> HIDE DEF all
<1>2. PICK g : Tally(coins, d, g)
  BY TallyExists
<1> DEFINE h == [i \in 0 .. Len(all) |-> IF i = 0 THEN 0 ELSE Share(c, d) + g[i - 1]]
<1>3. h \in [0 .. Len(all) -> Int]
  BY <1>1, <1>2, ShareInt DEF Tally
<1>4. ASSUME NEW i \in 1 .. Len(all) PROVE h[i] = h[i - 1] + Share(all[i], d)
  <2>1. CASE i = 1
    BY <2>1, <1>1, <1>2, ShareInt DEF Tally
  <2>2. CASE i # 1
    <3>1. i - 1 \in 1 .. Len(coins) /\ i - 1 \in 0 .. Len(all) /\ i - 1 # 0
          /\ i \in 0 .. Len(all) /\ i # 0 /\ (i - 1) + 1 = i
      BY <1>1, <2>2
    <3>2. g[i - 1] = g[(i - 1) - 1] + Share(coins[i - 1], d) /\ g[(i - 1) - 1] \in Int
      <4>1. (i - 1) - 1 \in 0 .. Len(coins)
        BY <3>1, <1>1
      <4>2. g[i - 1] = g[(i - 1) - 1] + Share(coins[i - 1], d)
        BY <3>1, <1>2, Zenon DEF Tally
      <4>3. g \in [0 .. Len(coins) -> Int]
        BY <1>2 DEF Tally
      <4> QED BY <4>1, <4>2, <4>3, Zenon
    <3>3. all[i] = coins[i - 1]
      BY <1>1, <3>1
    <3>4. h[i] = Share(c, d) + g[i - 1] /\ h[i - 1] = Share(c, d) + g[(i - 1) - 1]
      BY <3>1
    <3>5. Share(c, d) \in Int /\ Share(coins[i - 1], d) \in Int
      BY <3>1, ShareInt
    <3> QED BY <3>2, <3>3, <3>4, <3>5
  <2> QED BY <2>1, <2>2
<1>5. Tally(all, d, h)
  <2>1. h[0] = 0
    BY <1>1
  <2> HIDE DEF h
  <2> QED BY <2>1, <1>3, <1>4, Zenon DEF Tally
<1>6. h[Len(all)] = Share(c, d) + g[Len(coins)]
  <2>1. Len(all) \in 0 .. Len(all) /\ Len(all) # 0 /\ Len(all) - 1 = Len(coins)
    BY <1>1
  <2> QED BY <2>1, Zenon
<1> HIDE DEF h
<1>7. Total(all, d) = h[Len(all)] /\ Total(coins, d) = g[Len(coins)]
  BY <1>1, <1>2, <1>5, TotalTally
<1> QED BY <1>6, <1>7, Zenon DEF all

\* The coins of a list are coins.
LEMMA CoinAt ==
    ASSUME NEW coins \in Purse, NEW i \in 1 .. Len(coins)
    PROVE  coins[i] \in CoinType /\ coins[i].denom \in Int /\ coins[i].amount \in Amount /\ coins[i].amount \in Int
<1>1. coins[i] \in CoinType
  BY DEF Purse
<1>2. coins[i].denom \in Denoms /\ coins[i].amount \in Amount
  BY <1>1 DEF CoinType
<1>3. \A a \in Amount : a \in Int
  BY AmountBitsAssumption DEF Amount
<1> QED BY <1>1, <1>2, <1>3, DenomsAssumption, Zenon

-----------------------------------------------------------------------------
(* The arithmetic of int64.                                                *)

\* Equal in the arithmetic of int64.
Cong(x, y) == \E k \in Int : x = y + k * (2 * Half)

\* A remainder is below the divisor, and off by a multiple of it.
LEMMA ModFits ==
    ASSUME NEW a \in Int, NEW m \in Nat \ {0}
    PROVE  a % m \in 0 .. m - 1 /\ \E k \in Int : a % m = a + k * m
<1>1. a % m \in 0 .. m - 1
  OBVIOUS
<1>2. a % m = a + (-(a \div m)) * m /\ -(a \div m) \in Int
  OBVIOUS
<1> QED BY <1>1, <1>2, Zenon

\* There is one remainder.
LEMMA ModUnique ==
    ASSUME NEW m \in Nat \ {0}, NEW a \in 0 .. m - 1, NEW b \in 0 .. m - 1,
           NEW k \in Int, a = b + k * m
    PROVE  a = b
<1>1. k < 1
  <2>1. k >= 1 => k * m >= m
    OBVIOUS
  <2>2. k * m < m
    OBVIOUS
  <2> QED BY <2>1, <2>2
<1>2. k > -1
  <2>1. k <= -1 => k * m <= -m
    OBVIOUS
  <2>2. k * m > -m
    OBVIOUS
  <2> QED BY <2>1, <2>2
<1>3. k = 0
  BY <1>1, <1>2
<1> QED BY <1>3

\* The sum that int64 holds is an amount, and differs by a multiple of 2^64.
LEMMA WrapFits == ASSUME NEW n \in Int PROVE Wrap(n) \in Amount /\ Cong(Wrap(n), n)
<1> DEFINE m == 2 * Half
<1>1. m \in Nat \ {0} /\ n + Half \in Int /\ Half \in Nat
  BY AmountBitsAssumption
<1> HIDE DEF m
<1>2. (n + Half) % m \in 0 .. m - 1
  BY <1>1, ModFits
<1>3. PICK k \in Int : (n + Half) % m = n + Half + k * m
  BY <1>1, ModFits, Zenon
<1>4. Wrap(n) = ((n + Half) % m) - Half
  BY DEF Wrap, m
<1>5. Wrap(n) \in Amount
  BY <1>1, <1>2, <1>4 DEF Amount, m
<1>6. Wrap(n) = n + k * m
  <2>1. k * m \in Int
    BY <1>1
  <2> HIDE DEF m
  <2> QED BY <1>1, <1>3, <1>4, <2>1
<1> QED BY <1>5, <1>6 DEF Cong, m

\* Sums of equals are equal in that arithmetic.
LEMMA CongSum ==
    ASSUME NEW a \in Int, NEW b \in Int, NEW x \in Int, NEW y \in Int, Cong(a, x), Cong(b, y)
    PROVE  Cong(a + b, x + y)
<1> DEFINE m == 2 * Half
<1>1. m \in Int
  BY AmountBitsAssumption
<1>2. PICK k \in Int, l \in Int : a = x + k * m /\ b = y + l * m
  BY DEF Cong
<1> HIDE DEF m
<1>3. (k + l) * m = k * m + l * m /\ k * m \in Int /\ l * m \in Int
  BY <1>1
<1>4. a + b = x + y + (k + l) * m /\ k + l \in Int
  BY <1>2, <1>3
<1> QED BY <1>4 DEF Cong, m

\* It is reflexive,
LEMMA CongSame == ASSUME NEW a \in Int PROVE Cong(a, a)
<1>1. a = a + 0 * (2 * Half) /\ 0 \in Int
  BY AmountBitsAssumption
<1> QED BY <1>1 DEF Cong

\* symmetric
LEMMA CongFlip ==
    ASSUME NEW a \in Int, NEW b \in Int, Cong(a, b)
    PROVE  Cong(b, a)
<1> DEFINE m == 2 * Half
<1>1. m \in Int
  BY AmountBitsAssumption
<1>2. PICK k \in Int : a = b + k * m
  BY DEF Cong
<1> HIDE DEF m
<1>3. k * m \in Int /\ (-k) * m = -(k * m) /\ -k \in Int
  BY <1>1
<1>4. b = a + (-k) * m
  BY <1>2, <1>3
<1> QED BY <1>3, <1>4 DEF Cong, m

\* and transitive;
LEMMA CongChain ==
    ASSUME NEW a \in Int, NEW b \in Int, NEW c \in Int, Cong(a, b), Cong(b, c)
    PROVE  Cong(a, c)
<1> DEFINE m == 2 * Half
<1>1. m \in Int
  BY AmountBitsAssumption
<1>2. PICK k \in Int, l \in Int : a = b + k * m /\ b = c + l * m
  BY DEF Cong
<1> HIDE DEF m
<1>3. (k + l) * m = k * m + l * m /\ k * m \in Int /\ l * m \in Int
  BY <1>1
<1>4. a = c + (k + l) * m /\ k + l \in Int
  BY <1>2, <1>3
<1> QED BY <1>4 DEF Cong, m

\* two amounts that are equal in it are the same,
LEMMA CongAmounts ==
    ASSUME NEW a \in Amount, NEW b \in Amount, Cong(a, b)
    PROVE  a = b
<1> DEFINE m == 2 * Half
<1>1. m \in Nat \ {0} /\ Half \in Nat /\ a + Half \in 0 .. m - 1 /\ b + Half \in 0 .. m - 1
  BY AmountBitsAssumption DEF Amount
<1>2. PICK k \in Int : a = b + k * m
  BY DEF Cong
<1>0. a \in Int /\ b \in Int
  BY AmountBitsAssumption DEF Amount
<1> HIDE DEF m
<1>3. a + Half = (b + Half) + k * m
  <2>1. k * m \in Int
    BY <1>1
  <2> QED BY <1>0, <1>1, <1>2, <2>1
<1>4. a + Half = b + Half
  BY <1>1, <1>3, ModUnique
<1> QED BY <1>0, <1>1, <1>4

\* and equal numbers wrap to the same amount.
LEMMA WrapCong ==
    ASSUME NEW x \in Int, NEW y \in Int, Cong(x, y)
    PROVE  Wrap(x) = Wrap(y)
<1>1. Wrap(x) \in Amount /\ Wrap(y) \in Amount /\ Cong(Wrap(x), x) /\ Cong(Wrap(y), y)
  BY WrapFits
<1>2. \A a \in Amount : a \in Int
  BY AmountBitsAssumption DEF Amount
<1>3. Cong(Wrap(x), y)
  BY <1>1, <1>2, CongChain
<1>4. Cong(y, Wrap(y))
  BY <1>1, <1>2, CongFlip
<1>5. Cong(Wrap(x), Wrap(y))
  BY <1>1, <1>2, <1>3, <1>4, CongChain
<1> QED BY <1>1, <1>5, CongAmounts

-----------------------------------------------------------------------------
(* Coins.Plus adds.                                                        *)

\* Coin.Plus of two coins of one denomination is their sum in int64, or nothing.
LEMMA MergedFits ==
    ASSUME NEW a \in CoinType, NEW b \in CoinType, a.denom = b.denom, NEW d
    PROVE  /\ merged(a, b) \in Purse
           /\ \/ merged(a, b) = << >> /\ Cong(0, Share(a, d) + Share(b, d))
              \/ \E c \in CoinType : /\ merged(a, b) = <<c>> /\ c.denom = a.denom
                                     /\ c.amount = Wrap(a.amount + b.amount)
                                     /\ Cong(Share(c, d), Share(a, d) + Share(b, d))
<1> DEFINE n == Wrap(a.amount + b.amount)
<1>1. /\ a.denom \in Denoms /\ a.amount \in Int /\ b.amount \in Int /\ a.amount + b.amount \in Int
  BY AmountBitsAssumption DEF CoinType, Amount
<1>2. n \in Amount /\ Cong(n, a.amount + b.amount)
  BY <1>1, WrapFits
<1>0. Cong(0, 0)
  BY CongSame
<1>3. CASE n = 0
  <2>1. merged(a, b) = << >>
    BY <1>3 DEF merged
  <2>2. Cong(0, Share(a, d) + Share(b, d))
    <3>1. Share(a, d) + Share(b, d) \in {a.amount + b.amount, 0}
      BY <1>1 DEF Share
    <3> QED BY <3>1, <1>0, <1>2, <1>3
  <2> QED BY <2>1, <2>2 DEF Purse
<1>4. CASE n # 0
  <2> DEFINE c == [denom |-> a.denom, amount |-> n]
  <2>1. merged(a, b) = <<c>>
    BY <1>4 DEF merged, Coin
  <2>2. c \in CoinType /\ c.denom = a.denom /\ c.amount = n
    BY <1>1, <1>2 DEF CoinType
  <2>3. Cong(Share(c, d), Share(a, d) + Share(b, d))
    <3>1. CASE a.denom = d
      <4>1. Share(c, d) = n /\ Share(a, d) + Share(b, d) = a.amount + b.amount
        BY <3>1, <2>2 DEF Share
      <4> QED BY <4>1, <1>2
    <3>2. CASE a.denom # d
      <4>1. Share(c, d) = 0 /\ Share(a, d) + Share(b, d) = 0
        BY <3>2, <2>2 DEF Share
      <4> QED BY <4>1, <1>0
    <3> QED BY <3>1, <3>2
  <2>4. <<c>> \in Purse
    BY <2>2 DEF Purse
  <2> QED BY <2>1, <2>2, <2>3, <2>4
<1> QED BY <1>3, <1>4

\* One turn of the loop of Coins.Plus, from the places i and j on, given the rest; the
\* places it can be at, and how far it has to go.
Pass(a, b, g, i, j) ==
    IF i > Len(a) THEN SubSeq(b, j, Len(b))
    ELSE IF j > Len(b) THEN SubSeq(a, i, Len(a))
    ELSE IF a[i].denom < b[j].denom THEN <<a[i]>> \o g[<<i + 1, j>>]
    ELSE IF a[i].denom = b[j].denom THEN merged(a[i], b[j]) \o g[<<i + 1, j + 1>>]
    ELSE <<b[j]>> \o g[<<i, j + 1>>]
Places(a, b) == (1 .. Len(a) + 1) \X (1 .. Len(b) + 1)
togo(a, b, p) == (Len(a) + 1 - p[1]) + (Len(b) + 1 - p[2])

\* A turn of the loop yields coins if the turns after it do.
LEMMA PassFits ==
    ASSUME NEW a \in Purse, NEW b \in Purse, NEW g,
           NEW i \in 1 .. Len(a) + 1, NEW j \in 1 .. Len(b) + 1,
           \A q \in Places(a, b) : togo(a, b, q) < togo(a, b, <<i, j>>) => g[q] \in Purse
    PROVE  Pass(a, b, g, i, j) \in Purse
<1>1. Len(a) \in Nat /\ Len(b) \in Nat /\ a \in Seq(CoinType) /\ b \in Seq(CoinType)
  BY DEF Purse
<1>2. CASE i > Len(a)
  BY <1>1, <1>2 DEF Pass, Purse
<1>3. CASE i <= Len(a) /\ j > Len(b)
  BY <1>1, <1>3 DEF Pass, Purse
<1>4. CASE i <= Len(a) /\ j <= Len(b)
  <2>1. a[i] \in CoinType /\ b[j] \in CoinType
    BY <1>1, <1>4
  <2>2. <<a[i]>> \in Purse /\ <<b[j]>> \in Purse
    BY <2>1 DEF Purse
  <2>3. \A s, t \in Purse : s \o t \in Purse
    BY DEF Purse
  <2>4. /\ <<i + 1, j>> \in Places(a, b) /\ togo(a, b, <<i + 1, j>>) < togo(a, b, <<i, j>>)
        /\ <<i, j + 1>> \in Places(a, b) /\ togo(a, b, <<i, j + 1>>) < togo(a, b, <<i, j>>)
        /\ <<i + 1, j + 1>> \in Places(a, b) /\ togo(a, b, <<i + 1, j + 1>>) < togo(a, b, <<i, j>>)
    BY <1>1, <1>4 DEF Places, togo
  <2>5. g[<<i + 1, j>>] \in Purse /\ g[<<i, j + 1>>] \in Purse /\ g[<<i + 1, j + 1>>] \in Purse
    BY <2>4, Zenon
  <2>6. a[i].denom = b[j].denom => merged(a[i], b[j]) \in Purse
    BY <2>1, MergedFits, Zenon
  <2>7. ~ (i > Len(a)) /\ ~ (j > Len(b))
    BY <1>1, <1>4
  <2> QED BY <2>2, <2>3, <2>5, <2>6, <2>7, Zenon DEF Pass
<1> QED BY <1>1, <1>2, <1>3, <1>4

\* A turn of the loop only needs what the turns after it yield.
LEMMA PassLooksAhead ==
    ASSUME NEW a \in Purse, NEW b \in Purse, NEW g, NEW h,
           NEW i \in 1 .. Len(a) + 1, NEW j \in 1 .. Len(b) + 1,
           \A q \in Places(a, b) : togo(a, b, q) < togo(a, b, <<i, j>>) => g[q] = h[q]
    PROVE  Pass(a, b, g, i, j) = Pass(a, b, h, i, j)
<1>1. Len(a) \in Nat /\ Len(b) \in Nat
  BY DEF Purse
<1>2. CASE i > Len(a)
  BY <1>2, Zenon DEF Pass
<1>3. CASE i <= Len(a) /\ j > Len(b)
  <2>1. ~ (i > Len(a))
    BY <1>1, <1>3
  <2> QED BY <1>3, <2>1, Zenon DEF Pass
<1>4. CASE i <= Len(a) /\ j <= Len(b)
  <2>4. /\ <<i + 1, j>> \in Places(a, b) /\ togo(a, b, <<i + 1, j>>) < togo(a, b, <<i, j>>)
        /\ <<i, j + 1>> \in Places(a, b) /\ togo(a, b, <<i, j + 1>>) < togo(a, b, <<i, j>>)
        /\ <<i + 1, j + 1>> \in Places(a, b) /\ togo(a, b, <<i + 1, j + 1>>) < togo(a, b, <<i, j>>)
    BY <1>1, <1>4 DEF Places, togo
  <2>5. /\ g[<<i + 1, j>>] = h[<<i + 1, j>>] /\ g[<<i, j + 1>>] = h[<<i, j + 1>>]
        /\ g[<<i + 1, j + 1>>] = h[<<i + 1, j + 1>>]
    BY <2>4, Zenon
  <2> QED BY <2>5, Zenon DEF Pass
<1> QED BY <1>1, <1>2, <1>3, <1>4

\* The results of all the turns of Coins.Plus.
Merges(a, b, g) ==
    \A i \in 1 .. Len(a) + 1, j \in 1 .. Len(b) + 1 : g[<<i, j>>] = Pass(a, b, g, i, j)

\* Those results exist.
LEMMA MergeExists ==
    ASSUME NEW a \in Purse, NEW b \in Purse
    PROVE  \E g \in [Places(a, b) -> Purse] : Merges(a, b, g)
<1> DEFINE D == Places(a, b)
           top == Len(a) + Len(b)
           mu == [p \in D |-> togo(a, b, p)]
           F == [p \in D |-> [g \in [D -> Purse] |-> Pass(a, b, g, p[1], p[2])]]
<1>0. Len(a) \in Nat /\ Len(b) \in Nat /\ top \in Nat
  BY DEF Purse
<1>1. ASSUME NEW p \in D
      PROVE  /\ p[1] \in 1 .. Len(a) + 1 /\ p[2] \in 1 .. Len(b) + 1 /\ p = <<p[1], p[2]>>
             /\ togo(a, b, p) \in 0 .. top
  BY <1>0, SMTT(30) DEF Places, togo
<1>2. mu \in [D -> 0 .. top]
  BY <1>1
<1>3. << >> \in Purse
  BY DEF Purse
<1>4. ASSUME NEW p \in D, NEW g \in [D -> Purse]
      PROVE  Pass(a, b, g, p[1], p[2]) \in Purse
  BY <1>1, PassFits
<1>5. F \in [D -> [[D -> Purse] -> Purse]]
  BY <1>4, Zenon
<1>6. ASSUME NEW p \in D, NEW g \in [D -> Purse] PROVE F[p][g] = Pass(a, b, g, p[1], p[2])
  BY Zenon
<1>7. LooksBelow(D, Purse, mu, F)
  <2> SUFFICES ASSUME NEW p \in D, NEW g \in [D -> Purse], NEW h \in [D -> Purse],
                      \A y \in D : mu[y] < mu[p] => g[y] = h[y]
               PROVE  F[p][g] = F[p][h]
    BY Zenon DEF LooksBelow
  <2>1. \A y \in D : togo(a, b, y) < togo(a, b, p) => g[y] = h[y]
    BY Zenon
  <2>2. Pass(a, b, g, p[1], p[2]) = Pass(a, b, h, p[1], p[2])
    <3>1. \A y \in Places(a, b) : togo(a, b, y) < togo(a, b, <<p[1], p[2]>>) => g[y] = h[y]
      BY <2>1, <1>1, Zenon
    <3> QED BY <3>1, <1>1, PassLooksAhead
  <2> QED BY <2>2, <1>6, Zenon
<1> HIDE DEF F, mu, top
<1>8. PICK g \in [D -> Purse] : Obeys(D, F, g)
  <2> HIDE DEF D
  <2> QED BY <1>0, <1>2, <1>3, <1>5, <1>7, Recursion, Zenon
<1>9. ASSUME NEW i \in 1 .. Len(a) + 1, NEW j \in 1 .. Len(b) + 1
      PROVE  g[<<i, j>>] = Pass(a, b, g, i, j)
  <2>1. <<i, j>> \in D /\ <<i, j>>[1] = i /\ <<i, j>>[2] = j
    BY DEF Places
  <2>2. g[<<i, j>>] = F[<<i, j>>][g]
    BY <2>1, <1>8, Zenon DEF Obeys
  <2>3. F[<<i, j>>][g] = Pass(a, b, g, <<i, j>>[1], <<i, j>>[2])
    <3> HIDE DEF D
    <3> QED BY <2>1, <1>6, Zenon
  <2> QED BY <2>1, <2>2, <2>3
<1> QED BY <1>9, Zenon DEF Merges

\* Coins.Plus is the result of its first turn.
LEMMA PlusMerges ==
    ASSUME NEW a \in Purse, NEW b \in Purse, NEW f \in [Places(a, b) -> Purse], Merges(a, b, f)
    PROVE  \E g : Merges(a, b, g) /\ Plus(a, b) = g[<<1, 1>>]
<1> DEFINE Run(g) == g = [p \in Places(a, b) |-> Pass(a, b, g, p[1], p[2])]
<1>0. Len(a) \in Nat /\ Len(b) \in Nat
  BY DEF Purse
<1>1. Run(f)
  <2>1. ASSUME NEW p \in Places(a, b) PROVE f[p] = Pass(a, b, f, p[1], p[2])
    <3>1. p[1] \in 1 .. Len(a) + 1 /\ p[2] \in 1 .. Len(b) + 1 /\ p = <<p[1], p[2]>>
      BY <1>0 DEF Places
    <3> QED BY <3>1 DEF Merges
  <2> QED BY <2>1, Zenon
<1>2. Run(CHOOSE g : Run(g))
  BY <1>1, Zenon
<1>3. Plus(a, b) = (CHOOSE g : Run(g))[<<1, 1>>]
  BY Zenon DEF Plus, Pass, Places
<1> DEFINE h == CHOOSE g : Run(g)
<1> HIDE DEF h
<1>4. h = [p \in Places(a, b) |-> Pass(a, b, h, p[1], p[2])]
  BY <1>2, Zenon DEF h
<1>5. ASSUME NEW i \in 1 .. Len(a) + 1, NEW j \in 1 .. Len(b) + 1
      PROVE  h[<<i, j>>] = Pass(a, b, h, i, j)
  <2> DEFINE at(p) == Pass(a, b, h, p[1], p[2])
  <2>1. <<i, j>> \in Places(a, b)
    BY DEF Places
  <2>2. h = [p \in Places(a, b) |-> at(p)]
    BY <1>4, Zenon
  <2>3. h[<<i, j>>] = at(<<i, j>>)
    <3> HIDE DEF at
    <3> QED BY <2>1, <2>2, Zenon
  <2>4. <<i, j>>[1] = i /\ <<i, j>>[2] = j
    OBVIOUS
  <2> QED BY <2>3, <2>4
<1>6. Merges(a, b, h)
  BY <1>5, Zenon DEF Merges
<1> QED BY <1>3, <1>6, Zenon DEF h

\* The coins from the i-th on.
Rest(a, i) == SubSeq(a, i, Len(a))

\* What the rest of a list is.
LEMMA RestFits ==
    ASSUME NEW a \in Purse, NEW i \in 1 .. Len(a) + 1
    PROVE  /\ Rest(a, i) \in Purse
           /\ Rest(a, 1) = a
           /\ i > Len(a) => Rest(a, i) = << >>
           /\ i <= Len(a) => Rest(a, i) = <<a[i]>> \o Rest(a, i + 1) /\ Rest(a, i + 1) \in Purse
<1>1. a \in Seq(CoinType) /\ Len(a) \in Nat
  BY DEF Purse
<1>2. Rest(a, i) \in Purse
  BY <1>1 DEF Rest, Purse
<1>3. Rest(a, 1) = a
  BY <1>1 DEF Rest
<1>4. i > Len(a) => Rest(a, i) = << >>
  BY <1>1 DEF Rest
<1>5. ASSUME i <= Len(a) PROVE Rest(a, i) = <<a[i]>> \o Rest(a, i + 1)
  BY <1>1, <1>5 DEF Rest
<1>6. i <= Len(a) => Rest(a, i + 1) \in Purse
  BY <1>1 DEF Rest, Purse
<1> QED BY <1>2, <1>3, <1>4, <1>5, <1>6

\* The total of the rest of a list, coin by coin.
LEMMA TotalRest ==
    ASSUME NEW a \in Purse, NEW i \in 1 .. Len(a), NEW d
    PROVE  /\ Total(Rest(a, i), d) = Share(a[i], d) + Total(Rest(a, i + 1), d)
           /\ Share(a[i], d) \in Int /\ Total(Rest(a, i + 1), d) \in Int
<1>1. a \in Seq(CoinType) /\ Len(a) \in Nat /\ a[i] \in CoinType
  BY DEF Purse
<1>2. Rest(a, i) = <<a[i]>> \o Rest(a, i + 1) /\ Rest(a, i + 1) \in Purse
  <2>1. i \in 1 .. Len(a) + 1 /\ i <= Len(a)
    BY <1>1
  <2> QED BY <2>1, RestFits, Zenon
<1> QED BY <1>1, <1>2, TotalCons, TotalInt, ShareInt DEF Purse

\* The result of a turn adds up to what the rests of both lists hold.
Adds(a, b, g, d, p) ==
    /\ g[p] \in Purse
    /\ Cong(Total(g[p], d), Total(Rest(a, p[1]), d) + Total(Rest(b, p[2]), d))

\* A turn of the loop adds up if the turns after it do.
LEMMA PassAdds ==
    ASSUME NEW a \in Purse, NEW b \in Purse, NEW g, NEW d,
           NEW i \in 1 .. Len(a) + 1, NEW j \in 1 .. Len(b) + 1,
           \A q \in Places(a, b) : togo(a, b, q) < togo(a, b, <<i, j>>) => Adds(a, b, g, d, q),
           NEW s, s = Pass(a, b, g, i, j)
    PROVE  s \in Purse /\ Cong(Total(s, d), Total(Rest(a, i), d) + Total(Rest(b, j), d))
<1>0. Len(a) \in Nat /\ Len(b) \in Nat
  BY DEF Purse
<1>a. s \in Purse
  <2>1. \A q \in Places(a, b) : togo(a, b, q) < togo(a, b, <<i, j>>) => g[q] \in Purse
    BY Zenon DEF Adds
  <2> QED BY <2>1, PassFits
<1>b. Rest(a, i) \in Purse /\ Rest(b, j) \in Purse
  BY RestFits, Zenon
<1>c. Total(Rest(a, i), d) \in Int /\ Total(Rest(b, j), d) \in Int /\ Total(s, d) \in Int
  BY <1>a, <1>b, TotalInt DEF Purse
<1>1. CASE i > Len(a)
  <2>1. s = Rest(b, j) /\ Rest(a, i) = << >>
    BY <1>1, RestFits DEF Pass, Rest
  <2>2. Total(Rest(a, i), d) = 0
    BY <2>1, TotalEmpty
  <2>3. Total(s, d) = Total(Rest(a, i), d) + Total(Rest(b, j), d)
    BY <2>1, <2>2, <1>c
  <2> QED BY <2>3, <1>a, <1>c, CongSame
<1>2. CASE i <= Len(a) /\ j > Len(b)
  <2>1. s = Rest(a, i) /\ Rest(b, j) = << >>
    <3>1. ~ (i > Len(a))
      BY <1>0, <1>2
    <3>2. s = Rest(a, i)
      BY <1>2, <3>1, Zenon DEF Pass, Rest
    <3> QED BY <1>2, <3>2, RestFits, Zenon
  <2>2. Total(Rest(b, j), d) = 0
    BY <2>1, TotalEmpty
  <2>3. Total(s, d) = Total(Rest(a, i), d) + Total(Rest(b, j), d)
    BY <2>1, <2>2, <1>c
  <2> QED BY <2>3, <1>a, <1>c, CongSame
<1>3. CASE i <= Len(a) /\ j <= Len(b)
  <2>0. i \in 1 .. Len(a) /\ j \in 1 .. Len(b) /\ ~ (i > Len(a)) /\ ~ (j > Len(b))
    BY <1>0, <1>3
  <2> DEFINE A == Total(Rest(a, i + 1), d)
             B == Total(Rest(b, j + 1), d)
  <2>1. /\ Total(Rest(a, i), d) = Share(a[i], d) + A /\ A \in Int /\ Share(a[i], d) \in Int
        /\ Total(Rest(b, j), d) = Share(b[j], d) + B /\ B \in Int /\ Share(b[j], d) \in Int
    BY <2>0, TotalRest
  <2>2. a[i] \in CoinType /\ b[j] \in CoinType
    BY <2>0 DEF Purse
  <2>3. /\ <<i + 1, j>> \in Places(a, b) /\ togo(a, b, <<i + 1, j>>) < togo(a, b, <<i, j>>)
        /\ <<i, j + 1>> \in Places(a, b) /\ togo(a, b, <<i, j + 1>>) < togo(a, b, <<i, j>>)
        /\ <<i + 1, j + 1>> \in Places(a, b) /\ togo(a, b, <<i + 1, j + 1>>) < togo(a, b, <<i, j>>)
    BY <1>0, <1>3 DEF Places, togo
  <2>4. /\ g[<<i + 1, j>>] \in Purse /\ Cong(Total(g[<<i + 1, j>>], d), A + Total(Rest(b, j), d))
        /\ g[<<i, j + 1>>] \in Purse /\ Cong(Total(g[<<i, j + 1>>], d), Total(Rest(a, i), d) + B)
        /\ g[<<i + 1, j + 1>>] \in Purse /\ Cong(Total(g[<<i + 1, j + 1>>], d), A + B)
    <3>1. Adds(a, b, g, d, <<i + 1, j>>) /\ Adds(a, b, g, d, <<i, j + 1>>)
          /\ Adds(a, b, g, d, <<i + 1, j + 1>>)
      BY <2>3, Zenon
    <3> QED BY <3>1 DEF Adds
  <2> HIDE DEF A, B
  <2>5. ASSUME NEW c \in CoinType, NEW t \in Purse, NEW x \in Int, NEW y \in Int,
               Cong(Share(c, d), x), Cong(Total(t, d), y)
        PROVE  Cong(Total(<<c>> \o t, d), x + y)
    <3>1. Total(<<c>> \o t, d) = Share(c, d) + Total(t, d) /\ Share(c, d) \in Int /\ Total(t, d) \in Int
      BY TotalCons, ShareInt, TotalInt DEF Purse
    <3> QED BY <3>1, <2>5, CongSum
  <2>6. CASE a[i].denom < b[j].denom
    <3>1. s = <<a[i]>> \o g[<<i + 1, j>>]
      BY <2>0, <2>6, Zenon DEF Pass
    <3>2. Cong(Total(s, d), Share(a[i], d) + (A + Total(Rest(b, j), d)))
      <4>1. A + Total(Rest(b, j), d) \in Int /\ Cong(Share(a[i], d), Share(a[i], d))
        BY <2>1, <1>c, CongSame
      <4> QED BY <2>1, <2>2, <2>4, <2>5, <3>1, <4>1, Zenon
    <3>3. Share(a[i], d) + (A + Total(Rest(b, j), d)) = Total(Rest(a, i), d) + Total(Rest(b, j), d)
      BY <2>1, <1>c
    <3> QED BY <3>2, <3>3, <1>a
  <2>7. CASE ~ (a[i].denom < b[j].denom) /\ a[i].denom = b[j].denom
    <3>1. s = merged(a[i], b[j]) \o g[<<i + 1, j + 1>>]
      BY <2>0, <2>7, Zenon DEF Pass
    <3>2. Total(g[<<i + 1, j + 1>>], d) \in Int /\ g[<<i + 1, j + 1>>] \in Seq(CoinType)
      BY <2>4, TotalInt DEF Purse
    <3>a. Share(a[i], d) + Share(b[j], d) \in Int /\ A + B \in Int /\ 0 \in Int
      BY <2>1
    <3>3. Cong(Total(s, d), (Share(a[i], d) + Share(b[j], d)) + (A + B))
      <4>1. CASE merged(a[i], b[j]) = << >> /\ Cong(0, Share(a[i], d) + Share(b[j], d))
        <5>1. s = g[<<i + 1, j + 1>>]
          BY <3>1, <4>1, <3>2
        <5>2. Cong(0 + Total(s, d), (Share(a[i], d) + Share(b[j], d)) + (A + B))
          BY <5>1, <4>1, <3>2, <2>4, <3>a, CongSum, Zenon
        <5>3. 0 + Total(s, d) = Total(s, d)
          BY <1>c
        <5> QED BY <5>2, <5>3
      <4>2. ASSUME NEW c \in CoinType, merged(a[i], b[j]) = <<c>>,
                   Cong(Share(c, d), Share(a[i], d) + Share(b[j], d))
            PROVE  Cong(Total(s, d), (Share(a[i], d) + Share(b[j], d)) + (A + B))
        BY <4>2, <3>1, <3>a, <2>4, <2>5, Zenon
      <4> QED BY <4>1, <4>2, <2>2, <2>7, MergedFits
    <3>4. (Share(a[i], d) + Share(b[j], d)) + (A + B) = Total(Rest(a, i), d) + Total(Rest(b, j), d)
      BY <2>1
    <3> QED BY <3>3, <3>4, <1>a
  <2>8. CASE ~ (a[i].denom < b[j].denom) /\ a[i].denom # b[j].denom
    <3>1. s = <<b[j]>> \o g[<<i, j + 1>>]
      BY <2>0, <2>8, Zenon DEF Pass
    <3>2. Cong(Total(s, d), Share(b[j], d) + (Total(Rest(a, i), d) + B))
      <4>1. Total(Rest(a, i), d) + B \in Int /\ Cong(Share(b[j], d), Share(b[j], d))
        BY <2>1, <1>c, CongSame
      <4> QED BY <2>1, <2>2, <2>4, <2>5, <3>1, <4>1, Zenon
    <3>3. Share(b[j], d) + (Total(Rest(a, i), d) + B) = Total(Rest(a, i), d) + Total(Rest(b, j), d)
      BY <2>1, <1>c
    <3> QED BY <3>2, <3>3, <1>a
  <2> QED BY <2>6, <2>7, <2>8
<1> QED BY <1>0, <1>1, <1>2, <1>3

\* Coins.Plus adds in the arithmetic of int64, whatever the order of the coins.
THEOREM PlusAdds ==
    ASSUME NEW a \in Purse, NEW b \in Purse, NEW d
    PROVE  /\ Plus(a, b) \in Purse
           /\ Cong(Total(Plus(a, b), d), Total(a, d) + Total(b, d))
<1>0. Len(a) \in Nat /\ Len(b) \in Nat
  BY DEF Purse
<1>1. PICK g : Merges(a, b, g) /\ Plus(a, b) = g[<<1, 1>>]
  BY MergeExists, PlusMerges, Zenon
<1> DEFINE D == Places(a, b)
           mu == [p \in D |-> togo(a, b, p)]
           S == {p \in D : Adds(a, b, g, d, p)}
<1>2. ASSUME NEW p \in D
      PROVE  /\ p[1] \in 1 .. Len(a) + 1 /\ p[2] \in 1 .. Len(b) + 1 /\ p = <<p[1], p[2]>>
             /\ togo(a, b, p) \in Nat
  BY <1>0, SMTT(30) DEF Places, togo
<1>3. mu \in [D -> Nat]
  BY <1>2
<1>4. Inherits(D, mu, S)
  <2> SUFFICES ASSUME NEW p \in D, \A y \in D : mu[y] < mu[p] => y \in S
               PROVE  p \in S
    BY Zenon DEF Inherits
  <2>1. \A q \in Places(a, b) : togo(a, b, q) < togo(a, b, p) => Adds(a, b, g, d, q)
    BY Zenon
  <2>2. g[p] = Pass(a, b, g, p[1], p[2])
    BY <1>1, <1>2 DEF Merges
  <2>3. PICK i \in 1 .. Len(a) + 1, j \in 1 .. Len(b) + 1 : i = p[1] /\ j = p[2] /\ p = <<i, j>>
    BY <1>2, Zenon
  <2>4. \A q \in Places(a, b) : togo(a, b, q) < togo(a, b, <<i, j>>) => Adds(a, b, g, d, q)
    BY <2>1, <2>3, Zenon
  <2>5. g[p] \in Purse /\ Cong(Total(g[p], d), Total(Rest(a, i), d) + Total(Rest(b, j), d))
    BY <2>2, <2>3, <2>4, PassAdds, Zenon
  <2> QED BY <2>3, <2>5, Zenon DEF Adds
<1>5. \A p \in D : p \in S
  <2> HIDE DEF S, mu, D
  <2> QED BY <1>3, <1>4, ByMeasure, Zenon
<1>6. <<1, 1>> \in D /\ 1 \in 1 .. Len(a) + 1 /\ 1 \in 1 .. Len(b) + 1
  BY <1>0 DEF Places
<1>7. Adds(a, b, g, d, <<1, 1>>)
  BY <1>5, <1>6
<1>8. Rest(a, 1) = a /\ Rest(b, 1) = b
  BY <1>6, RestFits, Zenon
<1>9. <<1, 1>>[1] = 1 /\ <<1, 1>>[2] = 1
  OBVIOUS
<1> QED BY <1>1, <1>7, <1>8, <1>9 DEF Adds

\* Coins.Plus of nothing and a list is the list.
LEMMA PlusEmpty ==
    ASSUME NEW b \in Purse
    PROVE  Plus(<< >>, b) = b
<1>0. << >> \in Purse /\ Len(<< >>) = 0 /\ Len(b) \in Nat
  BY DEF Purse
<1>1. PICK g : Merges(<< >>, b, g) /\ Plus(<< >>, b) = g[<<1, 1>>]
  BY <1>0, MergeExists, PlusMerges, Zenon
<1>2. 1 \in 1 .. Len(<< >>) + 1 /\ 1 \in 1 .. Len(b) + 1 /\ 1 > Len(<< >>)
  BY <1>0
<1>3. g[<<1, 1>>] = SubSeq(b, 1, Len(b))
  BY <1>1, <1>2, Zenon DEF Merges, Pass
<1>4. SubSeq(b, 1, Len(b)) = b
  BY DEF Purse
<1> QED BY <1>1, <1>3, <1>4

-----------------------------------------------------------------------------
(* Coins.AmountOf finds.                                                   *)

\* One step of the binary search in Coins.AmountOf on coins[lo .. hi], given what the
\* smaller parts yield; the parts there can be, and their width.
Search(coins, denom, g, lo, hi) ==
    LET len == hi - lo + 1
        mid == lo + (len \div 2)
    IN  IF len <= 0 THEN 0
        ELSE IF len = 1 THEN IF coins[lo].denom = denom THEN coins[lo].amount ELSE 0
        ELSE IF denom < coins[mid].denom THEN g[<<lo, mid - 1>>]
        ELSE IF denom = coins[mid].denom THEN coins[mid].amount
        ELSE g[<<above(mid), hi>>]
Parts(coins) == (1 .. Len(coins) + 2) \X (0 .. Len(coins))
width(p) == IF p[2] - p[1] + 1 <= 0 THEN 0 ELSE p[2] - p[1] + 1

\* The search goes on in a smaller part.
LEMMA SearchNarrows ==
    ASSUME NEW coins \in Purse, NEW lo \in 1 .. Len(coins) + 2, NEW hi \in 0 .. Len(coins),
           ~ (hi - lo + 1 <= 0), NEW mid, mid = lo + ((hi - lo + 1) \div 2)
    PROVE  /\ lo \in 1 .. Len(coins) /\ mid \in 1 .. Len(coins) /\ coins[lo] \in CoinType
           /\ hi - lo + 1 # 1 =>
                /\ lo < mid /\ mid <= hi /\ coins[mid] \in CoinType
                /\ <<lo, mid - 1>> \in Parts(coins) /\ width(<<lo, mid - 1>>) < width(<<lo, hi>>)
                /\ <<above(mid), hi>> \in Parts(coins) /\ width(<<above(mid), hi>>) < width(<<lo, hi>>)
<1>0. Len(coins) \in Nat /\ coins \in Seq(CoinType)
  BY DEF Purse
<1>1. lo \in Int /\ hi \in Int /\ lo <= hi /\ hi <= Len(coins) /\ 1 <= lo
  BY <1>0
<1>3. mid \in 1 .. Len(coins)
  BY <1>0, <1>1
<1>4. hi - lo + 1 # 1 => lo < mid /\ mid <= hi
  BY <1>1
<1>5. ASSUME hi - lo + 1 # 1
      PROVE  /\ <<lo, mid - 1>> \in Parts(coins) /\ width(<<lo, mid - 1>>) < width(<<lo, hi>>)
             /\ <<above(mid), hi>> \in Parts(coins) /\ width(<<above(mid), hi>>) < width(<<lo, hi>>)
  BY <1>0, <1>1, <1>3, <1>4, <1>5 DEF Parts, width, above
<1> QED BY <1>0, <1>1, <1>3, <1>4, <1>5

\* v is the amount of the denomination in coins[lo .. hi].
Finds(coins, denom, lo, hi, v) ==
    \/ \E i \in lo .. hi : coins[i].denom = denom /\ v = coins[i].amount
    \/ (\A i \in lo .. hi : coins[i].denom # denom) /\ v = 0

\* A step of the search yields a number if the smaller parts do.
LEMMA SearchFits ==
    ASSUME NEW coins \in Purse, NEW denom, NEW lo \in 1 .. Len(coins) + 2, NEW hi \in 0 .. Len(coins),
           NEW g, \A q \in Parts(coins) : width(q) < width(<<lo, hi>>) => g[q] \in Int
    PROVE  Search(coins, denom, g, lo, hi) \in Int
<1> DEFINE mid == lo + ((hi - lo + 1) \div 2)
<1>0. \A c \in CoinType : c.amount \in Int
  BY AmountBitsAssumption DEF CoinType, Amount
<1>1. CASE hi - lo + 1 <= 0
  BY <1>1 DEF Search
<1>2. CASE ~ (hi - lo + 1 <= 0) /\ hi - lo + 1 = 1
  <2>1. coins[lo].amount \in Int
    BY <1>0, <1>2, SearchNarrows, Zenon
  <2> QED BY <1>2, <2>1 DEF Search
<1>3. CASE ~ (hi - lo + 1 <= 0) /\ hi - lo + 1 # 1
  <2>1. /\ coins[mid] \in CoinType
        /\ <<lo, mid - 1>> \in Parts(coins) /\ width(<<lo, mid - 1>>) < width(<<lo, hi>>)
        /\ <<above(mid), hi>> \in Parts(coins) /\ width(<<above(mid), hi>>) < width(<<lo, hi>>)
    BY <1>3, SearchNarrows
  <2>2. coins[mid].amount \in Int /\ g[<<lo, mid - 1>>] \in Int /\ g[<<above(mid), hi>>] \in Int
    BY <1>0, <2>1, Zenon
  <2> QED BY <1>3, <2>2, Zenon DEF Search
<1> QED BY <1>1, <1>2, <1>3

\* A step of the search only needs what smaller parts yield.
LEMMA SearchLooksInside ==
    ASSUME NEW coins \in Purse, NEW denom, NEW lo \in 1 .. Len(coins) + 2, NEW hi \in 0 .. Len(coins),
           NEW g, NEW h, \A q \in Parts(coins) : width(q) < width(<<lo, hi>>) => g[q] = h[q]
    PROVE  Search(coins, denom, g, lo, hi) = Search(coins, denom, h, lo, hi)
<1> DEFINE mid == lo + ((hi - lo + 1) \div 2)
<1>1. CASE hi - lo + 1 <= 0 \/ hi - lo + 1 = 1
  BY <1>1, Zenon DEF Search
<1>3. CASE ~ (hi - lo + 1 <= 0) /\ hi - lo + 1 # 1
  <2>1. /\ <<lo, mid - 1>> \in Parts(coins) /\ width(<<lo, mid - 1>>) < width(<<lo, hi>>)
        /\ <<above(mid), hi>> \in Parts(coins) /\ width(<<above(mid), hi>>) < width(<<lo, hi>>)
    BY <1>3, SearchNarrows
  <2>2. g[<<lo, mid - 1>>] = h[<<lo, mid - 1>>] /\ g[<<above(mid), hi>>] = h[<<above(mid), hi>>]
    BY <2>1, Zenon
  <2> QED BY <2>2, Zenon DEF Search
<1> QED BY <1>1, <1>3

\* The results of the search on all parts.
Searches(coins, denom, g) ==
    \A lo \in 1 .. Len(coins) + 2, hi \in 0 .. Len(coins) : g[<<lo, hi>>] = Search(coins, denom, g, lo, hi)

\* Those results exist.
LEMMA SearchExists ==
    ASSUME NEW coins \in Purse, NEW denom
    PROVE  \E g \in [Parts(coins) -> Int] : Searches(coins, denom, g)
<1> DEFINE D == Parts(coins)
           mu == [p \in D |-> width(p)]
           F == [p \in D |-> [g \in [D -> Int] |-> Search(coins, denom, g, p[1], p[2])]]
<1>0. Len(coins) \in Nat
  BY DEF Purse
<1>1. ASSUME NEW p \in D
      PROVE  /\ p[1] \in 1 .. Len(coins) + 2 /\ p[2] \in 0 .. Len(coins) /\ p = <<p[1], p[2]>>
             /\ width(p) \in 0 .. Len(coins)
  BY <1>0 DEF Parts, width
<1>2. mu \in [D -> 0 .. Len(coins)]
  BY <1>1
<1>3. 0 \in Int
  OBVIOUS
<1>4. ASSUME NEW p \in D, NEW g \in [D -> Int]
      PROVE  Search(coins, denom, g, p[1], p[2]) \in Int
  BY <1>1, SearchFits
<1>5. F \in [D -> [[D -> Int] -> Int]]
  BY <1>4, Zenon
<1>6. ASSUME NEW p \in D, NEW g \in [D -> Int] PROVE F[p][g] = Search(coins, denom, g, p[1], p[2])
  BY Zenon
<1>7. LooksBelow(D, Int, mu, F)
  <2> SUFFICES ASSUME NEW p \in D, NEW g \in [D -> Int], NEW h \in [D -> Int],
                      \A y \in D : mu[y] < mu[p] => g[y] = h[y]
               PROVE  F[p][g] = F[p][h]
    BY Zenon DEF LooksBelow
  <2>1. \A y \in D : width(y) < width(p) => g[y] = h[y]
    BY Zenon
  <2>2. Search(coins, denom, g, p[1], p[2]) = Search(coins, denom, h, p[1], p[2])
    <3>1. \A y \in Parts(coins) : width(y) < width(<<p[1], p[2]>>) => g[y] = h[y]
      BY <2>1, <1>1, Zenon
    <3> QED BY <3>1, <1>1, SearchLooksInside
  <2> QED BY <2>2, <1>6, Zenon
<1> HIDE DEF F, mu
<1>8. PICK g \in [D -> Int] : Obeys(D, F, g)
  <2> HIDE DEF D
  <2> QED BY <1>0, <1>2, <1>3, <1>5, <1>7, Recursion, Zenon
<1>9. ASSUME NEW lo \in 1 .. Len(coins) + 2, NEW hi \in 0 .. Len(coins)
      PROVE  g[<<lo, hi>>] = Search(coins, denom, g, lo, hi)
  <2>1. <<lo, hi>> \in D /\ <<lo, hi>>[1] = lo /\ <<lo, hi>>[2] = hi
    BY DEF Parts
  <2>2. g[<<lo, hi>>] = F[<<lo, hi>>][g]
    BY <2>1, <1>8, Zenon DEF Obeys
  <2>3. F[<<lo, hi>>][g] = Search(coins, denom, g, <<lo, hi>>[1], <<lo, hi>>[2])
    <3> HIDE DEF D
    <3> QED BY <2>1, <1>6, Zenon
  <2> QED BY <2>1, <2>2, <2>3
<1> QED BY <1>9, Zenon DEF Searches

\* Coins.AmountOf is the result on the whole list.
LEMMA AmountOfSearches ==
    ASSUME NEW coins \in Purse, NEW denom
    PROVE  \E g : Searches(coins, denom, g) /\ AmountOf(coins, denom) = g[<<1, Len(coins)>>]
<1> DEFINE Run(g) == g = [p \in Parts(coins) |-> Search(coins, denom, g, p[1], p[2])]
<1>0. Len(coins) \in Nat
  BY DEF Purse
<1>f. PICK f \in [Parts(coins) -> Int] : Searches(coins, denom, f)
  BY SearchExists, Zenon
<1>1. Run(f)
  <2>1. ASSUME NEW p \in Parts(coins) PROVE f[p] = Search(coins, denom, f, p[1], p[2])
    <3>1. p[1] \in 1 .. Len(coins) + 2 /\ p[2] \in 0 .. Len(coins) /\ p = <<p[1], p[2]>>
      BY <1>0 DEF Parts
    <3> QED BY <3>1, <1>f DEF Searches
  <2> QED BY <2>1, Zenon
<1>2. Run(CHOOSE g : Run(g))
  BY <1>1, Zenon
<1>3. AmountOf(coins, denom) = (CHOOSE g : Run(g))[<<1, Len(coins)>>]
  BY Zenon DEF AmountOf, Search, Parts
<1> DEFINE h == CHOOSE g : Run(g)
<1> HIDE DEF h
<1>4. h = [p \in Parts(coins) |-> Search(coins, denom, h, p[1], p[2])]
  BY <1>2, Zenon DEF h
<1>5. ASSUME NEW lo \in 1 .. Len(coins) + 2, NEW hi \in 0 .. Len(coins)
      PROVE  h[<<lo, hi>>] = Search(coins, denom, h, lo, hi)
  <2> DEFINE at(p) == Search(coins, denom, h, p[1], p[2])
  <2>1. <<lo, hi>> \in Parts(coins)
    BY DEF Parts
  <2>2. h = [p \in Parts(coins) |-> at(p)]
    BY <1>4, Zenon
  <2>3. h[<<lo, hi>>] = at(<<lo, hi>>)
    <3> HIDE DEF at
    <3> QED BY <2>1, <2>2, Zenon
  <2>4. <<lo, hi>>[1] = lo /\ <<lo, hi>>[2] = hi
    OBVIOUS
  <2> QED BY <2>3, <2>4
<1>6. Searches(coins, denom, h)
  BY <1>5, Zenon DEF Searches
<1> QED BY <1>3, <1>6, Zenon DEF h

\* A step of the search finds the amount in a sorted list if the smaller parts do.
LEMMA SearchFinds ==
    ASSUME NEW coins \in Purse, Sorted(coins), NEW denom \in Int,
           NEW lo \in 1 .. Len(coins) + 2, NEW hi \in 0 .. Len(coins), NEW g,
           \A q \in Parts(coins) : width(q) < width(<<lo, hi>>) => Finds(coins, denom, q[1], q[2], g[q])
    PROVE  Finds(coins, denom, lo, hi, Search(coins, denom, g, lo, hi))
<1> DEFINE mid == lo + ((hi - lo + 1) \div 2)
           v == Search(coins, denom, g, lo, hi)
<1>0. Len(coins) \in Nat /\ coins \in Seq(CoinType)
  BY DEF Purse
<1>d. \A i \in 1 .. Len(coins) : coins[i].denom \in Int
  BY CoinAt
<1>1. CASE hi - lo + 1 <= 0
  <2>1. lo .. hi = {}
    BY <1>0, <1>1
  <2>2. v = 0
    BY <1>1 DEF Search
  <2> QED BY <2>1, <2>2 DEF Finds
<1>2. CASE ~ (hi - lo + 1 <= 0) /\ hi - lo + 1 = 1
  <2>1. lo .. hi = {lo}
    BY <1>0, <1>2
  <2>2. v = IF coins[lo].denom = denom THEN coins[lo].amount ELSE 0
    BY <1>2, Zenon DEF Search
  <2> QED BY <2>1, <2>2, Zenon DEF Finds
<1>3. CASE ~ (hi - lo + 1 <= 0) /\ hi - lo + 1 # 1
  <2>1. /\ lo \in 1 .. Len(coins) /\ mid \in 1 .. Len(coins) /\ lo < mid /\ mid <= hi
        /\ <<lo, mid - 1>> \in Parts(coins) /\ width(<<lo, mid - 1>>) < width(<<lo, hi>>)
        /\ <<above(mid), hi>> \in Parts(coins) /\ width(<<above(mid), hi>>) < width(<<lo, hi>>)
    BY <1>3, SearchNarrows
  <2>2. v = IF denom < coins[mid].denom THEN g[<<lo, mid - 1>>]
            ELSE IF denom = coins[mid].denom THEN coins[mid].amount ELSE g[<<above(mid), hi>>]
    BY <1>3, Zenon DEF Search
  <2> HIDE DEF mid, v
  <2> SUFFICES Finds(coins, denom, lo, hi, v)
    BY DEF v
  <2>3. Finds(coins, denom, lo, mid - 1, g[<<lo, mid - 1>>])
    <3>1. <<lo, mid - 1>>[1] = lo /\ <<lo, mid - 1>>[2] = mid - 1
      OBVIOUS
    <3> QED BY <2>1, <3>1
  <2>4. Finds(coins, denom, mid + 1, hi, g[<<above(mid), hi>>])
    <3>1. <<above(mid), hi>>[1] = mid + 1 /\ <<above(mid), hi>>[2] = hi
      BY DEF above
    <3> QED BY <2>1, <3>1
  <2>5. ASSUME NEW i \in lo .. hi
        PROVE  /\ i \in 1 .. Len(coins) /\ coins[i].denom \in Int /\ coins[mid].denom \in Int
               /\ i < mid => coins[i].denom < coins[mid].denom
               /\ mid < i => coins[mid].denom < coins[i].denom
               /\ i < mid => i \in lo .. mid - 1
               /\ mid < i => i \in mid + 1 .. hi
               /\ i < mid \/ i = mid \/ mid < i
    BY <1>0, <1>d, <2>1 DEF Sorted
  <2>6. mid \in lo .. hi /\ lo .. mid - 1 \subseteq lo .. hi /\ mid + 1 .. hi \subseteq lo .. hi
    BY <1>0, <2>1
  <2>7. CASE denom < coins[mid].denom
    <3>1. v = g[<<lo, mid - 1>>]
      BY <2>2, <2>7
    <3>2. ASSUME NEW i \in lo .. hi, ~ (i < mid) PROVE coins[i].denom # denom
      BY <2>5, <2>7, <3>2, SMTT(30)
    <3> QED BY <2>3, <2>5, <2>6, <3>1, <3>2, Zenon DEF Finds
  <2>8. CASE denom = coins[mid].denom
    <3>1. v = coins[mid].amount
      BY <2>2, <2>8
    <3> QED BY <2>6, <2>8, <3>1 DEF Finds
  <2>9. CASE ~ (denom < coins[mid].denom) /\ denom # coins[mid].denom
    <3>1. v = g[<<above(mid), hi>>]
      BY <2>2, <2>9
    <3>2. ASSUME NEW i \in lo .. hi, ~ (mid < i) PROVE coins[i].denom # denom
      BY <2>5, <2>9, <3>2, SMTT(30)
    <3> QED BY <2>4, <2>5, <2>6, <3>1, <3>2, Zenon DEF Finds
  <2> QED BY <2>7, <2>8, <2>9
<1> QED BY <1>1, <1>2, <1>3

\* Coins.AmountOf finds the amount in a sorted list.
LEMMA AmountFound ==
    ASSUME NEW coins \in Purse, Sorted(coins), NEW denom \in Int
    PROVE  Finds(coins, denom, 1, Len(coins), AmountOf(coins, denom))
<1>0. Len(coins) \in Nat
  BY DEF Purse
<1>1. PICK g : Searches(coins, denom, g) /\ AmountOf(coins, denom) = g[<<1, Len(coins)>>]
  BY AmountOfSearches
<1> DEFINE D == Parts(coins)
           mu == [p \in D |-> width(p)]
           S == {p \in D : Finds(coins, denom, p[1], p[2], g[p])}
<1>2. ASSUME NEW p \in D
      PROVE  /\ p[1] \in 1 .. Len(coins) + 2 /\ p[2] \in 0 .. Len(coins) /\ p = <<p[1], p[2]>>
             /\ width(p) \in Nat
  BY <1>0 DEF Parts, width
<1>3. mu \in [D -> Nat]
  BY <1>2
<1>4. Inherits(D, mu, S)
  <2> SUFFICES ASSUME NEW p \in D, \A y \in D : mu[y] < mu[p] => y \in S
               PROVE  p \in S
    BY Zenon DEF Inherits
  <2>1. \A q \in D : width(q) < width(p) => Finds(coins, denom, q[1], q[2], g[q])
    BY Zenon
  <2>2. PICK lo \in 1 .. Len(coins) + 2, hi \in 0 .. Len(coins) : lo = p[1] /\ hi = p[2] /\ p = <<lo, hi>>
    BY <1>2, Zenon
  <2>3. g[p] = Search(coins, denom, g, lo, hi)
    BY <1>1, <2>2, Zenon DEF Searches
  <2>4. Finds(coins, denom, lo, hi, Search(coins, denom, g, lo, hi))
    BY <2>1, <2>2, SearchFinds
  <2> QED BY <2>2, <2>3, <2>4, Zenon
<1>5. \A p \in D : p \in S
  <2> HIDE DEF S, mu, D
  <2> QED BY <1>3, <1>4, ByMeasure, Zenon
<1>6. <<1, Len(coins)>> \in D /\ <<1, Len(coins)>>[1] = 1 /\ <<1, Len(coins)>>[2] = Len(coins)
  BY <1>0 DEF Parts
<1>7. Finds(coins, denom, <<1, Len(coins)>>[1], <<1, Len(coins)>>[2], g[<<1, Len(coins)>>])
  BY <1>5, <1>6, Zenon
<1> QED BY <1>1, <1>6, <1>7

\* In a sorted list the total of a denomination is the amount of one coin, or zero.
LEMMA TotalFound ==
    ASSUME NEW coins \in Purse, Sorted(coins), NEW denom \in Int
    PROVE  Finds(coins, denom, 1, Len(coins), Total(coins, denom))
<1>0. Len(coins) \in Nat /\ coins \in Seq(CoinType)
  BY DEF Purse
<1>1. PICK g : Tally(coins, denom, g)
  BY <1>0, TallyExists
<1> DEFINE n == Len(coins)
           S == {k \in 0 .. n : Finds(coins, denom, 1, k, g[k])}
<1>2. 0 \in S
  <2>1. g[0] = 0 /\ 1 .. 0 = {}
    BY <1>1 DEF Tally
  <2> QED BY <1>0, <2>1 DEF Finds
<1>3. ASSUME NEW k \in 0 .. n - 1, k \in S PROVE k + 1 \in S
  <2>1. k + 1 \in 1 .. n /\ (k + 1) - 1 = k /\ k + 1 \in 0 .. n /\ k \in 0 .. n /\ k \in Nat
    BY <1>0
  <2>2. g[k + 1] = g[k] + Share(coins[k + 1], denom) /\ g[k] \in Int
    BY <2>1, <1>1 DEF Tally
  <2>3. coins[k + 1] \in CoinType /\ coins[k + 1].amount \in Int
    BY <2>1, CoinAt
  <2>4. \A i \in 1 .. k + 1 : i \in 1 .. k \/ i = k + 1
    BY <2>1
  <2>5. k + 1 \in 1 .. k + 1 /\ \A i \in 1 .. k : i \in 1 .. k + 1
    BY <2>1
  <2>6. Finds(coins, denom, 1, k, g[k])
    BY <1>3
  <2>7. CASE coins[k + 1].denom = denom
    <3>1. \A i \in 1 .. k : coins[i].denom # denom
      <4> SUFFICES ASSUME NEW i \in 1 .. k PROVE coins[i].denom # denom
        OBVIOUS
      <4>1. i \in 1 .. Len(coins) /\ k + 1 \in 1 .. Len(coins) /\ i < k + 1
        BY <1>0, <2>1
      <4>2. coins[i].denom < coins[k + 1].denom
        BY <4>1 DEF Sorted
      <4>3. coins[i].denom \in Int
        BY <4>1, CoinAt
      <4> QED BY <4>2, <4>3, <2>7
    <3>2. g[k] = 0
      BY <2>6, <3>1 DEF Finds
    <3>3. g[k + 1] = coins[k + 1].amount
      BY <2>2, <2>3, <2>7, <3>2 DEF Share
    <3>4. Finds(coins, denom, 1, k + 1, g[k + 1])
      BY <2>5, <2>7, <3>3 DEF Finds
    <3> QED BY <2>1, <3>4
  <2>8. CASE coins[k + 1].denom # denom
    <3>1. g[k + 1] = g[k]
      BY <2>2, <2>8 DEF Share
    <3>2. Finds(coins, denom, 1, k + 1, g[k + 1])
      BY <2>4, <2>5, <2>6, <2>8, <3>1 DEF Finds
    <3> QED BY <2>1, <3>2
  <2> QED BY <2>7, <2>8
<1> HIDE DEF S
<1>4. n \in 0 .. n /\ n \in Nat
  BY <1>0
<1>5. n \in S
  BY <1>2, <1>3, <1>4, UpTo, Zenon
<1>6. Total(coins, denom) = g[n]
  BY <1>0, <1>1, TotalTally
<1> QED BY <1>5, <1>6 DEF S

\* A denomination is found once in a sorted list.
LEMMA FoundOnce ==
    ASSUME NEW coins \in Purse, Sorted(coins), NEW denom,
           NEW v, NEW w, Finds(coins, denom, 1, Len(coins), v), Finds(coins, denom, 1, Len(coins), w)
    PROVE  v = w
<1>0. Len(coins) \in Nat /\ coins \in Seq(CoinType)
  BY DEF Purse
<1>1. ASSUME NEW i \in 1 .. Len(coins), NEW j \in 1 .. Len(coins), coins[i].denom = coins[j].denom
      PROVE  i = j
  <2>1. coins[i].denom \in Int /\ i \in Int /\ j \in Int
    BY CoinAt
  <2>2. i < j \/ j < i \/ i = j
    BY <2>1
  <2>3. ~ (i < j) /\ ~ (j < i)
    BY <1>1, <2>1 DEF Sorted
  <2> QED BY <2>2, <2>3
<1>2. CASE \A i \in 1 .. Len(coins) : coins[i].denom # denom
  BY <1>2, Zenon DEF Finds
<1>3. ASSUME NEW i \in 1 .. Len(coins), coins[i].denom = denom PROVE v = coins[i].amount /\ w = coins[i].amount
  BY <1>1, <1>3, Zenon DEF Finds
<1> QED BY <1>2, <1>3, Zenon

\* Coins.AmountOf of a sorted list is the exact total of the denomination.
THEOREM AmountIsTotal ==
    ASSUME NEW coins \in Purse, Sorted(coins), NEW denom \in Int
    PROVE  AmountOf(coins, denom) = Total(coins, denom)
BY AmountFound, TotalFound, FoundOnce, ZenonT(30)

-----------------------------------------------------------------------------
(* Coins.Sort sorts.                                                       *)

\* Where insert puts a coin, and the list with the coin there.
Fits(coins, c, n) ==
    /\ n # 0 => coins[n].denom <= c.denom
    /\ \A i \in n + 1 .. Len(coins) : c.denom < coins[i].denom
InsertAt(coins, c, n) ==
    [i \in 1 .. Len(coins) + 1 |-> IF i <= n THEN coins[i] ELSE IF i = n + 1 THEN c ELSE coins[i - 1]]

\* There is such a place.
LEMMA InsertPlace ==
    ASSUME NEW coins \in Purse, NEW c \in CoinType
    PROVE  \E n \in 0 .. Len(coins) : Fits(coins, c, n) /\ insert(coins, c) = InsertAt(coins, c, n)
<1> DEFINE m == Len(coins)
           B == {k \in 0 .. m : k = m \/ coins[m - k].denom <= c.denom}
<1>0. m \in Nat
  BY DEF Purse
<1>c. c.denom \in Int
  <2>1. c.denom \in Denoms
    BY DEF CoinType
  <2> QED BY <2>1, DenomsAssumption, Zenon
<1>1. B \in SUBSET Nat /\ B # {}
  <2>1. m \in B
    BY <1>0
  <2> QED BY <2>1
<1>2. PICK k \in B : \A j \in B : k <= j
  <2> HIDE DEF B
  <2> QED BY <1>1, Least, Zenon
<1>3. m - k \in 0 .. m /\ k \in 0 .. m
  BY <1>0, <1>2
<1>4. Fits(coins, c, m - k)
  <2>1. ASSUME m - k # 0 PROVE coins[m - k].denom <= c.denom
    BY <1>0, <1>2, <1>3, <2>1
  <2>2. ASSUME NEW i \in (m - k) + 1 .. Len(coins) PROVE c.denom < coins[i].denom
    <3>1. i \in 1 .. Len(coins) /\ m - i \in 0 .. m /\ m - i < k /\ m - (m - i) = i
      BY <1>0, <1>3
    <3>2. m - i \notin B
      BY <1>2, <1>3, <3>1
    <3>3. ~ (coins[i].denom <= c.denom)
      BY <3>1, <3>2
    <3>4. coins[i].denom \in Int
      BY <3>1, CoinAt
    <3> QED BY <3>3, <3>4, <1>c
  <2> QED BY <2>1, <2>2 DEF Fits
<1> DEFINE q == CHOOSE n \in 0 .. Len(coins) : Fits(coins, c, n)
<1>5. q \in 0 .. Len(coins) /\ Fits(coins, c, q)
  BY <1>3, <1>4, Zenon
<1>6. insert(coins, c) = InsertAt(coins, c, q)
  BY Zenon DEF insert, InsertAt, Fits
<1> QED BY <1>5, <1>6, Zenon

\* insert adds the coin and nothing else, and keeps the order.
LEMMA InsertFits ==
    ASSUME NEW coins \in Purse, NEW c \in CoinType, NEW d
    PROVE  LET s == insert(coins, c) IN
           /\ s \in Purse /\ Len(s) = Len(coins) + 1
           /\ \A i \in 1 .. Len(s) : s[i] = c \/ \E j \in 1 .. Len(coins) : s[i] = coins[j]
           /\ Total(s, d) = Total(coins, d) + Share(c, d)
           /\ Sorted(coins) /\ (\A i \in 1 .. Len(coins) : coins[i].denom # c.denom) => Sorted(s)
<1> DEFINE s == insert(coins, c)
           m == Len(coins)
<1>0. m \in Nat /\ coins \in Seq(CoinType)
  BY DEF Purse
<1>1. PICK n \in 0 .. m : Fits(coins, c, n) /\ s = InsertAt(coins, c, n)
  BY InsertPlace
<1> HIDE DEF s
<1>2. ASSUME NEW i \in 1 .. m + 1
      PROVE  /\ s[i] = IF i <= n THEN coins[i] ELSE IF i = n + 1 THEN c ELSE coins[i - 1]
             /\ i <= n => i \in 1 .. m
             /\ ~ (i <= n) /\ i # n + 1 => i - 1 \in 1 .. m /\ i - 1 \in n + 1 .. m
  <2>1. s[i] = IF i <= n THEN coins[i] ELSE IF i = n + 1 THEN c ELSE coins[i - 1]
    BY <1>1, Zenon DEF InsertAt
  <2>2. /\ i <= n => i \in 1 .. m
        /\ ~ (i <= n) /\ i # n + 1 => i - 1 \in 1 .. m /\ i - 1 \in n + 1 .. m
    BY <1>0
  <2> QED BY <2>1, <2>2
<1>3. ASSUME NEW i \in 1 .. m + 1 PROVE s[i] \in CoinType
  <2>1. \A j \in 1 .. m : coins[j] \in CoinType
    BY CoinAt
  <2> QED BY <1>2, <2>1, Zenon
<1>4. s \in Purse /\ Len(s) = m + 1
  <2>1. s = [i \in 1 .. m + 1 |-> s[i]]
    BY <1>1, Zenon DEF InsertAt
  <2>2. m + 1 \in Nat
    BY <1>0
  <2>3. s \in [1 .. m + 1 -> CoinType]
    BY <2>1, <1>3, Zenon
  <2> HIDE DEF m
  <2> QED BY <2>2, <2>3 DEF Purse
<1>5. ASSUME NEW i \in 1 .. Len(s) PROVE s[i] = c \/ \E j \in 1 .. m : s[i] = coins[j]
  BY <1>2, <1>4, Zenon
<1>6. Total(s, d) = Total(coins, d) + Share(c, d)
  <2>1. PICK g : Tally(coins, d, g)
    BY <1>0, TallyExists
  <2> DEFINE h == [i \in 0 .. m + 1 |-> IF i <= n THEN g[i] ELSE g[i - 1] + Share(c, d)]
  <2>2. g \in [0 .. m -> Int] /\ g[0] = 0 /\ Share(c, d) \in Int
    BY <2>1, ShareInt DEF Tally
  <2>3. ASSUME NEW i \in 0 .. m + 1
        PROVE  /\ h[i] = IF i <= n THEN g[i] ELSE g[i - 1] + Share(c, d)
               /\ h[i] \in Int
    <3>1. h[i] = IF i <= n THEN g[i] ELSE g[i - 1] + Share(c, d)
      BY Zenon
    <3>2. i <= n => i \in 0 .. m
      BY <1>0
    <3>3. ~ (i <= n) => i - 1 \in 0 .. m
      BY <1>0
    <3>4. i <= n => g[i] \in Int
      BY <2>2, <3>2, Zenon
    <3>5. ~ (i <= n) => g[i - 1] \in Int
      BY <2>2, <3>3, Zenon
    <3> HIDE DEF h
    <3> QED BY <3>1, <3>4, <3>5, <2>2
  <2>4. h[0] = 0
    <3>1. 0 <= n /\ 0 \in 0 .. m + 1
      BY <1>0
    <3> QED BY <2>2, <2>3, <3>1, Zenon
  <2>5. h \in [0 .. m + 1 -> Int]
    BY <2>3
  <2> HIDE DEF h
  <2>6. ASSUME NEW i \in 1 .. m + 1 PROVE h[i] = h[i - 1] + Share(s[i], d)
    <3>1. i \in 0 .. m + 1 /\ i - 1 \in 0 .. m + 1 /\ i \in Int
      BY <1>0
    <3>2. CASE i <= n
      <4>1. i - 1 <= n /\ i \in 1 .. m
        BY <3>1, <3>2, <1>0
      <4>2. h[i] = g[i] /\ h[i - 1] = g[i - 1] /\ s[i] = coins[i]
        BY <1>2, <2>3, <3>1, <3>2, <4>1, Zenon
      <4> QED BY <2>1, <4>1, <4>2, Zenon DEF Tally
    <3>3. CASE i = n + 1
      <4>1. i - 1 <= n /\ ~ (i <= n)
        BY <3>1, <3>3, <1>0
      <4>2. h[i] = g[i - 1] + Share(c, d) /\ h[i - 1] = g[i - 1] /\ s[i] = c
        BY <1>2, <2>3, <3>1, <3>3, <4>1, Zenon
      <4> QED BY <4>2, Zenon
    <3>4. CASE ~ (i <= n) /\ i # n + 1
      <4>1. ~ (i - 1 <= n) /\ i - 1 \in 1 .. m /\ (i - 1) - 1 \in 0 .. m
        BY <3>1, <3>4, <1>0
      <4>2. h[i] = g[i - 1] + Share(c, d) /\ h[i - 1] = g[(i - 1) - 1] + Share(c, d) /\ s[i] = coins[i - 1]
        BY <1>2, <2>3, <3>1, <3>4, <4>1, Zenon
      <4>3. g[i - 1] = g[(i - 1) - 1] + Share(coins[i - 1], d)
        BY <2>1, <4>1, Zenon DEF Tally
      <4>4. g[(i - 1) - 1] \in Int /\ Share(coins[i - 1], d) \in Int
        BY <2>2, <4>1, CoinAt, ShareInt, Zenon
      <4> QED BY <2>2, <4>2, <4>3, <4>4
    <3> QED BY <3>2, <3>3, <3>4
  <2>7. Tally(s, d, h)
    BY <1>4, <2>4, <2>5, <2>6, Zenon DEF Tally
  <2>8. Total(s, d) = h[Len(s)] /\ Total(coins, d) = g[m]
    BY <1>0, <1>4, <2>1, <2>7, TotalTally DEF Purse
  <2>9. h[m + 1] = g[m] + Share(c, d)
    <3>1. m + 1 \in 0 .. m + 1 /\ ~ (m + 1 <= n) /\ (m + 1) - 1 = m
      BY <1>0
    <3> QED BY <2>3, <3>1, Zenon
  <2> QED BY <2>8, <2>9, <1>4, Zenon
<1>7. ASSUME Sorted(coins), \A i \in 1 .. m : coins[i].denom # c.denom
      PROVE  Sorted(s)
  <2>0. c.denom \in Int
    <3>1. c.denom \in Denoms
      BY DEF CoinType
    <3> QED BY <3>1, DenomsAssumption, Zenon
  <2>d. \A i \in 1 .. m : coins[i].denom \in Int
    BY CoinAt
  <2>1. ASSUME NEW i \in 1 .. m, i <= n PROVE coins[i].denom < c.denom
    <3>1. n \in 1 .. m /\ n # 0
      BY <1>0, <2>1
    <3>2. coins[n].denom <= c.denom
      BY <1>1, <3>1 DEF Fits
    <3>3. coins[n].denom < c.denom
      BY <2>0, <2>d, <3>1, <3>2, <1>7
    <3>4. i = n \/ i < n
      BY <2>1, <3>1
    <3>5. i < n => coins[i].denom < coins[n].denom
      BY <1>7, <3>1 DEF Sorted
    <3> QED BY <2>0, <2>d, <3>1, <3>3, <3>4, <3>5
  <2>2. ASSUME NEW i \in n + 1 .. m PROVE c.denom < coins[i].denom
    BY <1>1 DEF Fits
  <2>3. ASSUME NEW i \in 1 .. m + 1, NEW j \in 1 .. m + 1, i < j PROVE s[i].denom < s[j].denom
    <3>0. i \in Int /\ j \in Int /\ n \in Int
      BY <1>0
    <3>1. CASE j <= n
      <4>1. i <= n /\ i \in 1 .. m /\ j \in 1 .. m
        BY <1>0, <2>3, <3>1
      <4>2. s[i] = coins[i] /\ s[j] = coins[j]
        BY <1>2, <3>1, <4>1, Zenon
      <4> QED BY <4>1, <4>2, <1>7, <2>3, Zenon DEF Sorted
    <3>2. CASE j = n + 1
      <4>1. i <= n /\ i \in 1 .. m /\ ~ (j <= n)
        BY <1>0, <2>3, <3>2
      <4>2. s[i] = coins[i] /\ s[j] = c
        BY <1>2, <3>2, <4>1, Zenon
      <4> QED BY <4>1, <4>2, <2>1, Zenon
    <3>3. CASE ~ (j <= n) /\ j # n + 1
      <4>1. s[j] = coins[j - 1] /\ j - 1 \in 1 .. m /\ j - 1 \in n + 1 .. m
        BY <1>2, <3>3, Zenon
      <4>2. CASE i <= n
        <5>1. i \in 1 .. m /\ s[i] = coins[i] /\ i < j - 1
          <6>1. i < j - 1
            BY <3>0, <3>3, <4>2
          <6> QED BY <6>1, <1>2, <4>2, Zenon
        <5> QED BY <5>1, <4>1, <1>7, Zenon DEF Sorted
      <4>3. CASE i = n + 1
        <5>1. s[i] = c
          <6>1. ~ (i <= n)
            BY <3>0, <4>3
          <6> QED BY <6>1, <1>2, <4>3, Zenon
        <5> QED BY <5>1, <4>1, <2>2, Zenon
      <4>4. CASE ~ (i <= n) /\ i # n + 1
        <5>1. s[i] = coins[i - 1] /\ i - 1 \in 1 .. m
          BY <1>2, <4>4, Zenon
        <5>2. i - 1 < j - 1
          BY <3>0, <2>3
        <5> QED BY <5>1, <5>2, <4>1, <1>7, Zenon DEF Sorted
      <4> QED BY <4>2, <4>3, <4>4
    <3> QED BY <3>1, <3>2, <3>3
  <2> QED BY <2>3, <1>4, Zenon DEF Sorted
<1> QED BY <1>4, <1>5, <1>6, <1>7, Zenon DEF s

\* The lists that Coins.Sort goes through.
Inserts(coins, g) ==
    /\ g \in [0 .. Len(coins) -> Purse]
    /\ g[0] = << >>
    /\ \A i \in 1 .. Len(coins) : g[i] = insert(g[i - 1], coins[i])

\* Those lists exist.
LEMMA InsertsExist == ASSUME NEW coins \in Purse PROVE \E g : Inserts(coins, g)
<1> DEFINE G == [p \in Purse \X CoinType |-> insert(p[1], p[2])]
<1>0. coins \in Seq(CoinType)
  BY DEF Purse
<1>1. G \in [Purse \X CoinType -> Purse]
  <2>1. ASSUME NEW p \in Purse \X CoinType PROVE insert(p[1], p[2]) \in Purse
    <3>1. p[1] \in Purse /\ p[2] \in CoinType
      OBVIOUS
    <3> QED BY <3>1, InsertFits
  <2> QED BY <2>1
<1>2. ASSUME NEW s \in Purse, NEW c \in CoinType PROVE G[<<s, c>>] = insert(s, c)
  OBVIOUS
<1> HIDE DEF G
<1>3. PICK g \in [0 .. Len(coins) -> Purse] : Runs(coins, << >>, G, g)
  <2>1. << >> \in Purse
    BY DEF Purse
  <2> QED BY <1>0, <1>1, <2>1, FoldRuns, Zenon
<1>4. ASSUME NEW i \in 1 .. Len(coins) PROVE g[i] = insert(g[i - 1], coins[i])
  <2>1. i - 1 \in 0 .. Len(coins)
    BY <1>0
  <2>2. g[i - 1] \in Purse
    BY <2>1, Zenon
  <2>3. g[i] = G[<<g[i - 1], coins[i]>>]
    BY <1>3, Zenon DEF Runs
  <2>4. coins[i] \in CoinType
    BY CoinAt
  <2> QED BY <1>2, <2>2, <2>3, <2>4, Zenon
<1> QED BY <1>3, <1>4, Zenon DEF Inserts, Runs

\* Coins.Sort is the last of them.
LEMMA SortInserts ==
    ASSUME NEW coins \in Purse, NEW g, Inserts(coins, g)
    PROVE  Sort(coins) = g[Len(coins)]
<1> DEFINE Run(h) == h = [i \in 0 .. Len(coins) |-> IF i = 0 THEN << >> ELSE insert(h[i - 1], coins[i])]
<1>0. Len(coins) \in Nat
  BY DEF Purse
<1>1. Run(g)
  <2>1. ASSUME NEW i \in 0 .. Len(coins) PROVE g[i] = IF i = 0 THEN << >> ELSE insert(g[i - 1], coins[i])
    <3>1. i = 0 \/ i \in 1 .. Len(coins)
      BY <1>0
    <3>2. i \in 1 .. Len(coins) => i # 0
      BY <1>0
    <3> QED BY <3>1, <3>2, Zenon DEF Inserts
  <2>2. g \in [0 .. Len(coins) -> Purse]
    BY Zenon DEF Inserts
  <2> QED BY <2>1, <2>2, Zenon
<1>2. Run(CHOOSE h : Run(h))
  BY <1>1, Zenon
<1>3. Sort(coins) = (CHOOSE h : Run(h))[Len(coins)]
  BY Zenon DEF Sort, foldLeft
<1> DEFINE h == CHOOSE h : Run(h)
           at(i) == IF i = 0 THEN << >> ELSE insert(h[i - 1], coins[i])
<1> HIDE DEF h
<1>4. ASSUME NEW i \in 0 .. Len(coins) PROVE h[i] = at(i)
  <2>1. h = [j \in 0 .. Len(coins) |-> at(j)]
    BY <1>2, Zenon DEF h
  <2> HIDE DEF at
  <2> QED BY <2>1, Zenon
<1>5. InStep(Len(coins), g, h)
  <2>1. 0 \in 0 .. Len(coins)
    BY <1>0
  <2>2. h[0] = g[0]
    BY <2>1, <1>4, Zenon DEF Inserts
  <2>3. ASSUME NEW i \in 1 .. Len(coins), h[i - 1] = g[i - 1] PROVE h[i] = g[i]
    <3>1. i \in 0 .. Len(coins) /\ i # 0
      BY <1>0
    <3>2. h[i] = insert(h[i - 1], coins[i])
      BY <3>1, <1>4, Zenon
    <3> QED BY <2>3, <3>2, Zenon DEF Inserts
  <2> QED BY <2>2, <2>3, Zenon DEF InStep
<1>6. h[Len(coins)] = g[Len(coins)]
  <2>1. Len(coins) \in 0 .. Len(coins)
    BY <1>0
  <2> QED BY <1>0, <1>5, <2>1, OneRun, Zenon
<1> QED BY <1>3, <1>6, Zenon DEF h

\* Every denomination once.
Distinct(coins) == \A i, j \in 1 .. Len(coins) : coins[i].denom = coins[j].denom => i = j

\* s are the first k of the coins, in order if no denomination comes twice.
SortsTo(coins, k, s, d, t) ==
    /\ s \in Purse /\ Len(s) = k
    /\ \A i \in 1 .. k : \E j \in 1 .. k : s[i] = coins[j]
    /\ Total(s, d) = t
    /\ Distinct(coins) => Sorted(s)

\* Coins.Sort keeps the coins, and puts them in order if no denomination comes twice.
LEMMA SortFits ==
    ASSUME NEW coins \in Purse, NEW d
    PROVE  SortsTo(coins, Len(coins), Sort(coins), d, Total(coins, d))
<1>0. Len(coins) \in Nat /\ coins \in Seq(CoinType)
  BY DEF Purse
<1>1. PICK g : Inserts(coins, g)
  BY InsertsExist
<1>2. PICK t : Tally(coins, d, t)
  BY <1>0, TallyExists, Zenon
<1> DEFINE n == Len(coins)
           S == {k \in 0 .. n : SortsTo(coins, k, g[k], d, t[k])}
<1>3. 0 \in S
  <2>1. g[0] = << >> /\ t[0] = 0
    BY <1>1, <1>2 DEF Inserts, Tally
  <2>2. << >> \in Purse /\ Len(<< >>) = 0 /\ Sorted(<< >>) /\ 1 .. 0 = {}
    <3>1. << >> \in Purse /\ Len(<< >>) = 0 /\ 1 .. 0 = {}
      BY DEF Purse
    <3> QED BY <3>1 DEF Sorted
  <2>3. Total(<< >>, d) = 0
    BY TotalEmpty
  <2>4. SortsTo(coins, 0, << >>, d, 0)
    BY <2>2, <2>3, Zenon DEF SortsTo
  <2>5. 0 \in 0 .. n
    BY <1>0
  <2> QED BY <2>1, <2>4, <2>5
<1>4. ASSUME NEW k \in 0 .. n - 1, k \in S PROVE k + 1 \in S
  <2>1. k + 1 \in 1 .. n /\ (k + 1) - 1 = k /\ k + 1 \in 0 .. n /\ k \in 0 .. n /\ k \in Nat
    BY <1>0
  <2>2. SortsTo(coins, k, g[k], d, t[k])
    BY <1>4
  <2>3. g[k + 1] = insert(g[k], coins[k + 1])
    BY <1>1, <2>1, Zenon DEF Inserts
  <2>4. t[k + 1] = t[k] + Share(coins[k + 1], d)
    BY <1>2, <2>1, Zenon DEF Tally
  <2>5. coins[k + 1] \in CoinType
    BY <2>1, CoinAt
  <2> DEFINE a == g[k]
             s == g[k + 1]
             c == coins[k + 1]
  <2> HIDE DEF a, s, c
  <2>6. /\ a \in Purse /\ Len(a) = k
        /\ \A i \in 1 .. k : \E j \in 1 .. k : a[i] = coins[j]
        /\ Total(a, d) = t[k]
        /\ Distinct(coins) => Sorted(a)
    BY <2>2, Zenon DEF SortsTo, a
  <2>7. s = insert(a, c) /\ c \in CoinType
    BY <2>3, <2>5 DEF a, s, c
  <2>8. /\ s \in Purse /\ Len(s) = Len(a) + 1
        /\ \A i \in 1 .. Len(s) : s[i] = c \/ \E j \in 1 .. Len(a) : s[i] = a[j]
        /\ Total(s, d) = Total(a, d) + Share(c, d)
        /\ Sorted(a) /\ (\A i \in 1 .. Len(a) : a[i].denom # c.denom) => Sorted(s)
    BY <2>6, <2>7, InsertFits, ZenonT(30)
  <2>9. ASSUME NEW i \in 1 .. k + 1 PROVE \E j \in 1 .. k + 1 : s[i] = coins[j]
    <3>1. k + 1 \in 1 .. k + 1 /\ \A j \in 1 .. k : j \in 1 .. k + 1
      BY <2>1
    <3>2. i \in 1 .. Len(s)
      BY <2>6, <2>8
    <3>3. s[i] = coins[k + 1] \/ \E j \in 1 .. k : s[i] = a[j]
      BY <2>6, <2>8, <3>2, Zenon DEF c
    <3>4. CASE s[i] = coins[k + 1]
      BY <3>1, <3>4, Zenon
    <3>5. CASE \E j \in 1 .. k : s[i] = a[j]
      <4>1. PICK j \in 1 .. k : s[i] = a[j]
        BY <3>5
      <4>2. PICK l \in 1 .. k : a[j] = coins[l]
        BY <2>6, Zenon
      <4>3. l \in 1 .. k + 1 /\ s[i] = coins[l]
        BY <3>1, <4>1, <4>2, Zenon
      <4> QED BY <4>3, Zenon
    <3> QED BY <3>3, <3>4, <3>5, Zenon
  <2>10. ASSUME Distinct(coins) PROVE Sorted(s)
    <3>1. ASSUME NEW i \in 1 .. k PROVE a[i].denom # c.denom
      <4>1. PICK j \in 1 .. k : a[i] = coins[j]
        BY <2>6, Zenon
      <4>2. j \in 1 .. Len(coins) /\ k + 1 \in 1 .. Len(coins) /\ j # k + 1
        BY <1>0, <2>1
      <4> QED BY <4>1, <4>2, <2>10, Zenon DEF Distinct, c
    <3>2. \A i \in 1 .. Len(a) : a[i].denom # c.denom
      <4>1. 1 .. Len(a) = 1 .. k
        BY <2>6, Zenon
      <4> QED BY <3>1, <4>1, Zenon
    <3>3. Sorted(a)
      BY <2>6, <2>10, Zenon
    <3> QED BY <3>2, <3>3, <2>8, Zenon
  <2>11. SortsTo(coins, k + 1, s, d, t[k + 1])
    <3>1. Len(s) = k + 1 /\ Total(s, d) = t[k + 1]
      BY <2>4, <2>6, <2>8, Zenon DEF c
    <3> QED BY <3>1, <2>8, <2>9, <2>10, Zenon DEF SortsTo
  <2> QED BY <2>1, <2>11, Zenon DEF s
<1> HIDE DEF S
<1>5. n \in 0 .. n /\ n \in Nat
  BY <1>0
<1>6. n \in S
  BY <1>3, <1>4, <1>5, UpTo, Zenon
<1>7. Sort(coins) = g[n] /\ Total(coins, d) = t[n]
  BY <1>0, <1>1, <1>2, SortInserts, TotalTally
<1> QED BY <1>6, <1>7, Zenon DEF S

-----------------------------------------------------------------------------
(* Coins.Plus is exact where nothing overflows.                            *)

\* What ValidateBasic takes: in order, every denomination once, all amounts positive.
Clean(s) == s \in Purse /\ Sorted(s) /\ \A i \in 1 .. Len(s) : s[i].amount > 0

\* The coins of s are c and those of t; they are those of a from the i-th on; all of t
\* have greater denominations.
OneOf(s, c, t) == \A i \in 1 .. Len(s) : s[i] = c \/ \E k \in 1 .. Len(t) : s[i] = t[k]
Taken(a, i, s) == \A k \in 1 .. Len(s) : \E l \in i .. Len(a) : s[k] = a[l]
Below(d, t)    == \A i \in 1 .. Len(t) : d < t[i].denom

\* One coin more in front of a clean list.
LEMMA CleanCons ==
    ASSUME NEW c \in CoinType, c.amount > 0, NEW t, Clean(t), Below(c.denom, t)
    PROVE  Clean(<<c>> \o t) /\ Len(<<c>> \o t) = Len(t) + 1 /\ OneOf(<<c>> \o t, c, t)
<1> DEFINE s == <<c>> \o t
<1>0. t \in Seq(CoinType) /\ Len(t) \in Nat /\ Sorted(t)
  BY DEF Clean, Purse
<1>1. s \in Seq(CoinType) /\ Len(s) = Len(t) + 1 /\ s[1] = c /\ \A i \in 2 .. Len(s) : s[i] = t[i - 1]
  BY <1>0
<1> HIDE DEF s
<1>2. ASSUME NEW i \in 1 .. Len(s) PROVE i = 1 \/ (i \in 2 .. Len(s) /\ i - 1 \in 1 .. Len(t))
  BY <1>0, <1>1
<1>3. ASSUME NEW i \in 1 .. Len(s) PROVE s[i] = c \/ \E k \in 1 .. Len(t) : s[i] = t[k]
  BY <1>1, <1>2, Zenon
<1>4. ASSUME NEW i \in 1 .. Len(s) PROVE s[i].amount > 0
  BY <1>3, Zenon DEF Clean
<1>5. ASSUME NEW i \in 1 .. Len(s), NEW j \in 1 .. Len(s), i < j PROVE s[i].denom < s[j].denom
  <2>1. j \in 2 .. Len(s) /\ j - 1 \in 1 .. Len(t) /\ s[j] = t[j - 1]
    BY <1>0, <1>1, <1>5
  <2>2. CASE i = 1
    BY <2>1, <2>2, <1>1, Zenon DEF Below
  <2>3. CASE i # 1
    <3>1. i - 1 \in 1 .. Len(t) /\ s[i] = t[i - 1] /\ i - 1 < j - 1
      BY <2>3, <1>0, <1>1, <1>5
    <3> QED BY <3>1, <2>1, <1>0, Zenon DEF Sorted
  <2> QED BY <2>2, <2>3
<1>6. Clean(s)
  BY <1>1, <1>4, <1>5, Zenon DEF Clean, Sorted, Purse
<1> QED BY <1>1, <1>3, <1>6, Zenon DEF s, OneOf

\* No two coins of one denomination add up to more than int64 holds.
Roomy(a, b) == \A i \in 1 .. Len(a), j \in 1 .. Len(b) : a[i].denom = b[j].denom => a[i].amount + b[j].amount < Half

\* The denominations of s come from the rests of a and b; the result of a turn of
\* Coins.Plus is clean, and empty only if nothing was left.
Stems(a, i, b, j, s) ==
    \A k \in 1 .. Len(s) : \/ \E l \in i .. Len(a) : s[k].denom = a[l].denom
                           \/ \E l \in j .. Len(b) : s[k].denom = b[l].denom
Whole(a, b, g, p) ==
    /\ Clean(g[p]) /\ Stems(a, p[1], b, p[2], g[p])
    /\ p[1] <= Len(a) \/ p[2] <= Len(b) => g[p] # << >>

\* The rest of a clean list is clean.
LEMMA RestClean ==
    ASSUME NEW a, Clean(a), NEW i \in 1 .. Len(a) + 1
    PROVE  /\ Clean(Rest(a, i)) /\ (i <= Len(a) => Rest(a, i) # << >>)
           /\ Taken(a, i, Rest(a, i))
<1>0. a \in Seq(CoinType) /\ Len(a) \in Nat
  BY DEF Clean, Purse
<1> DEFINE s == Rest(a, i)
<1>1. /\ s \in Seq(CoinType) /\ Len(s) = Len(a) - i + 1
      /\ \A k \in 1 .. Len(s) : s[k] = a[i + k - 1] /\ i + k - 1 \in i .. Len(a) /\ i + k - 1 \in 1 .. Len(a)
  BY <1>0 DEF Rest
<1> HIDE DEF s
<1>2. ASSUME NEW k \in 1 .. Len(s), NEW l \in 1 .. Len(s), k < l PROVE s[k].denom < s[l].denom
  <2>1. i + k - 1 < i + l - 1
    BY <1>0, <1>1, <1>2
  <2> QED BY <2>1, <1>1, Zenon DEF Clean, Sorted
<1>3. Clean(s)
  BY <1>1, <1>2, Zenon DEF Clean, Sorted, Purse
<1>4. i <= Len(a) => s # << >>
  BY <1>0, <1>1
<1> QED BY <1>1, <1>3, <1>4, Zenon DEF s, Taken

\* Coin.Plus of two positive amounts is positive if it fits.
LEMMA MergedClean ==
    ASSUME NEW a \in CoinType, NEW b \in CoinType, a.denom = b.denom, a.amount > 0, b.amount > 0,
           a.amount + b.amount < Half
    PROVE  \E c \in CoinType : merged(a, b) = <<c>> /\ c.denom = a.denom /\ c.amount > 0
<1> DEFINE n == a.amount + b.amount
<1>1. a.amount \in Int /\ b.amount \in Int /\ n \in Amount /\ n \in Int /\ n > 0
  BY AmountBitsAssumption DEF CoinType, Amount
<1>2. Wrap(n) \in Amount /\ Cong(Wrap(n), n)
  BY <1>1, WrapFits
<1>3. Wrap(n) = n
  BY <1>1, <1>2, CongAmounts
<1>4. Wrap(n) # 0
  BY <1>1, <1>3
<1> DEFINE c == [denom |-> a.denom, amount |-> Wrap(n)]
<1>5. merged(a, b) = <<c>>
  BY <1>4 DEF merged, Coin
<1>6. c \in CoinType /\ c.denom = a.denom /\ c.amount > 0
  BY <1>1, <1>3 DEF CoinType
<1> QED BY <1>5, <1>6

\* A turn of the loop yields a clean list if the turns after it do.
LEMMA PassWhole ==
    ASSUME NEW a, NEW b, Clean(a), Clean(b), Roomy(a, b), NEW g,
           NEW i \in 1 .. Len(a) + 1, NEW j \in 1 .. Len(b) + 1,
           \A q \in Places(a, b) : togo(a, b, q) < togo(a, b, <<i, j>>) => Whole(a, b, g, q),
           NEW s, s = Pass(a, b, g, i, j)
    PROVE  Clean(s) /\ Stems(a, i, b, j, s) /\ (i <= Len(a) \/ j <= Len(b) => s # << >>)
<1>0. Len(a) \in Nat /\ Len(b) \in Nat /\ a \in Purse /\ b \in Purse
  BY DEF Clean, Purse
<1>1. CASE i > Len(a)
  <2>1. s = Rest(b, j) /\ ~ (i <= Len(a))
    BY <1>0, <1>1 DEF Pass, Rest
  <2>2. /\ Clean(Rest(b, j)) /\ (j <= Len(b) => Rest(b, j) # << >>)
        /\ Taken(b, j, Rest(b, j))
    BY RestClean, Zenon
  <2> QED BY <2>1, <2>2, Zenon DEF Stems, Taken
<1>2. CASE i <= Len(a) /\ j > Len(b)
  <2>1. s = Rest(a, i)
    <3>1. ~ (i > Len(a))
      BY <1>0, <1>2
    <3> QED BY <1>2, <3>1, Zenon DEF Pass, Rest
  <2>2. /\ Clean(Rest(a, i)) /\ (i <= Len(a) => Rest(a, i) # << >>)
        /\ Taken(a, i, Rest(a, i))
    BY RestClean, Zenon
  <2> QED BY <1>2, <2>1, <2>2, Zenon DEF Stems, Taken
<1>3. CASE i <= Len(a) /\ j <= Len(b)
  <2>0. i \in 1 .. Len(a) /\ j \in 1 .. Len(b) /\ ~ (i > Len(a)) /\ ~ (j > Len(b))
    BY <1>0, <1>3
  <2>1. /\ a[i] \in CoinType /\ a[i].amount > 0 /\ a[i].denom \in Int
        /\ b[j] \in CoinType /\ b[j].amount > 0 /\ b[j].denom \in Int
    BY <1>0, <2>0, CoinAt, Zenon DEF Clean
  <2>2. /\ <<i + 1, j>> \in Places(a, b) /\ togo(a, b, <<i + 1, j>>) < togo(a, b, <<i, j>>)
        /\ <<i, j + 1>> \in Places(a, b) /\ togo(a, b, <<i, j + 1>>) < togo(a, b, <<i, j>>)
        /\ <<i + 1, j + 1>> \in Places(a, b) /\ togo(a, b, <<i + 1, j + 1>>) < togo(a, b, <<i, j>>)
    BY <1>0, <1>3 DEF Places, togo
  <2>3. /\ Clean(g[<<i + 1, j>>]) /\ Stems(a, i + 1, b, j, g[<<i + 1, j>>])
        /\ Clean(g[<<i, j + 1>>]) /\ Stems(a, i, b, j + 1, g[<<i, j + 1>>])
        /\ Clean(g[<<i + 1, j + 1>>]) /\ Stems(a, i + 1, b, j + 1, g[<<i + 1, j + 1>>])
    <3>1. Whole(a, b, g, <<i + 1, j>>) /\ Whole(a, b, g, <<i, j + 1>>) /\ Whole(a, b, g, <<i + 1, j + 1>>)
      BY <2>2, Zenon
    <3> QED BY <3>1 DEF Whole
  <2>4. /\ \A l \in i + 1 .. Len(a) : l \in i .. Len(a) /\ a[i].denom < a[l].denom /\ a[l].denom \in Int
        /\ \A l \in j + 1 .. Len(b) : l \in j .. Len(b) /\ b[j].denom < b[l].denom /\ b[l].denom \in Int
    <3>1. \A l \in i + 1 .. Len(a) : l \in i .. Len(a) /\ l \in 1 .. Len(a) /\ i < l
      BY <1>0, <2>0
    <3>2. \A l \in j + 1 .. Len(b) : l \in j .. Len(b) /\ l \in 1 .. Len(b) /\ j < l
      BY <1>0, <2>0
    <3> QED BY <1>0, <2>0, <3>1, <3>2, CoinAt, Zenon DEF Clean, Sorted
  <2>5. i \in i .. Len(a) /\ j \in j .. Len(b)
    BY <1>0, <2>0
  \* One coin in front of what is still to come.
  <2>6. ASSUME NEW c \in CoinType, c.amount > 0, NEW x, NEW y, NEW t, Clean(t), Stems(a, x, b, y, t),
               s = <<c>> \o t, c.denom = a[i].denom \/ c.denom = b[j].denom,
               \A l \in x .. Len(a) : l \in i .. Len(a) /\ c.denom < a[l].denom,
               \A l \in y .. Len(b) : l \in j .. Len(b) /\ c.denom < b[l].denom
        PROVE  Clean(s) /\ Stems(a, i, b, j, s) /\ s # << >>
    <3>1. Below(c.denom, t)
      BY <2>6, Zenon DEF Stems, Below
    <3>2. Clean(s) /\ Len(s) = Len(t) + 1 /\ OneOf(s, c, t)
      BY <2>6, <3>1, CleanCons, Zenon
    <3>3. s # << >>
      <4>1. Len(t) \in Nat
        BY <2>6 DEF Clean, Purse
      <4>2. Len(s) # 0
        BY <3>2, <4>1
      <4> QED BY <4>2
    <3>4. Stems(a, i, b, j, s)
      <4> SUFFICES ASSUME NEW k \in 1 .. Len(s)
                   PROVE  \/ \E l \in i .. Len(a) : s[k].denom = a[l].denom
                          \/ \E l \in j .. Len(b) : s[k].denom = b[l].denom
        BY Zenon DEF Stems
      <4>1. CASE s[k] = c
        BY <4>1, <2>5, <2>6, Zenon
      <4>2. CASE \E l \in 1 .. Len(t) : s[k] = t[l]
        BY <4>2, <2>6, ZenonT(30) DEF Stems
      <4> QED BY <3>2, <4>1, <4>2, Zenon DEF OneOf
    <3> QED BY <3>2, <3>3, <3>4
  <2>7. CASE a[i].denom < b[j].denom
    <3>1. s = <<a[i]>> \o g[<<i + 1, j>>]
      BY <2>0, <2>7, Zenon DEF Pass
    <3>2. \A l \in j .. Len(b) : a[i].denom < b[l].denom
      <4>1. \A l \in j .. Len(b) : l = j \/ l \in j + 1 .. Len(b)
        BY <1>0, <2>0
      <4>2. \A l \in j + 1 .. Len(b) : a[i].denom < b[l].denom
        BY <2>1, <2>4, <2>7
      <4> QED BY <4>1, <4>2, <2>7, Zenon
    <3> QED BY <2>1, <2>3, <2>4, <2>6, <3>1, <3>2, Zenon
  <2>8. CASE ~ (a[i].denom < b[j].denom) /\ a[i].denom = b[j].denom
    <3>1. s = merged(a[i], b[j]) \o g[<<i + 1, j + 1>>]
      BY <2>0, <2>8, Zenon DEF Pass
    <3>2. a[i].amount + b[j].amount < Half
      BY <2>0, <2>8, Zenon DEF Roomy
    <3>3. PICK c \in CoinType : merged(a[i], b[j]) = <<c>> /\ c.denom = a[i].denom /\ c.amount > 0
      BY <2>1, <2>8, <3>2, MergedClean, Zenon
    <3>4. s = <<c>> \o g[<<i + 1, j + 1>>]
      BY <3>1, <3>3, Zenon
    <3>5. /\ \A l \in i + 1 .. Len(a) : l \in i .. Len(a) /\ c.denom < a[l].denom
          /\ \A l \in j + 1 .. Len(b) : l \in j .. Len(b) /\ c.denom < b[l].denom
      BY <2>4, <2>8, <3>3, Zenon
    <3> QED BY <2>3, <2>6, <3>3, <3>4, <3>5, Zenon
  <2>9. CASE ~ (a[i].denom < b[j].denom) /\ a[i].denom # b[j].denom
    <3>1. s = <<b[j]>> \o g[<<i, j + 1>>]
      BY <2>0, <2>9, Zenon DEF Pass
    <3>2. \A l \in i .. Len(a) : b[j].denom < a[l].denom
      <4>1. \A l \in i .. Len(a) : l = i \/ l \in i + 1 .. Len(a)
        BY <1>0, <2>0
      <4>2. \A l \in i + 1 .. Len(a) : b[j].denom < a[l].denom
        BY <2>1, <2>4, <2>9
      <4>3. b[j].denom < a[i].denom
        BY <2>1, <2>9
      <4> QED BY <4>1, <4>2, <4>3, Zenon
    <3> QED BY <2>1, <2>3, <2>4, <2>6, <3>1, <3>2, Zenon
  <2> QED BY <2>7, <2>8, <2>9
<1> QED BY <1>0, <1>1, <1>2, <1>3

\* Coins.Plus keeps lists clean where nothing overflows.
LEMMA PlusWhole ==
    ASSUME NEW a, NEW b, Clean(a), Clean(b), Roomy(a, b)
    PROVE  Clean(Plus(a, b)) /\ (a # << >> \/ b # << >> => Plus(a, b) # << >>)
<1>0. Len(a) \in Nat /\ Len(b) \in Nat /\ a \in Purse /\ b \in Purse
  BY DEF Clean, Purse
<1>1. PICK g : Merges(a, b, g) /\ Plus(a, b) = g[<<1, 1>>]
  BY <1>0, MergeExists, PlusMerges, Zenon
<1> DEFINE D == Places(a, b)
           mu == [p \in D |-> togo(a, b, p)]
           S == {p \in D : Whole(a, b, g, p)}
<1>2. ASSUME NEW p \in D
      PROVE  /\ p[1] \in 1 .. Len(a) + 1 /\ p[2] \in 1 .. Len(b) + 1 /\ p = <<p[1], p[2]>>
             /\ togo(a, b, p) \in Nat
  BY <1>0 DEF Places, togo
<1>3. mu \in [D -> Nat]
  BY <1>2
<1>4. Inherits(D, mu, S)
  <2> SUFFICES ASSUME NEW p \in D, \A y \in D : mu[y] < mu[p] => y \in S
               PROVE  p \in S
    BY Zenon DEF Inherits
  <2>1. \A q \in Places(a, b) : togo(a, b, q) < togo(a, b, p) => Whole(a, b, g, q)
    BY Zenon
  <2>2. g[p] = Pass(a, b, g, p[1], p[2])
    BY <1>1, <1>2 DEF Merges
  <2>3. PICK i \in 1 .. Len(a) + 1, j \in 1 .. Len(b) + 1 : i = p[1] /\ j = p[2] /\ p = <<i, j>>
    BY <1>2, Zenon
  <2>4. \A q \in Places(a, b) : togo(a, b, q) < togo(a, b, <<i, j>>) => Whole(a, b, g, q)
    BY <2>1, <2>3, Zenon
  <2>5. Clean(g[p]) /\ Stems(a, i, b, j, g[p]) /\ (i <= Len(a) \/ j <= Len(b) => g[p] # << >>)
    BY <2>2, <2>3, <2>4, PassWhole, Zenon
  <2> QED BY <2>3, <2>5, Zenon DEF Whole
<1>5. \A p \in D : p \in S
  <2> HIDE DEF S, mu, D
  <2> QED BY <1>3, <1>4, ByMeasure, Zenon
<1>6. <<1, 1>> \in D
  BY <1>0 DEF Places
<1>7. Whole(a, b, g, <<1, 1>>)
  BY <1>5, <1>6, Zenon
<1>8. <<1, 1>>[1] = 1 /\ <<1, 1>>[2] = 1
  OBVIOUS
<1>9. (a # << >> => 1 <= Len(a)) /\ (b # << >> => 1 <= Len(b))
  BY <1>0 DEF Purse
<1> QED BY <1>1, <1>7, <1>8, <1>9, Zenon DEF Whole

\* The total of a clean list is the amount of one coin, or zero.
LEMMA CleanTotal ==
    ASSUME NEW a, Clean(a), NEW d \in Denoms
    PROVE  /\ Total(a, d) \in 0 .. Half - 1 /\ Total(a, d) \in Amount
           /\ \A i \in 1 .. Len(a) : a[i].denom = d => Total(a, d) = a[i].amount
<1>0. a \in Purse /\ Sorted(a) /\ d \in Int /\ Half \in Nat \ {0}
  BY AmountBitsAssumption, DenomsAssumption DEF Clean
<1>1. Finds(a, d, 1, Len(a), Total(a, d))
  BY <1>0, TotalFound
<1>2. Total(a, d) \in 0 .. Half - 1
  <2>1. CASE Total(a, d) = 0
    BY <2>1, <1>0
  <2>2. CASE \E i \in 1 .. Len(a) : Total(a, d) = a[i].amount
    <3>1. PICK i \in 1 .. Len(a) : Total(a, d) = a[i].amount
      BY <2>2
    <3>2. a[i].amount \in Amount /\ a[i].amount > 0
      BY <1>0, CoinAt, Zenon DEF Clean
    <3> QED BY <1>0, <3>1, <3>2 DEF Amount
  <2> QED BY <1>1, <2>1, <2>2, Zenon DEF Finds
<1>3. ASSUME NEW i \in 1 .. Len(a), a[i].denom = d PROVE Total(a, d) = a[i].amount
  <2>1. Finds(a, d, 1, Len(a), a[i].amount)
    BY <1>3, Zenon DEF Finds
  <2> QED BY <1>0, <1>1, <2>1, FoundOnce, Zenon
<1>4. Total(a, d) \in Amount
  BY <1>0, <1>2 DEF Amount
<1> QED BY <1>2, <1>3, <1>4

\* Coins.Plus is exact on clean lists whose totals fit int64.
THEOREM PlusExact ==
    ASSUME NEW a, NEW b, Clean(a), Clean(b), \A d \in Denoms : Total(a, d) + Total(b, d) < Half
    PROVE  /\ Clean(Plus(a, b)) /\ (a # << >> \/ b # << >> => Plus(a, b) # << >>)
           /\ \A d \in Denoms : Total(Plus(a, b), d) = Total(a, d) + Total(b, d)
<1>0. a \in Purse /\ b \in Purse /\ Half \in Nat \ {0}
  BY AmountBitsAssumption DEF Clean
<1>1. Roomy(a, b)
  <2> SUFFICES ASSUME NEW i \in 1 .. Len(a), NEW j \in 1 .. Len(b), a[i].denom = b[j].denom
               PROVE  a[i].amount + b[j].amount < Half
    BY Zenon DEF Roomy
  <2>1. a[i].denom \in Denoms
    BY <1>0, CoinAt DEF CoinType
  <2>2. Total(a, a[i].denom) = a[i].amount /\ Total(b, a[i].denom) = b[j].amount
    BY <2>1, CleanTotal, Zenon
  <2> QED BY <2>1, <2>2, Zenon
<1>2. Clean(Plus(a, b)) /\ (a # << >> \/ b # << >> => Plus(a, b) # << >>)
  BY <1>1, PlusWhole, Zenon
<1>3. ASSUME NEW d \in Denoms PROVE Total(Plus(a, b), d) = Total(a, d) + Total(b, d)
  <2>1. Total(Plus(a, b), d) \in Amount /\ Total(a, d) \in 0 .. Half - 1 /\ Total(b, d) \in 0 .. Half - 1
    BY <1>2, CleanTotal, Zenon
  <2>2. Total(a, d) + Total(b, d) < Half
    OBVIOUS
  <2>3. Total(a, d) + Total(b, d) \in Amount
    BY <1>0, <2>1, <2>2 DEF Amount
  <2>4. Cong(Total(Plus(a, b), d), Total(a, d) + Total(b, d))
    BY <1>0, PlusAdds, Zenon
  <2> QED BY <2>1, <2>3, <2>4, CongAmounts, Zenon
<1> QED BY <1>2, <1>3

-----------------------------------------------------------------------------
(* Lists of payments.                                                      *)

\* Lists of payments: the sums of their coins that Coins.Plus makes in turn, and the
\* exact sums of one denomination.
Pays(E) == \A e \in E : e.coins \in Purse
Gathers(ends, g) ==
    /\ g \in [0 .. Len(ends) -> Purse]
    /\ g[0] = << >>
    /\ \A i \in 1 .. Len(ends) : g[i] = Plus(g[i - 1], ends[i].coins)
Counts(ends, d, h) ==
    /\ h \in [0 .. Len(ends) -> Int]
    /\ h[0] = 0
    /\ \A i \in 1 .. Len(ends) : h[i] = h[i - 1] + Total(ends[i].coins, d)

\* The sums of a list of payments exist,
LEMMA GatherExists ==
    ASSUME NEW E, NEW ends \in Seq(E), Pays(E)
    PROVE  \E g : Gathers(ends, g)
<1> DEFINE G == [p \in Purse \X E |-> Plus(p[1], p[2].coins)]
<1>1. G \in [Purse \X E -> Purse]
  <2>1. ASSUME NEW p \in Purse \X E PROVE Plus(p[1], p[2].coins) \in Purse
    <3>1. p[1] \in Purse /\ p[2].coins \in Purse
      BY DEF Pays
    <3> QED BY <3>1, PlusAdds
  <2> QED BY <2>1
<1>2. ASSUME NEW s \in Purse, NEW e \in E PROVE G[<<s, e>>] = Plus(s, e.coins)
  OBVIOUS
<1> HIDE DEF G
<1>3. PICK g \in [0 .. Len(ends) -> Purse] : Runs(ends, << >>, G, g)
  <2>1. << >> \in Purse
    BY DEF Purse
  <2> QED BY <1>1, <2>1, FoldRuns, Zenon
<1>4. ASSUME NEW i \in 1 .. Len(ends) PROVE g[i] = Plus(g[i - 1], ends[i].coins)
  <2>1. i - 1 \in 0 .. Len(ends) /\ ends[i] \in E
    OBVIOUS
  <2>2. g[i - 1] \in Purse
    BY <2>1, Zenon
  <2>3. g[i] = G[<<g[i - 1], ends[i]>>]
    BY <1>3, Zenon DEF Runs
  <2> QED BY <1>2, <2>1, <2>2, <2>3, Zenon
<1> QED BY <1>3, <1>4, Zenon DEF Gathers, Runs

\* and so do the exact ones;
LEMMA CountExists ==
    ASSUME NEW E, NEW ends \in Seq(E), Pays(E), NEW d
    PROVE  \E h : Counts(ends, d, h)
<1> DEFINE G == [p \in Int \X E |-> p[1] + Total(p[2].coins, d)]
<1>0. ASSUME NEW e \in E PROVE Total(e.coins, d) \in Int
  BY TotalInt DEF Pays, Purse
<1>1. G \in [Int \X E -> Int]
  BY <1>0
<1>2. ASSUME NEW n \in Int, NEW e \in E PROVE G[<<n, e>>] = n + Total(e.coins, d)
  OBVIOUS
<1> HIDE DEF G
<1>3. PICK h \in [0 .. Len(ends) -> Int] : Runs(ends, 0, G, h)
  <2>1. 0 \in Int
    OBVIOUS
  <2> QED BY <1>1, <2>1, FoldRuns, Zenon
<1>4. ASSUME NEW i \in 1 .. Len(ends) PROVE h[i] = h[i - 1] + Total(ends[i].coins, d)
  <2>1. i - 1 \in 0 .. Len(ends) /\ ends[i] \in E
    OBVIOUS
  <2>2. h[i - 1] \in Int
    BY <2>1, Zenon
  <2>3. h[i] = G[<<h[i - 1], ends[i]>>]
    BY <1>3, Zenon DEF Runs
  <2> QED BY <1>2, <2>1, <2>2, <2>3, Zenon
<1> QED BY <1>3, <1>4, Zenon DEF Counts, Runs

\* moved is the last of them.
LEMMA MovedCounts ==
    ASSUME NEW ends, Len(ends) \in Nat, NEW d, NEW g, Counts(ends, d, g)
    PROVE  moved(ends, d) = g[Len(ends)]
<1> DEFINE Run(h) == h = [i \in 0 .. Len(ends) |-> IF i = 0 THEN 0 ELSE h[i - 1] + Total(ends[i].coins, d)]
<1>1. Run(g)
  <2>1. ASSUME NEW i \in 0 .. Len(ends) PROVE g[i] = IF i = 0 THEN 0 ELSE g[i - 1] + Total(ends[i].coins, d)
    <3>1. i = 0 \/ i \in 1 .. Len(ends)
      OBVIOUS
    <3>2. i \in 1 .. Len(ends) => i # 0
      OBVIOUS
    <3> QED BY <3>1, <3>2, Zenon DEF Counts
  <2>2. g \in [0 .. Len(ends) -> Int]
    BY Zenon DEF Counts
  <2> QED BY <2>1, <2>2, Zenon
<1>2. Run(CHOOSE h : Run(h))
  BY <1>1, Zenon
<1>3. moved(ends, d) = (CHOOSE h : Run(h))[Len(ends)]
  BY Zenon DEF moved, foldLeft
<1> DEFINE h == CHOOSE h : Run(h)
           at(i) == IF i = 0 THEN 0 ELSE h[i - 1] + Total(ends[i].coins, d)
<1> HIDE DEF h
<1>4. ASSUME NEW i \in 0 .. Len(ends) PROVE h[i] = at(i)
  <2>1. h = [j \in 0 .. Len(ends) |-> at(j)]
    BY <1>2, Zenon DEF h
  <2> HIDE DEF at
  <2> QED BY <2>1, Zenon
<1>5. InStep(Len(ends), g, h)
  <2>1. 0 \in 0 .. Len(ends)
    OBVIOUS
  <2>2. h[0] = g[0]
    BY <2>1, <1>4, Zenon DEF Counts
  <2>3. ASSUME NEW i \in 1 .. Len(ends), h[i - 1] = g[i - 1] PROVE h[i] = g[i]
    <3>1. i \in 0 .. Len(ends) /\ i # 0
      OBVIOUS
    <3>2. h[i] = h[i - 1] + Total(ends[i].coins, d)
      BY <3>1, <1>4, Zenon
    <3> QED BY <2>3, <3>2, Zenon DEF Counts
  <2> QED BY <2>2, <2>3, Zenon DEF InStep
<1>6. h[Len(ends)] = g[Len(ends)]
  <2>1. Len(ends) \in 0 .. Len(ends)
    OBVIOUS
  <2> QED BY <1>5, <2>1, OneRun, Zenon
<1> QED BY <1>3, <1>6, Zenon DEF h

\* What positive payments add up to only grows,
LEMMA CountGrows ==
    ASSUME NEW list, Len(list) \in Nat, NEW d, NEW h, Counts(list, d, h),
           \A i \in 1 .. Len(list) : Total(list[i].coins, d) \in Nat
    PROVE  \A k \in 0 .. Len(list) : h[k] <= h[Len(list)]
<1> DEFINE n == Len(list)
           S == {k \in 0 .. n : h[n - k] <= h[n]}
<1>1. h \in [0 .. n -> Int] /\ \A i \in 1 .. n : h[i] = h[i - 1] + Total(list[i].coins, d)
  BY Zenon DEF Counts
<1>2. 0 \in S
  <2>1. n - 0 = n /\ n \in 0 .. n /\ 0 \in 0 .. n
    OBVIOUS
  <2>2. h[n] \in Int
    BY <1>1, <2>1, Zenon
  <2>3. h[n] <= h[n]
    BY <2>2
  <2> QED BY <2>1, <2>3
<1>3. ASSUME NEW k \in 0 .. n - 1, k \in S PROVE k + 1 \in S
  <2>1. n - k \in 1 .. n /\ (n - k) - 1 = n - (k + 1) /\ k + 1 \in 0 .. n /\ n - (k + 1) \in 0 .. n
        /\ n \in 0 .. n /\ n - k \in 0 .. n
    OBVIOUS
  <2>2. h[n - k] = h[n - (k + 1)] + Total(list[n - k].coins, d)
    BY <1>1, <2>1, Zenon
  <2>3. Total(list[n - k].coins, d) \in Nat
    BY <2>1, Zenon
  <2>4. h[n - k] \in Int /\ h[n - (k + 1)] \in Int /\ h[n] \in Int
    BY <1>1, <2>1, Zenon
  <2>5. h[n - k] <= h[n]
    BY <1>3
  <2>6. h[n - (k + 1)] <= h[n]
    BY <2>2, <2>3, <2>4, <2>5
  <2> QED BY <2>1, <2>6
<1>4. \A k \in 0 .. n : k \in S
  <2> HIDE DEF S
  <2> QED BY <1>2, <1>3, UpTo, Zenon
<1>5. ASSUME NEW k \in 0 .. n PROVE h[k] <= h[n]
  <2>1. n - k \in 0 .. n /\ n - (n - k) = k
    OBVIOUS
  <2>2. h[n - (n - k)] <= h[n]
    BY <1>4, <2>1
  <2> QED BY <2>1, <2>2
<1> QED BY <1>5

\* so it fits int64 at every step if it does at the last one.
LEMMA CountBounded ==
    ASSUME NEW list, Len(list) \in Nat, NEW d, NEW h, Counts(list, d, h), moved(list, d) < Half,
           \A i \in 1 .. Len(list) : Total(list[i].coins, d) \in Nat
    PROVE  \A k \in 0 .. Len(list) : h[k] < Half
<1>1. moved(list, d) = h[Len(list)]
  BY MovedCounts
<1>2. \A k \in 0 .. Len(list) : h[k] <= h[Len(list)] /\ h[k] \in Int
  BY CountGrows, Zenon DEF Counts
<1>3. h[Len(list)] \in Int
  BY DEF Counts
<1> QED BY <1>1, <1>2, <1>3, AmountBitsAssumption

\* A running sum of payments is clean and exact.
Level(list, g, k) ==
    /\ Clean(g[k]) /\ (k # 0 => g[k] # << >>)
    /\ \A d \in Denoms : \A h : Counts(list, d, h) => Total(g[k], d) = h[k]

\* All running sums of clean payments are, if the last one fits int64.
LEMMA LevelsRise ==
    ASSUME NEW E, NEW list \in Seq(E), Pays(E), NEW g, Gathers(list, g),
           \A i \in 1 .. Len(list) : Clean(list[i].coins) /\ list[i].coins # << >>,
           \A d \in Denoms : moved(list, d) < Half
    PROVE  \A k \in 0 .. Len(list) : Level(list, g, k)
<1> DEFINE n == Len(list)
           S == {k \in 0 .. n : Level(list, g, k)}
<1>0. n \in Nat
  OBVIOUS
<1>1. 0 \in S
  <2>1. g[0] = << >>
    BY DEF Gathers
  <2>2. Clean(<< >>)
    BY DEF Clean, Sorted, Purse
  <2>3. ASSUME NEW d \in Denoms, NEW h, Counts(list, d, h) PROVE Total(<< >>, d) = h[0]
    BY <2>3, TotalEmpty DEF Counts
  <2>4. Level(list, g, 0)
    BY <2>1, <2>2, <2>3, Zenon DEF Level
  <2> QED BY <1>0, <2>4
<1>2. ASSUME NEW k \in 0 .. n - 1, k \in S PROVE k + 1 \in S
  <2>1. k + 1 \in 1 .. n /\ (k + 1) - 1 = k /\ k + 1 \in 0 .. n /\ k \in 0 .. n /\ k + 1 # 0
    BY <1>0
  <2>2. Level(list, g, k)
    BY <1>2
  <2> DEFINE a == g[k]
             b == list[k + 1].coins
  <2>3. g[k + 1] = Plus(a, b)
    BY <2>1, Zenon DEF Gathers
  <2>4. Clean(a) /\ Clean(b) /\ b # << >>
    BY <2>1, <2>2, Zenon DEF Level
  <2>5. ASSUME NEW d \in Denoms, NEW h, Counts(list, d, h)
        PROVE  Total(a, d) + Total(b, d) = h[k + 1] /\ h[k + 1] < Half
    <3>1. Total(a, d) = h[k]
      BY <2>2, <2>5, Zenon DEF Level
    <3>2. h[k + 1] = h[k] + Total(b, d)
      BY <2>1, <2>5, Zenon DEF Counts
    <3>3. \A i \in 1 .. n : Total(list[i].coins, d) \in Nat
      <4>1. \A i \in 1 .. n : Total(list[i].coins, d) \in 0 .. Half - 1
        BY CleanTotal, Zenon
      <4> QED BY <4>1, AmountBitsAssumption
    <3>4. moved(list, d) < Half
      OBVIOUS
    <3>5. h[k + 1] < Half
      BY <1>0, <2>1, <2>5, <3>3, <3>4, CountBounded
    <3> QED BY <3>1, <3>2, <3>5, Zenon
  <2>6. ASSUME NEW d \in Denoms PROVE Total(a, d) + Total(b, d) < Half
    <3>1. PICK h : Counts(list, d, h)
      BY CountExists, Zenon
    <3> QED BY <2>5, <3>1, Zenon
  <2> HIDE DEF a, b
  <2>7. /\ Clean(Plus(a, b)) /\ Plus(a, b) # << >>
        /\ \A d \in Denoms : Total(Plus(a, b), d) = Total(a, d) + Total(b, d)
    BY <2>4, <2>6, PlusExact, Zenon
  <2>8. Level(list, g, k + 1)
    BY <2>3, <2>5, <2>7, Zenon DEF Level
  <2> QED BY <2>1, <2>8
<1> HIDE DEF S
<1>3. \A k \in 0 .. n : k \in S
  BY <1>0, <1>1, <1>2, UpTo, Zenon
<1> QED BY <1>3, Zenon DEF S

=============================================================================
