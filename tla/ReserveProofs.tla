---------------------------- MODULE ReserveProofs ----------------------------
(***************************************************************************)
(* Every function of the reserve's pipeline maps a well-formed reserve to  *)
(* a well-formed one: the amounts, the rates and the indexes are natural   *)
(* numbers, the scaled supplies are the sums of the balances, no timestamp *)
(* lies in the future and no index is below a ray.                         *)
(***************************************************************************)
EXTENDS ReserveLogic, ArithmeticProofs

\* The supply of a scaled token is what the accounts hold together.
BalancedToken == {t \in Token : t.supply = Total(t.balance, Account)}

\* No timestamp of the stable debt lies in the future.
StablePast(s, now) ==
    s.totalSupplyTimestamp <= now /\ \A u \in Account : s.timestamps[u] <= now

\* What holds of every reserve, listed or not.
ReserveOK(r, now) ==
    /\ r \in Reserve
    /\ r.aToken \in BalancedToken
    /\ r.variableDebt \in BalancedToken
    /\ r.lastUpdateTimestamp <= now
    /\ r.stableDebt.totalSupplyTimestamp <= r.lastUpdateTimestamp
    /\ StablePast(r.stableDebt, now)

\* What holds of a reserve that was initialised.
ListedOK(r, now) ==
    /\ ReserveOK(r, now)
    /\ r.strategy \in Strategy
    /\ r.liquidityIndex >= RAY
    /\ r.variableBorrowIndex >= RAY

-----------------------------------------------------------------------------
(* Scaled tokens *)

\* What a token that is written is made of.
LEMMA BalancedTokenFields ==
    ASSUME NEW t \in BalancedToken
    PROVE  /\ t \in Token /\ t.balance \in [Account -> Nat] /\ t.supply \in Nat
           /\ t.supply = Total(t.balance, Account)
           /\ \A u \in Account : t.balance[u] \in Nat /\ t.balance[u] <= t.supply
<1>1. t \in Token /\ t.balance \in [Account -> Nat] /\ t.supply = Total(t.balance, Account)
      /\ t.supply \in Nat
    BY DEF BalancedToken, Token
<1>2. \A u \in Account : t.balance[u] <= Total(t.balance, Account)
    BY <1>1, TotalAtLeast, AccountAssumption
<1> QED BY <1>1, <1>2

\* The token before anybody holds it.
LEMMA EmptyTokenType == EmptyToken \in BalancedToken
<1>1. EmptyToken.balance = [u \in Account |-> 0] /\ EmptyToken.supply = 0 /\ EmptyToken \in Token
    BY DEF EmptyToken, Token
<1>2. Total(EmptyToken.balance, Account) = 0
  <2>1. \A u \in Account : EmptyToken.balance[u] = 0
    BY <1>1
  <2>2. Total(EmptyToken.balance, Account) = 0 * Cardinality(Account)
    BY <2>1, TotalOfConstant, AccountAssumption
  <2> QED BY <2>2, FS_CardinalityType, AccountAssumption
<1> QED BY <1>1, <1>2 DEF BalancedToken

\* Balances that change by the same amount as the supply keep a token balanced.
LEMMA BalancedByDifference ==
    ASSUME NEW t \in BalancedToken, NEW b \in [Account -> Nat], NEW s \in Nat, NEW u \in Account,
           \A v \in Account \ {u} : b[v] = t.balance[v], s = t.supply + b[u] - t.balance[u]
    PROVE  [balance |-> b, supply |-> s] \in BalancedToken
<1>1. Total(b, Account) = Total(t.balance, Account) + b[u] - t.balance[u]
  <2>1. \A v \in Account : t.balance[v] \in Int /\ b[v] \in Int
    BY BalancedTokenFields
  <2> QED BY <2>1, TotalChange, AccountAssumption
<1> QED BY <1>1, BalancedTokenFields DEF BalancedToken, Token

\* A scaled mint, burn or transfer the token accepts leaves unsigned balances, and a
\* supply that is their sum: also when the transfer is to oneself.
LEMMA ScaledTokenType ==
    ASSUME NEW t \in BalancedToken, NEW u \in Account, NEW v \in Account, NEW n \in Nat
    PROVE  /\ mintScaled(t, u, n) \in BalancedToken
           /\ burnScaledAccepted(t, u, n) => burnScaled(t, u, n) \in BalancedToken
           /\ transferScaledAccepted(t, u, n) => transferScaled(t, u, v, n) \in BalancedToken
<1>1. t \in Token /\ t.balance \in [Account -> Nat] /\ t.supply \in Nat
    BY BalancedTokenFields
<1>2. mintScaled(t, u, n) \in BalancedToken
  <2> DEFINE b == [t.balance EXCEPT ![u] = @ + n]
  <2>1. /\ b \in [Account -> Nat] /\ t.supply + n \in Nat
        /\ \A w \in Account \ {u} : b[w] = t.balance[w]
        /\ t.supply + n = t.supply + b[u] - t.balance[u]
    BY <1>1
  <2> HIDE DEF b
  <2>2. [balance |-> b, supply |-> t.supply + n] \in BalancedToken
    BY <2>1, BalancedByDifference
  <2> QED BY <2>2 DEF mintScaled, b
<1>3. ASSUME burnScaledAccepted(t, u, n) PROVE burnScaled(t, u, n) \in BalancedToken
  <2> DEFINE b == [t.balance EXCEPT ![u] = @ - n]
  <2>1. /\ b \in [Account -> Nat] /\ t.supply - n \in Nat
        /\ \A w \in Account \ {u} : b[w] = t.balance[w]
        /\ t.supply - n = t.supply + b[u] - t.balance[u]
    BY <1>1, <1>3 DEF burnScaledAccepted
  <2> HIDE DEF b
  <2>2. [balance |-> b, supply |-> t.supply - n] \in BalancedToken
    BY <2>1, BalancedByDifference
  <2> QED BY <2>2 DEF burnScaled, b
<1>4. ASSUME transferScaledAccepted(t, u, n) PROVE transferScaled(t, u, v, n) \in BalancedToken
  <2> DEFINE debited  == [t.balance EXCEPT ![u] = @ - n]
             credited == [debited EXCEPT ![v] = @ + n]
  <2>1. /\ debited \in [Account -> Nat] /\ credited \in [Account -> Nat]
        /\ \A w \in Account \ {u} : debited[w] = t.balance[w]
        /\ \A w \in Account \ {v} : credited[w] = debited[w]
        /\ debited[u] = t.balance[u] - n /\ credited[v] = debited[v] + n
    BY <1>1, <1>4 DEF transferScaledAccepted
  <2>2. transferScaled(t, u, v, n) = [balance |-> credited, supply |-> t.supply]
    BY <1>1 DEF transferScaled, Token
  <2> HIDE DEF debited, credited
  <2>3. /\ \A w \in Account : t.balance[w] \in Int /\ debited[w] \in Int /\ credited[w] \in Int
    BY <1>1, <2>1
  <2>4. Total(debited, Account) = Total(t.balance, Account) + debited[u] - t.balance[u]
    BY <2>1, <2>3, TotalChange, AccountAssumption
  <2>5. Total(credited, Account) = Total(debited, Account) + credited[v] - debited[v]
    <3>1. \A w \in Account \ {v} : credited[w] = debited[w]
      BY <2>1
    <3>2. \A w \in Account : debited[w] \in Int /\ credited[w] \in Int
      BY <2>3
    <3> QED BY <3>1, <3>2, TotalChange, AccountAssumption
  <2>6. t.supply = Total(t.balance, Account)
    BY BalancedTokenFields
  <2>7. debited[v] \in Int /\ t.balance[u] \in Int
    BY <2>3
  <2>8. Total(credited, Account) = t.supply
    BY <1>1, <2>1, <2>4, <2>5, <2>6, <2>7
  <2> QED BY <1>1, <2>1, <2>2, <2>8 DEF BalancedToken, Token
<1> QED BY <1>2, <1>3, <1>4

\* So do the aToken's and the variable debt token's operations, at any index.
LEMMA TokenOperationsType ==
    ASSUME NEW t \in BalancedToken, NEW u \in Account, NEW n \in Nat, NEW i \in Nat, i >= RAY
    PROVE  /\ mint(t, u, n, i) \in BalancedToken
           /\ burnAccepted(t, u, n, i) => burn(t, u, n, i) \in BalancedToken
           /\ mintToTreasury(t, u, n, i) \in BalancedToken
           /\ balanceOf(t, u, i) \in Nat
           /\ totalSupply(t, i) \in Nat
<1>1. rayDiv(n, i) \in Nat
    BY RoundedInNat, ScalePositive
<1>2. t.balance[u] \in Nat /\ t.supply \in Nat
    BY BalancedTokenFields
<1> QED BY <1>1, <1>2, ScaledTokenType, RoundedInNat
        DEF mint, burnAccepted, burn, mintToTreasury, balanceOf, totalSupply

-----------------------------------------------------------------------------
(* Stable debt *)

\* The stable token's views are unsigned, and a debt is zero only when its principal is.
LEMMA StableViews ==
    ASSUME NEW s \in StableToken, NEW now \in Nat, StablePast(s, now), NEW u \in Account
    PROVE  /\ stableBalanceOf(s, u, now) \in Nat
           /\ stableTotalSupply(s, now) \in Nat
           /\ stableBalanceOf(s, u, now) = 0 <=> s.balance[u] = 0
<1>1. /\ s.balance[u] \in Nat /\ s.usersStableRate[u] \in Nat /\ s.timestamps[u] \in Nat
      /\ s.supply \in Nat /\ s.avgStableRate \in Nat /\ s.totalSupplyTimestamp \in Nat
    BY DEF StableToken
<1> DEFINE f == calculateCompoundedInterest(s.usersStableRate[u], s.timestamps[u], now)
           g == calculateCompoundedInterest(s.avgStableRate, s.totalSupplyTimestamp, now)
<1>2. f \in Nat /\ f >= RAY /\ g \in Nat
    BY <1>1, CompoundedInterest DEF StablePast
<1> HIDE DEF f, g
<1>3. rayMul(s.balance[u], f) \in Nat /\ rayMul(s.supply, g) \in Nat
    BY <1>1, <1>2, RoundedInNat
<1>4. rayMul(s.balance[u], f) >= s.balance[u]
    BY <1>1, <1>2, RayMulGrows
<1> QED BY <1>1, <1>3, <1>4 DEF stableBalanceOf, stableTotalSupply, f, g

\* The weighted average rate of the stable token is unsigned.
LEMMA WeightedRateType ==
    ASSUME NEW r \in Nat, NEW a \in Nat, NEW q \in Nat, NEW b \in Nat \ {0}
    PROVE  weightedRate(r, a, q, b) \in Nat
<1>1. wadToRay(a) \in Nat /\ wadToRay(b) \in Nat /\ wadToRay(a + b) \in Nat \ {0}
    BY RoundedInNat
<1>2. rayMul(r, wadToRay(a)) + rayMul(q, wadToRay(b)) \in Nat
  <2>1. rayMul(r, wadToRay(a)) \in Nat /\ rayMul(q, wadToRay(b)) \in Nat
    BY <1>1, RoundedInNat
  <2> QED BY <2>1
<1> QED BY <1>1, <1>2, RoundedInNat DEF weightedRate

\* A stable mint keeps the token well formed and dated no later than now.
LEMMA MintStableType ==
    ASSUME NEW s \in StableToken, NEW now \in Nat, StablePast(s, now), NEW u \in Account,
           NEW n \in Nat, mintStableAccepted(n), NEW rate \in Nat
    PROVE  /\ mintStable(s, u, n, rate, now) \in StableToken
           /\ StablePast(mintStable(s, u, n, rate, now), now)
<1> DEFINE owed == stableBalanceOf(s, u, now)
           total == stableTotalSupply(s, now)
           w1 == weightedRate(s.usersStableRate[u], owed, rate, n)
           w2 == weightedRate(s.avgStableRate, total, rate, n)
<1>1. owed \in Nat /\ total \in Nat
    BY StableViews
<1>2. /\ s.balance \in [Account -> Nat] /\ s.usersStableRate \in [Account -> Nat]
      /\ s.timestamps \in [Account -> Nat] /\ s.avgStableRate \in Nat
    BY DEF StableToken
<1>3. n \in Nat \ {0} /\ s.usersStableRate[u] \in Nat
    BY <1>2 DEF mintStableAccepted
<1> HIDE DEF owed, total
<1>4. w1 \in Nat /\ w2 \in Nat
    BY <1>1, <1>2, <1>3, WeightedRateType
<1> HIDE DEF w1, w2
<1>5. mintStable(s, u, n, rate, now)
        = [balance              |-> [s.balance EXCEPT ![u] = owed + n],
           usersStableRate      |-> [s.usersStableRate EXCEPT ![u] = w1],
           timestamps           |-> [s.timestamps EXCEPT ![u] = now],
           supply               |-> total + n,
           avgStableRate        |-> w2,
           totalSupplyTimestamp |-> now]
    BY DEF mintStable, owed, total, w1, w2
<1>6. mintStable(s, u, n, rate, now) \in StableToken
    BY <1>1, <1>2, <1>4, <1>5 DEF StableToken
<1>7. StablePast(mintStable(s, u, n, rate, now), now)
    BY <1>2, <1>5 DEF StablePast
<1> QED BY <1>6, <1>7

\* So does a stable burn; it makes no new debtor, and a full repayment clears the balance.
LEMMA BurnStableType ==
    ASSUME NEW s \in StableToken, NEW now \in Nat, StablePast(s, now), NEW u \in Account,
           NEW n \in Nat, burnStableAccepted(s, u, n, now)
    PROVE  /\ burnStable(s, u, n, now) \in StableToken
           /\ StablePast(burnStable(s, u, n, now), now)
           /\ \A v \in Account : s.balance[v] = 0 => burnStable(s, u, n, now).balance[v] = 0
           /\ n = stableBalanceOf(s, u, now) => burnStable(s, u, n, now).balance[u] = 0
<1> DEFINE owed == stableBalanceOf(s, u, now)
           total == stableTotalSupply(s, now)
           first == rayMul(s.avgStableRate, wadToRay(total))
           second == rayMul(s.usersStableRate[u], wadToRay(n))
           depleted == total <= n \/ second >= first
           t == burnStable(s, u, n, now)
<1>1. owed \in Nat /\ total \in Nat /\ n <= owed /\ (owed = 0 <=> s.balance[u] = 0)
    BY StableViews DEF burnStableAccepted
<1>2. /\ s.balance \in [Account -> Nat] /\ s.usersStableRate \in [Account -> Nat]
      /\ s.timestamps \in [Account -> Nat] /\ s.avgStableRate \in Nat
    BY DEF StableToken
<1> HIDE DEF owed, total
<1>3. first \in Nat /\ second \in Nat
    BY <1>1, <1>2, RoundedInNat
<1> HIDE DEF first, second
<1>4. ASSUME ~depleted PROVE rayDiv(first - second, wadToRay(total - n)) \in Nat
  <2>1. total - n \in Nat \ {0} /\ first - second \in Nat
    BY <1>1, <1>3, <1>4
  <2> QED BY <2>1, RoundedInNat
<1>5. t = [balance              |-> [s.balance EXCEPT ![u] = owed - n],
           usersStableRate      |-> [s.usersStableRate EXCEPT ![u] = IF n = owed THEN 0 ELSE @],
           timestamps           |-> [s.timestamps EXCEPT ![u] = IF n = owed THEN 0 ELSE now],
           supply               |-> IF depleted THEN 0 ELSE total - n,
           avgStableRate        |-> IF depleted THEN 0
                                    ELSE rayDiv(first - second, wadToRay(total - n)),
           totalSupplyTimestamp |-> now]
    BY DEF burnStable, owed, total, first, second
<1> HIDE DEF t
<1>6. t \in StableToken
  <2>1. [s.balance EXCEPT ![u] = owed - n] \in [Account -> Nat]
    BY <1>1, <1>2
  <2>2. [s.usersStableRate EXCEPT ![u] = IF n = owed THEN 0 ELSE @] \in [Account -> Nat]
    BY <1>2
  <2>3. [s.timestamps EXCEPT ![u] = IF n = owed THEN 0 ELSE now] \in [Account -> Nat]
    BY <1>2
  <2>4. (IF depleted THEN 0 ELSE total - n) \in Nat
    BY <1>1
  <2>5. (IF depleted THEN 0 ELSE rayDiv(first - second, wadToRay(total - n))) \in Nat
    BY <1>4
  <2> HIDE DEF depleted
  <2> QED BY <1>5, <2>1, <2>2, <2>3, <2>4, <2>5 DEF StableToken
<1>7. StablePast(t, now)
    BY <1>2, <1>5 DEF StablePast
<1>8. t.balance = [s.balance EXCEPT ![u] = owed - n]
    BY <1>5
<1> QED BY <1>1, <1>2, <1>6, <1>7, <1>8 DEF t, owed

-----------------------------------------------------------------------------
(* Interest rates *)

\* The utilization rate never exceeds one ray.
LEMMA UtilizationRange ==
    ASSUME NEW d \in Nat, NEW l \in Nat
    PROVE  utilizationRate(d, l) \in 0 .. RAY
<1>1. CASE d = 0
    BY <1>1, ScalePositive DEF utilizationRate
<1>2. CASE d # 0
  <2>1. l + d \in Nat \ {0} /\ d <= l + d
    BY <1>2
  <2> QED BY <1>2, <2>1, RayDivOfPart DEF utilizationRate
<1> QED BY <1>1, <1>2

\* Both borrow rates of the strategy's curve are unsigned at any utilization.
LEMMA CurveType ==
    ASSUME NEW s \in Strategy, NEW u \in 0 .. RAY
    PROVE  stableBorrowRate(s, u) \in Nat /\ variableBorrowRate(s, u) \in Nat
<1> DEFINE excess == excessUtilizationRateRatio(s, u)
<1>1. /\ s.optimalUtilizationRate \in Nat \ {0} /\ s.optimalUtilizationRate <= RAY
      /\ s.baseVariableBorrowRate \in Nat /\ s.variableRateSlope1 \in Nat
      /\ s.variableRateSlope2 \in Nat /\ s.stableRateSlope1 \in Nat
      /\ s.stableRateSlope2 \in Nat /\ s.marketBorrowRate \in Nat
    BY ScalePositive DEF Strategy
<1>2. u \in Nat /\ u <= RAY
    BY ScalePositive
<1>3. ASSUME aboveOptimal(s, u)
      PROVE  rayMul(s.stableRateSlope2, excess) \in Nat /\ rayMul(s.variableRateSlope2, excess) \in Nat
  <2>1. u - s.optimalUtilizationRate \in Nat /\ RAY - s.optimalUtilizationRate \in Nat \ {0}
    BY <1>1, <1>2, <1>3, ScalePositive DEF aboveOptimal
  <2>2. excess \in Nat
    BY <2>1, RoundedInNat DEF excessUtilizationRateRatio
  <2> HIDE DEF excess
  <2> QED BY <1>1, <2>2, RoundedInNat
<1>4. /\ rayMul(s.stableRateSlope1, rayDiv(u, s.optimalUtilizationRate)) \in Nat
      /\ rayDiv(rayMul(u, s.variableRateSlope1), s.optimalUtilizationRate) \in Nat
  <2>1. rayDiv(u, s.optimalUtilizationRate) \in Nat /\ rayMul(u, s.variableRateSlope1) \in Nat
    BY <1>1, <1>2, RoundedInNat
  <2> QED BY <1>1, <2>1, RoundedInNat
<1> HIDE DEF excess
<1>5. stableBorrowRate(s, u) \in Nat
    BY <1>1, <1>3, <1>4 DEF stableBorrowRate, excess
<1>6. variableBorrowRate(s, u) \in Nat
    BY <1>1, <1>3, <1>4 DEF variableBorrowRate, excess
<1> QED BY <1>5, <1>6

\* The overall borrow rate is unsigned, whatever the split of the debt.
LEMMA OverallRateType ==
    ASSUME NEW ds \in Nat, NEW dv \in Nat, NEW v \in Nat, NEW avg \in Nat
    PROVE  getOverallBorrowRate(ds, dv, v, avg) \in Nat
<1>1. CASE ds + dv = 0
    BY <1>1 DEF getOverallBorrowRate
<1>2. CASE ds + dv # 0
  <2>1. wadToRay(ds) \in Nat /\ wadToRay(dv) \in Nat /\ wadToRay(ds + dv) \in Nat \ {0}
    BY <1>2, RoundedInNat
  <2>2. rayMul(wadToRay(dv), v) \in Nat /\ rayMul(wadToRay(ds), avg) \in Nat
    BY <2>1, RoundedInNat
  <2>3. rayMul(wadToRay(dv), v) + rayMul(wadToRay(ds), avg) \in Nat
    BY <2>2
  <2> QED BY <1>2, <2>1, <2>3, RoundedInNat DEF getOverallBorrowRate
<1> QED BY <1>1, <1>2

\* The three rates the strategy returns are unsigned.
LEMMA InterestRatesType ==
    ASSUME NEW s \in Strategy, NEW l \in Nat, NEW ds \in Nat, NEW dv \in Nat,
           NEW avg \in Nat, NEW f \in Nat, f <= PERCENTAGE_FACTOR
    PROVE  LET rates == calculateInterestRates(s, l, ds, dv, avg, f)
           IN  rates.liquidity \in Nat /\ rates.stable \in Nat /\ rates.variable \in Nat
<1> DEFINE u == utilizationRate(ds + dv, l)
           v == variableBorrowRate(s, u)
           o == getOverallBorrowRate(ds, dv, v, avg)
<1>1. ds + dv \in Nat
    OBVIOUS
<1>2. u \in 0 .. RAY
    BY <1>1, UtilizationRange
<1>3. u \in Nat
    BY <1>2, ScalePositive
<1> HIDE DEF u
<1>4. v \in Nat /\ stableBorrowRate(s, u) \in Nat
    BY <1>2, CurveType
<1> HIDE DEF v
<1>5. o \in Nat
    BY <1>4, OverallRateType
<1> HIDE DEF o
<1>6. rayMul(o, u) \in Nat /\ PERCENTAGE_FACTOR - f \in Nat
    BY <1>3, <1>5, RoundedInNat, ScalePositive
<1>7. percentMul(rayMul(o, u), PERCENTAGE_FACTOR - f) \in Nat
    BY <1>6, RoundedInNat
<1> QED BY <1>4, <1>7 DEF calculateInterestRates, u, v, o

-----------------------------------------------------------------------------
(* The pipeline *)

\* The type of each field of a reserve, for the steps that use one.
LEMMA ReserveFields ==
    ASSUME NEW r \in Reserve
    PROVE  /\ r.liquidityIndex \in Nat /\ r.variableBorrowIndex \in Nat
           /\ r.currentLiquidityRate \in Nat /\ r.currentVariableBorrowRate \in Nat
           /\ r.currentStableBorrowRate \in Nat /\ r.lastUpdateTimestamp \in Nat
           /\ r.config \in Configuration /\ r.config.reserveFactor \in Nat
           /\ r.liquidity \in Nat /\ r.aToken \in Token /\ r.variableDebt \in Token
           /\ r.stableDebt \in StableToken
           /\ r.aToken.supply \in Nat /\ r.variableDebt.supply \in Nat
           /\ r.stableDebt.supply \in Nat /\ r.stableDebt.avgStableRate \in Nat
           /\ r.stableDebt.totalSupplyTimestamp \in Nat
           /\ \A u \in Account : r.aToken.balance[u] \in Nat /\ r.variableDebt.balance[u] \in Nat
BY DEF Reserve, Configuration, Token, StableToken

\* The books of a listed reserve balance.
LEMMA ReserveBooks ==
    ASSUME NEW r, NEW now, ListedOK(r, now)
    PROVE  r.aToken \in BalancedToken /\ r.variableDebt \in BalancedToken
BY DEF ListedOK, ReserveOK

\* The indexes shown are those stored, with interest added.
LEMMA NormalizedIndexes ==
    ASSUME NEW r, NEW now \in Nat, ListedOK(r, now)
    PROVE  /\ getNormalizedIncome(r, now) \in Nat
           /\ getNormalizedIncome(r, now) >= r.liquidityIndex
           /\ getNormalizedDebt(r, now) \in Nat
           /\ getNormalizedDebt(r, now) >= r.variableBorrowIndex
           /\ getNormalizedIncome(r, now) >= RAY /\ getNormalizedDebt(r, now) >= RAY
<1> DEFINE l == calculateLinearInterest(r.currentLiquidityRate, r.lastUpdateTimestamp, now)
           c == calculateCompoundedInterest(r.currentVariableBorrowRate, r.lastUpdateTimestamp, now)
<1>1. r \in Reserve /\ r.lastUpdateTimestamp <= now
      /\ r.liquidityIndex >= RAY /\ r.variableBorrowIndex >= RAY
    BY DEF ListedOK, ReserveOK
<1>2. l \in Nat /\ l >= RAY /\ c \in Nat /\ c >= RAY
    BY <1>1, ReserveFields, LinearInterest, CompoundedInterest
<1> HIDE DEF l, c
<1>3. /\ rayMul(l, r.liquidityIndex) \in Nat
      /\ rayMul(l, r.liquidityIndex) >= r.liquidityIndex
      /\ rayMul(c, r.variableBorrowIndex) \in Nat
      /\ rayMul(c, r.variableBorrowIndex) >= r.variableBorrowIndex
    BY <1>1, <1>2, ReserveFields, RayMulGrows, RoundedInNat
<1>4. r.liquidityIndex \in Nat /\ r.variableBorrowIndex \in Nat
    BY <1>1, ReserveFields
<1> QED BY <1>1, <1>3, <1>4, ScalePositive DEF getNormalizedIncome, getNormalizedDebt, l, c

\* Committing the interest makes the stored income index the one that was shown;
\* the debt index does not fall and does not pass the one that was shown.
LEMMA UpdateIndexes ==
    ASSUME NEW r, NEW now \in Nat, ListedOK(r, now)
    PROVE  LET n == updateIndexes(r, now)
           IN  /\ ListedOK(n, now)
               /\ n = [r EXCEPT !.liquidityIndex = n.liquidityIndex,
                                !.variableBorrowIndex = n.variableBorrowIndex,
                                !.lastUpdateTimestamp = now]
               /\ n.lastUpdateTimestamp = now
               /\ n.liquidityIndex = getNormalizedIncome(r, now)
               /\ n.variableBorrowIndex >= r.variableBorrowIndex
               /\ n.variableBorrowIndex <= getNormalizedDebt(r, now)
<1> DEFINE l == calculateLinearInterest(r.currentLiquidityRate, r.lastUpdateTimestamp, now)
           c == calculateCompoundedInterest(r.currentVariableBorrowRate, r.lastUpdateTimestamp, now)
           earning == r.currentLiquidityRate > 0
           i == IF earning THEN rayMul(l, r.liquidityIndex) ELSE r.liquidityIndex
           v == IF earning /\ r.variableDebt.supply # 0 THEN rayMul(c, r.variableBorrowIndex)
                ELSE r.variableBorrowIndex
           n == updateIndexes(r, now)
<1>1. r \in Reserve /\ r.lastUpdateTimestamp <= now
      /\ r.liquidityIndex >= RAY /\ r.variableBorrowIndex >= RAY
      /\ r.strategy \in Strategy /\ StablePast(r.stableDebt, now)
      /\ r.aToken \in BalancedToken /\ r.variableDebt \in BalancedToken
    BY DEF ListedOK, ReserveOK
<1>2. /\ r.lastUpdateTimestamp = now => l = RAY /\ c = RAY
      /\ ~earning => l = RAY
  <2>1. r.currentLiquidityRate \in Nat /\ r.currentVariableBorrowRate \in Nat
        /\ r.lastUpdateTimestamp \in Nat
    BY <1>1, ReserveFields
  <2>2. ~earning => r.currentLiquidityRate = 0
    BY <2>1
  <2> QED BY <1>1, <2>1, <2>2, LinearInterest, CompoundedInterest
<1> HIDE DEF l, c
<1>3. r.liquidityIndex \in Nat /\ r.variableBorrowIndex \in Nat
    BY <1>1, ReserveFields
<1>4. rayMul(RAY, r.liquidityIndex) = r.liquidityIndex
      /\ rayMul(RAY, r.variableBorrowIndex) = r.variableBorrowIndex
    BY <1>3, RayMulOne
<1>5. i = getNormalizedIncome(r, now)
    BY <1>2, <1>4 DEF getNormalizedIncome, l
<1>6. v = r.variableBorrowIndex \/ v = getNormalizedDebt(r, now)
    BY <1>2, <1>4 DEF getNormalizedDebt, c
<1>7. i \in Nat /\ i >= RAY /\ v \in Nat /\ v >= r.variableBorrowIndex
      /\ v <= getNormalizedDebt(r, now) /\ v >= RAY
  <2>1. i \in Nat /\ i >= RAY
    BY <1>5, NormalizedIndexes
  <2> HIDE DEF i, v
  <2> QED BY <1>1, <1>3, <1>6, <2>1, NormalizedIndexes, ScalePositive
<1>8. n = [r EXCEPT !.liquidityIndex = i, !.variableBorrowIndex = v, !.lastUpdateTimestamp = now]
    BY DEF updateIndexes, l, c
<1> HIDE DEF n, i, v
<1>9. n \in Reserve /\ n.liquidityIndex = i /\ n.variableBorrowIndex = v
      /\ n.lastUpdateTimestamp = now /\ n.strategy = r.strategy /\ n.stableDebt = r.stableDebt
      /\ n.aToken = r.aToken /\ n.variableDebt = r.variableDebt
    BY <1>1, <1>7, <1>8 DEF Reserve
<1>10. ListedOK(n, now)
    BY <1>1, <1>7, <1>9 DEF ListedOK, ReserveOK, StablePast
<1> QED BY <1>5, <1>7, <1>8, <1>9, <1>10 DEF n

\* The treasury's share of the accrued interest is unsigned.
LEMMA TreasuryFeeType ==
    ASSUME NEW r, NEW n, NEW now \in Nat, ListedOK(r, now), ListedOK(n, now),
           mintToTreasuryAccepted(r, n, now)
    PROVE  amountToMintToTreasury(r, n, now) \in Nat
<1>1. r \in Reserve /\ n \in Reserve /\ StablePast(n.stableDebt, now)
    BY DEF ListedOK, ReserveOK
<1>2. CASE r.config.reserveFactor = 0
    BY <1>2 DEF amountToMintToTreasury
<1>3. CASE r.config.reserveFactor # 0
  <2> DEFINE c == calculateCompoundedInterest(r.stableDebt.avgStableRate,
                                              r.stableDebt.totalSupplyTimestamp,
                                              r.lastUpdateTimestamp)
  <2>1. previousDebt(r) <= currentDebt(n, now)
        /\ r.stableDebt.totalSupplyTimestamp <= r.lastUpdateTimestamp
    BY <1>3 DEF mintToTreasuryAccepted
  <2>2. previousDebt(r) \in Nat
    <3>1. c \in Nat
      BY <1>1, <2>1, ReserveFields, CompoundedInterest
    <3> HIDE DEF c
    <3>2. rayMul(r.variableDebt.supply, r.variableBorrowIndex) \in Nat
          /\ rayMul(r.stableDebt.supply, c) \in Nat
      BY <1>1, <3>1, ReserveFields, RoundedInNat
    <3> QED BY <3>2 DEF previousDebt, c
  <2>3. currentDebt(n, now) \in Nat
    <3>1. rayMul(n.variableDebt.supply, n.variableBorrowIndex) \in Nat
      BY <1>1, ReserveFields, RoundedInNat
    <3>2. stableTotalSupply(n.stableDebt, now) \in Nat
      BY <1>1, ReserveFields, StableViews, TreasuryAssumption
    <3> QED BY <3>1, <3>2 DEF currentDebt
  <2>4. currentDebt(n, now) - previousDebt(r) \in Nat
    BY <2>1, <2>2, <2>3
  <2>5. r.config.reserveFactor \in Nat
    BY <1>1, ReserveFields
  <2> QED BY <1>3, <2>4, <2>5, RoundedInNat DEF amountToMintToTreasury
<1> QED BY <1>2, <1>3

\* Only the indexes, the timestamp and the aTokens of the treasury change.
LEMMA UpdateState ==
    ASSUME NEW r, NEW now \in Nat, ListedOK(r, now), updateStateAccepted(r, now)
    PROVE  LET n == updateState(r, now)
           IN  /\ ListedOK(n, now)
               /\ n.lastUpdateTimestamp = now
               /\ n.liquidityIndex = getNormalizedIncome(r, now)
               /\ n.variableBorrowIndex >= r.variableBorrowIndex
               /\ n.variableBorrowIndex <= getNormalizedDebt(r, now)
               /\ n.variableDebt = r.variableDebt /\ n.stableDebt = r.stableDebt
               /\ n.liquidity = r.liquidity /\ n.config = r.config /\ n.strategy = r.strategy
               /\ n.currentStableBorrowRate = r.currentStableBorrowRate
               /\ \E fee \in Nat :
                     /\ n.aToken.supply = r.aToken.supply + fee
                     /\ n.aToken.balance = [r.aToken.balance EXCEPT ![Treasury] = @ + fee]
<1> DEFINE m == updateIndexes(r, now)
           fee == amountToMintToTreasury(r, m, now)
           token == mintToTreasury(m.aToken, Treasury, fee, m.liquidityIndex)
           n == updateState(r, now)
<1>1. r \in Reserve
    BY DEF ListedOK, ReserveOK
<1>2. /\ ListedOK(m, now)
      /\ m = [r EXCEPT !.liquidityIndex = m.liquidityIndex,
                       !.variableBorrowIndex = m.variableBorrowIndex,
                       !.lastUpdateTimestamp = now]
      /\ m.lastUpdateTimestamp = now
      /\ m.liquidityIndex = getNormalizedIncome(r, now)
      /\ m.variableBorrowIndex >= r.variableBorrowIndex
      /\ m.variableBorrowIndex <= getNormalizedDebt(r, now)
    BY UpdateIndexes
<1>3. fee \in Nat
  <2>1. mintToTreasuryAccepted(r, m, now)
    BY DEF updateStateAccepted
  <2> HIDE DEF m
  <2> QED BY <1>2, <2>1, TreasuryFeeType
<1>4. n = [m EXCEPT !.aToken = token]
    BY DEF updateState
<1> HIDE DEF m, fee, n
<1>5. m \in Reserve /\ m.liquidityIndex >= RAY /\ m.variableBorrowIndex >= RAY
      /\ m.strategy \in Strategy /\ StablePast(m.stableDebt, now)
      /\ m.aToken \in BalancedToken /\ m.variableDebt \in BalancedToken
      /\ m.stableDebt.totalSupplyTimestamp <= m.lastUpdateTimestamp
    BY <1>2 DEF ListedOK, ReserveOK
<1>6. token \in BalancedToken /\ token \in Token
    BY <1>3, <1>5, ReserveFields, TokenOperationsType, BalancedTokenFields, TreasuryAssumption
<1>11. \E k \in Nat : /\ token.supply = m.aToken.supply + k
                     /\ token.balance = [m.aToken.balance EXCEPT ![Treasury] = @ + k]
  <2>1. CASE fee = 0
    <3>1. token.supply = m.aToken.supply + 0
          /\ token.balance = [m.aToken.balance EXCEPT ![Treasury] = @ + 0]
      BY <1>5, <2>1, BalancedTokenFields, TreasuryAssumption DEF mintToTreasury
    <3> QED BY <3>1
  <2>2. CASE fee # 0
    <3>1. rayDiv(fee, m.liquidityIndex) \in Nat
      <4>1. m.liquidityIndex \in Nat \ {0}
        BY <1>5, ReserveFields, ScalePositive
      <4> QED BY <1>3, <4>1, RoundedInNat
    <3> QED BY <2>2, <3>1 DEF mintToTreasury, mintScaled
  <2> QED BY <2>1, <2>2
<1> HIDE DEF token
<1>7. n \in Reserve
    BY <1>4, <1>5, <1>6 DEF Reserve
<1>8. /\ m.variableDebt = r.variableDebt /\ m.stableDebt = r.stableDebt
      /\ m.aToken = r.aToken
      /\ m.liquidity = r.liquidity /\ m.config = r.config /\ m.strategy = r.strategy
      /\ m.currentStableBorrowRate = r.currentStableBorrowRate
    BY <1>1, <1>2 DEF Reserve
<1>9. /\ n.variableDebt = m.variableDebt /\ n.stableDebt = m.stableDebt
      /\ n.liquidity = m.liquidity /\ n.config = m.config /\ n.strategy = m.strategy
      /\ n.currentStableBorrowRate = m.currentStableBorrowRate
      /\ n.lastUpdateTimestamp = m.lastUpdateTimestamp
      /\ n.liquidityIndex = m.liquidityIndex /\ n.variableBorrowIndex = m.variableBorrowIndex
      /\ n.aToken = token
    BY <1>4, <1>5 DEF Reserve
<1>10. ListedOK(n, now)
  <2>1. n.lastUpdateTimestamp <= now
    BY <1>2, <1>9
  <2> QED BY <1>5, <1>6, <1>7, <1>9, <2>1 DEF ListedOK, ReserveOK
<1> QED BY <1>2, <1>8, <1>9, <1>10, <1>11 DEF n

\* Only the rates change.
LEMMA UpdateInterestRates ==
    ASSUME NEW r, NEW now \in Nat, ListedOK(r, now), NEW added \in Nat, NEW taken \in Nat,
           updateInterestRatesAccepted(r, added, taken)
    PROVE  LET n == updateInterestRates(r, added, taken, now)
           IN  /\ ListedOK(n, now)
               /\ n.lastUpdateTimestamp = r.lastUpdateTimestamp
               /\ n.liquidityIndex = r.liquidityIndex
               /\ n.variableBorrowIndex = r.variableBorrowIndex
               /\ n.variableDebt = r.variableDebt /\ n.stableDebt = r.stableDebt
               /\ n.aToken = r.aToken
               /\ n.liquidity = r.liquidity /\ n.config = r.config /\ n.strategy = r.strategy
<1> DEFINE l == r.liquidity + added - taken
           ds == stableTotalSupply(r.stableDebt, now)
           dv == rayMul(r.variableDebt.supply, r.variableBorrowIndex)
           rates == calculateInterestRates(r.strategy, l, ds, dv, r.stableDebt.avgStableRate,
                                           r.config.reserveFactor)
           n == updateInterestRates(r, added, taken, now)
<1>1. r \in Reserve /\ r.strategy \in Strategy /\ StablePast(r.stableDebt, now)
      /\ r.lastUpdateTimestamp <= now /\ r.liquidityIndex >= RAY /\ r.variableBorrowIndex >= RAY
      /\ r.aToken \in BalancedToken /\ r.variableDebt \in BalancedToken
      /\ r.stableDebt.totalSupplyTimestamp <= r.lastUpdateTimestamp
    BY DEF ListedOK, ReserveOK
<1>2. l \in Nat /\ r.config.reserveFactor <= PERCENTAGE_FACTOR
    BY <1>1, ReserveFields DEF updateInterestRatesAccepted
<1>3. ds \in Nat /\ dv \in Nat
    BY <1>1, ReserveFields, StableViews, RoundedInNat, TreasuryAssumption
<1>4. r.stableDebt.avgStableRate \in Nat /\ r.config.reserveFactor \in Nat
    BY <1>1, ReserveFields
<1> HIDE DEF l, ds, dv
<1>5. rates.liquidity \in Nat /\ rates.stable \in Nat /\ rates.variable \in Nat
    BY <1>1, <1>2, <1>3, <1>4, InterestRatesType
<1>6. n = [r EXCEPT !.currentLiquidityRate = rates.liquidity,
                    !.currentStableBorrowRate = rates.stable,
                    !.currentVariableBorrowRate = rates.variable]
    BY DEF updateInterestRates, l, ds, dv
<1> HIDE DEF rates, n
<1>7. /\ n \in Reserve
      /\ n.lastUpdateTimestamp = r.lastUpdateTimestamp
      /\ n.liquidityIndex = r.liquidityIndex
      /\ n.variableBorrowIndex = r.variableBorrowIndex
      /\ n.variableDebt = r.variableDebt /\ n.stableDebt = r.stableDebt
      /\ n.aToken = r.aToken
      /\ n.liquidity = r.liquidity /\ n.config = r.config /\ n.strategy = r.strategy
    BY <1>1, <1>5, <1>6 DEF Reserve
<1>8. ListedOK(n, now)
    BY <1>1, <1>7 DEF ListedOK, ReserveOK
<1> QED BY <1>7, <1>8 DEF n

\* The premium of a flash loan raises the index of the deposits and nothing else.
LEMMA CumulateToLiquidityIndex ==
    ASSUME NEW r, NEW now \in Nat, ListedOK(r, now), NEW total \in Nat \ {0}, NEW amount \in Nat
    PROVE  LET n == cumulateToLiquidityIndex(r, total, amount)
           IN  /\ ListedOK(n, now)
               /\ n.lastUpdateTimestamp = r.lastUpdateTimestamp
               /\ n.liquidityIndex >= r.liquidityIndex
               /\ n.variableBorrowIndex = r.variableBorrowIndex
               /\ n.variableDebt = r.variableDebt /\ n.stableDebt = r.stableDebt
               /\ n.liquidity = r.liquidity /\ n.config = r.config /\ n.strategy = r.strategy
<1> DEFINE share == rayDiv(wadToRay(amount), wadToRay(total))
           i == rayMul(RAY + share, r.liquidityIndex)
           n == cumulateToLiquidityIndex(r, total, amount)
<1>1. r \in Reserve /\ r.strategy \in Strategy /\ StablePast(r.stableDebt, now)
      /\ r.lastUpdateTimestamp <= now /\ r.liquidityIndex >= RAY /\ r.variableBorrowIndex >= RAY
      /\ r.aToken \in BalancedToken /\ r.variableDebt \in BalancedToken
      /\ r.stableDebt.totalSupplyTimestamp <= r.lastUpdateTimestamp
    BY DEF ListedOK, ReserveOK
<1>2. r.liquidityIndex \in Nat
    BY <1>1, ReserveFields
<1>3. share \in Nat
    BY RoundedInNat
<1> HIDE DEF share
<1>4. RAY + share \in Nat /\ RAY + share >= RAY
    BY <1>3, ScalePositive
<1>5. i \in Nat /\ i >= r.liquidityIndex
    BY <1>2, <1>4, RoundedInNat, RayMulGrows
<1>6. n = [r EXCEPT !.liquidityIndex = i]
    BY DEF cumulateToLiquidityIndex, share
<1> HIDE DEF i, n
<1>7. /\ n \in Reserve /\ n.liquidityIndex = i /\ n.aToken = r.aToken
      /\ n.lastUpdateTimestamp = r.lastUpdateTimestamp
      /\ n.variableBorrowIndex = r.variableBorrowIndex
      /\ n.variableDebt = r.variableDebt /\ n.stableDebt = r.stableDebt
      /\ n.liquidity = r.liquidity /\ n.config = r.config /\ n.strategy = r.strategy
    BY <1>1, <1>5, <1>6 DEF Reserve
<1>8. n.liquidityIndex >= RAY
    BY <1>1, <1>2, <1>5, <1>7, ScalePositive
<1>9. ListedOK(n, now)
    BY <1>1, <1>7, <1>8 DEF ListedOK, ReserveOK
<1> QED BY <1>5, <1>7, <1>9 DEF n

\* What the tokens of a listed reserve answer.
LEMMA ReserveViews ==
    ASSUME NEW r, NEW now \in Nat, ListedOK(r, now), NEW u \in Account
    PROVE  /\ aTokenBalanceOf(r, u, now) \in Nat
           /\ aTokenTotalSupply(r, now) \in Nat
           /\ variableDebtBalanceOf(r, u, now) \in Nat
           /\ stableDebtBalanceOf(r, u, now) \in Nat
           /\ variableDebtBalanceOf(r, u, now) = 0 <=> r.variableDebt.balance[u] = 0
           /\ stableDebtBalanceOf(r, u, now) = 0 <=> r.stableDebt.balance[u] = 0
<1>1. r \in Reserve /\ StablePast(r.stableDebt, now)
    BY DEF ListedOK, ReserveOK
<1> DEFINE i == getNormalizedIncome(r, now)
           d == getNormalizedDebt(r, now)
           b == r.variableDebt.balance[u]
<1>2. i \in Nat /\ d \in Nat /\ d >= RAY
    BY NormalizedIndexes
<1>3. r.aToken.balance[u] \in Nat /\ r.aToken.supply \in Nat /\ b \in Nat
    BY <1>1, ReserveFields
<1> HIDE DEF i, d, b
<1>4. rayMul(b, d) \in Nat /\ rayMul(b, d) >= b /\ rayMul(0, d) = 0
      /\ rayMul(r.aToken.balance[u], i) \in Nat /\ rayMul(r.aToken.supply, i) \in Nat
    BY <1>2, <1>3, RoundedInNat, RayMulGrows, RayMulZero
<1>5. /\ aTokenBalanceOf(r, u, now) \in Nat
      /\ aTokenTotalSupply(r, now) \in Nat
      /\ variableDebtBalanceOf(r, u, now) = rayMul(b, d)
    BY <1>4 DEF aTokenBalanceOf, aTokenTotalSupply, variableDebtBalanceOf, balanceOf,
                totalSupply, i, d, b
<1>6. /\ stableDebtBalanceOf(r, u, now) \in Nat
      /\ stableDebtBalanceOf(r, u, now) = 0 <=> r.stableDebt.balance[u] = 0
    BY <1>1, ReserveFields, StableViews DEF stableDebtBalanceOf
<1> QED BY <1>3, <1>4, <1>5, <1>6 DEF b

\* The accrual of a listed reserve is never refused: the stable supply is no younger
\* than the reserve, and neither kind of debt has shrunk since.
LEMMA AccrualIsAccepted ==
    ASSUME NEW r, NEW now \in Nat, ListedOK(r, now)
    PROVE  updateStateAccepted(r, now)
<1> DEFINE n == updateIndexes(r, now)
           s == r.stableDebt
           then  == calculateCompoundedInterest(s.avgStableRate, s.totalSupplyTimestamp,
                                                r.lastUpdateTimestamp)
           today == calculateCompoundedInterest(s.avgStableRate, s.totalSupplyTimestamp, now)
           d == r.variableDebt.supply
<1>1. /\ r \in Reserve /\ s.totalSupplyTimestamp <= r.lastUpdateTimestamp
      /\ r.lastUpdateTimestamp <= now
    BY DEF ListedOK, ReserveOK
<1>2. /\ s.avgStableRate \in Nat /\ s.totalSupplyTimestamp \in Nat /\ s.supply \in Nat
      /\ r.lastUpdateTimestamp \in Nat /\ d \in Nat /\ r.variableBorrowIndex \in Nat
    BY <1>1, ReserveFields
<1>3. then \in Nat /\ today \in Nat /\ then <= today
  <2>1. s.totalSupplyTimestamp <= now
    BY <1>1, <1>2
  <2> QED BY <1>1, <1>2, <2>1, CompoundedInterest, CompoundedInterestGrows
<1>4. /\ n.variableBorrowIndex \in Nat /\ n.variableBorrowIndex >= r.variableBorrowIndex
      /\ n.variableDebt = r.variableDebt /\ n.stableDebt = s
  <2>1. /\ ListedOK(n, now) /\ n.variableBorrowIndex >= r.variableBorrowIndex
        /\ n = [r EXCEPT !.liquidityIndex = n.liquidityIndex,
                         !.variableBorrowIndex = n.variableBorrowIndex,
                         !.lastUpdateTimestamp = now]
    BY UpdateIndexes
  <2> HIDE DEF n
  <2>2. n.variableDebt = r.variableDebt /\ n.stableDebt = r.stableDebt
    BY <1>1, <2>1 DEF Reserve
  <2>3. n.variableBorrowIndex \in Nat
    BY <2>1, ReserveFields DEF ListedOK, ReserveOK
  <2> QED BY <2>1, <2>2, <2>3
<1> HIDE DEF n, then, today
<1>5. /\ rayMul(d, r.variableBorrowIndex) <= rayMul(d, n.variableBorrowIndex)
      /\ rayMul(d, r.variableBorrowIndex) \in Nat /\ rayMul(d, n.variableBorrowIndex) \in Nat
  <2> HIDE DEF d
  <2> QED BY <1>2, <1>4, RayMulMonotone, RoundedInNat
<1>6. /\ rayMul(s.supply, then) <= stableTotalSupply(s, now)
      /\ rayMul(s.supply, then) \in Nat /\ stableTotalSupply(s, now) \in Nat
  <2>1. rayMul(s.supply, then) \in Nat /\ rayMul(s.supply, today) \in Nat
        /\ rayMul(s.supply, then) <= rayMul(s.supply, today)
    BY <1>2, <1>3, RayMulMonotone, RoundedInNat
  <2>2. s.supply = 0 => rayMul(s.supply, then) = 0
    BY <1>3, RayMulZero
  <2> QED BY <2>1, <2>2 DEF stableTotalSupply, today
<1>7. previousDebt(r) <= currentDebt(n, now)
  <2>1. previousDebt(r) = rayMul(d, r.variableBorrowIndex) + rayMul(s.supply, then)
    BY DEF previousDebt, then
  <2>2. currentDebt(n, now) = rayMul(d, n.variableBorrowIndex) + stableTotalSupply(s, now)
    BY <1>4 DEF currentDebt
  <2> QED BY <1>5, <1>6, <2>1, <2>2
<1> QED BY <1>1, <1>7 DEF updateStateAccepted, mintToTreasuryAccepted, n
=============================================================================
