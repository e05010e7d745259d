---------------------------- MODULE ExpectedData ----------------------------
(***************************************************************************)
(* What the test suites expect of an operation of the pool: the reserve    *)
(* and the user after it, computed from what the data provider showed      *)
(* before it (test-suites/test-aave/helpers/utils/calculations.ts).  It is *)
(* a second account of the protocol, in terms of what users see instead of *)
(* the pipeline of ReserveLogic, and here it is the abstract one.  Both    *)
(* observations are made in the block of the operation.  The BigNumber     *)
(* quotients whose fraction the suite keeps are rounded down.              *)
(***************************************************************************)
EXTENDS LendingProtocol

(* getReserveData: AaveProtocolDataProvider, with the supply data of the   *)
(* debt tokens.                                                            *)
getReserveData(asset) ==
    LET r        == reserves[asset]
        stable   == stableTotalSupply(r.stableDebt, now)
        variable == variableDebtTotalSupply(r, now)
        total    == r.liquidity + stable + variable
    IN  [symbol |-> asset, availableLiquidity |-> r.liquidity, totalLiquidity |-> total,
         totalStableDebt |-> stable, totalVariableDebt |-> variable,
         utilizationRate |-> IF total = 0 THEN 0 ELSE rayDiv(stable + variable, total),
         principalStableDebt |-> r.stableDebt.supply, scaledVariableDebt |-> r.variableDebt.supply,
         averageStableBorrowRate |-> r.stableDebt.avgStableRate,
         totalStableDebtLastUpdated |-> r.stableDebt.totalSupplyTimestamp,
         liquidityRate |-> r.currentLiquidityRate, stableBorrowRate |-> r.currentStableBorrowRate,
         variableBorrowRate |-> r.currentVariableBorrowRate,
         liquidityIndex |-> r.liquidityIndex, variableBorrowIndex |-> r.variableBorrowIndex,
         lastUpdateTimestamp |-> r.lastUpdateTimestamp]

(* getUserData of a user, and the wallet of whoever sends the transaction; *)
(* the liquidity rate, which is the reserve's, is looked at there.         *)
getUserData(asset, user, sender) ==
    LET r == reserves[asset]
    IN  [scaledATokenBalance |-> r.aToken.balance[user],
         currentATokenBalance |-> aTokenBalanceOf(r, user, now),
         principalStableDebt |-> r.stableDebt.balance[user],
         currentStableDebt |-> stableDebtBalanceOf(r, user, now),
         stableBorrowRate |-> r.stableDebt.usersStableRate[user],
         stableRateLastUpdated |-> r.stableDebt.timestamps[user],
         scaledVariableDebt |-> r.variableDebt.balance[user],
         currentVariableDebt |-> variableDebtBalanceOf(r, user, now),
         usageAsCollateralEnabled |-> asset \in usersConfig[user].collateral,
         walletBalance |-> wallet[asset][sender]]
-----------------------------------------------------------------------------
(* Interest up to now.                                                     *)
calcLinearInterest(rate, lastUpdateTimestamp) ==
    (rate * (now - lastUpdateTimestamp)) \div SECONDS_PER_YEAR + RAY

calcCompoundedInterest(rate, lastUpdateTimestamp) ==
    LET time == now - lastUpdateTimestamp
        perSecond == rate \div SECONDS_PER_YEAR
        squared == rayMul(perSecond, perSecond)
        beyondTwo == IF time > 2 THEN time - 2 ELSE 0
    IN  IF time = 0 THEN RAY
        ELSE RAY + perSecond * time + (time * (time - 1) * squared) \div 2
                 + (time * (time - 1) * beyondTwo * rayMul(squared, perSecond)) \div 6

calcExpectedLiquidityIndex(d) ==
    IF d.utilizationRate = 0 THEN d.liquidityIndex
    ELSE rayMul(calcLinearInterest(d.liquidityRate, d.lastUpdateTimestamp), d.liquidityIndex)

calcExpectedVariableBorrowIndex(d) ==
    IF d.totalVariableDebt = 0 THEN d.variableBorrowIndex
    ELSE rayMul(calcCompoundedInterest(d.variableBorrowRate, d.lastUpdateTimestamp), d.variableBorrowIndex)

calcExpectedReserveNormalizedIncome(d) ==
    IF d.liquidityRate = 0 THEN d.liquidityIndex
    ELSE rayMul(calcLinearInterest(d.liquidityRate, d.lastUpdateTimestamp), d.liquidityIndex)

calcExpectedReserveNormalizedDebt(d) ==
    IF d.variableBorrowRate = 0 THEN d.variableBorrowIndex
    ELSE rayMul(calcCompoundedInterest(d.variableBorrowRate, d.lastUpdateTimestamp), d.variableBorrowIndex)

calcExpectedTotalStableDebt(d) ==
    rayMul(d.principalStableDebt,
           calcCompoundedInterest(d.averageStableBorrowRate, d.totalStableDebtLastUpdated))

calcExpectedATokenBalance(d, u) == rayMul(u.scaledATokenBalance, calcExpectedReserveNormalizedIncome(d))

calcExpectedVariableDebtTokenBalance(d, u) ==
    rayMul(u.scaledVariableDebt, calcExpectedReserveNormalizedDebt(d))

calcExpectedStableDebtTokenBalance(u) ==
    IF u.stableBorrowRate = 0 \/ u.stableRateLastUpdated \in {0, now}
    THEN u.principalStableDebt
    ELSE rayMul(u.principalStableDebt,
                calcCompoundedInterest(u.stableBorrowRate, u.stableRateLastUpdated))
-----------------------------------------------------------------------------
(* Rates.                                                                  *)
calcExpectedUtilizationRate(stableDebt, variableDebt, totalLiquidity) ==
    IF stableDebt = 0 /\ variableDebt = 0 THEN 0
    ELSE rayDiv(stableDebt + variableDebt, totalLiquidity)

calcExpectedOverallBorrowRate(stableDebt, variableDebt, variableRate, averageStableRate) ==
    IF stableDebt + variableDebt = 0 THEN 0
    ELSE rayDiv(rayMul(wadToRay(variableDebt), variableRate) + rayMul(wadToRay(stableDebt), averageStableRate),
                wadToRay(stableDebt + variableDebt))

(* The rates of a reserve of this debt, utilization and average rate.      *)
calcExpectedInterestRates(d) ==
    LET s == reserves[d.symbol].strategy
        excess == rayDiv(d.utilizationRate - s.optimalUtilizationRate, RAY - s.optimalUtilizationRate)
        share == rayDiv(d.utilizationRate, s.optimalUtilizationRate)
        above == d.utilizationRate > s.optimalUtilizationRate
        stable == s.marketBorrowRate +
            IF above THEN s.stableRateSlope1 + rayMul(s.stableRateSlope2, excess)
                     ELSE rayMul(s.stableRateSlope1, share)
        variable == s.baseVariableBorrowRate +
            IF above THEN s.variableRateSlope1 + rayMul(s.variableRateSlope2, excess)
                     ELSE rayMul(share, s.variableRateSlope1)
        overall == calcExpectedOverallBorrowRate(d.totalStableDebt, d.totalVariableDebt, variable,
                                                 d.averageStableBorrowRate)
    IN  [d EXCEPT !.stableBorrowRate = stable, !.variableBorrowRate = variable,
                  !.liquidityRate = percentMul(rayMul(overall, d.utilizationRate),
                                               PERCENTAGE_FACTOR - reserves[d.symbol].config.reserveFactor)]

(* How every calcExpectedReserveDataAfter... ends: the rates of the        *)
(* liquidity and the debts there are.                                      *)
quoted(d) ==
    LET total == d.availableLiquidity + d.totalStableDebt + d.totalVariableDebt
    IN  calcExpectedInterestRates(
            [d EXCEPT !.totalLiquidity = total,
                      !.utilizationRate = calcExpectedUtilizationRate(d.totalStableDebt, d.totalVariableDebt, total)])

(* Division of BigNumbers with ROUND_DOWN: towards zero.                   *)
magnitude(n) == IF n < 0 THEN -n ELSE n
quotient(n, d) == (IF (n < 0) = (d < 0) THEN 1 ELSE -1) * (magnitude(n) \div magnitude(d))

calcExpectedAverageStableBorrowRate(average, total, change, rate) ==
    IF total + change = 0 THEN 0 ELSE quotient(average * total + rate * change, total + change)

(* The change is converted to a ray and the total is not.                  *)
calcExpectedAverageStableBorrowRateRebalance(average, total, change, rate) ==
    LET borrowed == total + wadToRay(change)
        weighted == rayMul(average, total) + quotient(RAY \div 2 + rate * wadToRay(change), RAY)
    IN  IF borrowed = 0 THEN 0 ELSE quotient(weighted * RAY + quotient(borrowed, 2), borrowed)

calcExpectedUserStableRate(balance, rateBefore, amount, rateNew) ==
    (balance * rateBefore + amount * rateNew) \div (balance + amount)
-----------------------------------------------------------------------------
(* The reserve after an operation, from the reserve d and the user u       *)
(* before it: what all of them begin with ...                              *)
accrued(d) ==
    LET index == calcExpectedVariableBorrowIndex(d)
    IN  [d EXCEPT !.liquidityIndex = calcExpectedLiquidityIndex(d), !.variableBorrowIndex = index,
                  !.totalStableDebt = calcExpectedTotalStableDebt(d),
                  !.totalVariableDebt = rayMul(d.scaledVariableDebt, index)]

withVariableDebt(d, scaled) ==
    [d EXCEPT !.scaledVariableDebt = scaled, !.totalVariableDebt = rayMul(scaled, d.variableBorrowIndex)]

withStableDebt(d, total, average) ==
    [d EXCEPT !.principalStableDebt = total, !.totalStableDebt = total, !.averageStableBorrowRate = average]

(* ... and each of them.                                                   *)
calcExpectedReserveDataAfterDeposit(amount, d) ==
    quoted([accrued(d) EXCEPT !.availableLiquidity = @ + amount])

calcExpectedReserveDataAfterWithdraw(amount, d, u) ==
    LET withdrawn == IF amount = UINT_MAX THEN calcExpectedATokenBalance(d, u) ELSE amount
    IN  quoted([accrued(d) EXCEPT !.availableLiquidity = @ - withdrawn])

calcExpectedReserveDataAfterBorrow(amount, rateMode, d) ==
    LET e == [accrued(d) EXCEPT !.availableLiquidity = @ - amount, !.lastUpdateTimestamp = now]
    IN  quoted(IF rateMode = STABLE
               THEN withStableDebt(e, e.totalStableDebt + amount,
                        calcExpectedAverageStableBorrowRate(d.averageStableBorrowRate, e.totalStableDebt,
                                                            amount, d.stableBorrowRate))
               ELSE withVariableDebt(e, e.scaledVariableDebt + rayDiv(amount, e.variableBorrowIndex)))

repaidAmount(amount, rateMode, d, u) ==
    IF amount # UINT_MAX THEN amount
    ELSE IF rateMode = STABLE THEN calcExpectedStableDebtTokenBalance(u)
    ELSE calcExpectedVariableDebtTokenBalance(d, u)

calcExpectedReserveDataAfterRepay(amount, rateMode, d, u) ==
    LET repaid == repaidAmount(amount, rateMode, d, u)
        e == [accrued(d) EXCEPT !.availableLiquidity = @ + repaid, !.lastUpdateTimestamp = now]
        left == e.totalStableDebt - repaid
        average == calcExpectedAverageStableBorrowRate(d.averageStableBorrowRate, e.totalStableDebt,
                                                       -repaid, u.stableBorrowRate)
    IN  quoted(CASE rateMode # STABLE ->
                      [withVariableDebt(e, e.scaledVariableDebt - rayDiv(repaid, e.variableBorrowIndex))
                          EXCEPT !.totalStableDebt = d.totalStableDebt]
                 [] rateMode = STABLE /\ (left < 0 \/ average < 0) -> withStableDebt(e, 0, 0)
                 [] OTHER -> withStableDebt(e, left, average))

calcExpectedReserveDataAfterSwapRateMode(d, u, rateMode) ==
    LET e == accrued(d)
        stable == calcExpectedStableDebtTokenBalance(u)
        variable == calcExpectedVariableDebtTokenBalance(d, u)
    IN  quoted(IF rateMode = STABLE
               THEN withStableDebt(
                        withVariableDebt(e, e.scaledVariableDebt + rayDiv(stable, e.variableBorrowIndex)),
                        e.totalStableDebt - stable,
                        calcExpectedAverageStableBorrowRate(d.averageStableBorrowRate, e.totalStableDebt,
                                                            -stable, u.stableBorrowRate))
               ELSE withStableDebt(
                        withVariableDebt(e, e.scaledVariableDebt - rayDiv(variable, e.variableBorrowIndex)),
                        e.totalStableDebt + variable,
                        calcExpectedAverageStableBorrowRate(d.averageStableBorrowRate, d.totalStableDebt,
                                                            variable, d.stableBorrowRate)))

calcExpectedReserveDataAfterStableRateRebalance(d, u) ==
    LET e == accrued(d)
        debt == calcExpectedStableDebtTokenBalance(u)
        without == calcExpectedAverageStableBorrowRateRebalance(
                       d.averageStableBorrowRate, e.totalStableDebt, -debt, u.stableBorrowRate)
        average == calcExpectedAverageStableBorrowRateRebalance(
                       without, e.totalStableDebt - debt, debt, d.stableBorrowRate)
    IN  quoted(withStableDebt(e, e.totalStableDebt, average))
-----------------------------------------------------------------------------
(* The user u after an operation, with d and e the reserve before and as   *)
(* it is expected after it.                                                *)
calcExpectedScaledATokenBalance(u, index, added, taken) ==
    u.scaledATokenBalance + rayDiv(added, index) - rayDiv(taken, index)

currentUser(d, u) ==
    [u EXCEPT !.currentStableDebt = calcExpectedStableDebtTokenBalance(u),
              !.currentVariableDebt = calcExpectedVariableDebtTokenBalance(d, u),
              !.currentATokenBalance = calcExpectedATokenBalance(d, u)]

(* The suite expects the principal of the stable debt to become the        *)
(* variable debt.                                                          *)
calcExpectedUserDataAfterDeposit(amount, d, e, u) ==
    [currentUser(d, u) EXCEPT
        !.principalStableDebt = calcExpectedVariableDebtTokenBalance(d, u),
        !.scaledATokenBalance = calcExpectedScaledATokenBalance(u, e.liquidityIndex, amount, 0),
        !.currentATokenBalance = @ + amount,
        !.usageAsCollateralEnabled = @ \/ u.currentATokenBalance = 0,
        !.walletBalance = @ - amount]

calcExpectedUserDataAfterWithdraw(amount, d, e, u) ==
    LET owned == calcExpectedATokenBalance(d, u)
        withdrawn == IF amount = UINT_MAX THEN owned ELSE amount
    IN  [currentUser(d, u) EXCEPT
            !.scaledATokenBalance = calcExpectedScaledATokenBalance(u, e.liquidityIndex, 0, withdrawn),
            !.currentATokenBalance = owned - withdrawn,
            !.usageAsCollateralEnabled = u.currentATokenBalance = 0 \/ (owned # withdrawn /\ @),
            !.walletBalance = @ + withdrawn]

(* A new variable debt is expected to be all the reserve has lent.         *)
calcExpectedUserDataAfterBorrow(amount, rateMode, d, e, u) ==
    LET stable == calcExpectedStableDebtTokenBalance(u)
        n == IF rateMode = STABLE
             THEN [u EXCEPT !.principalStableDebt = stable + amount, !.currentStableDebt = stable + amount,
                            !.stableRateLastUpdated = now,
                            !.stableBorrowRate = calcExpectedUserStableRate(
                                stable, u.stableBorrowRate, amount, d.stableBorrowRate)]
             ELSE [u EXCEPT !.scaledVariableDebt = d.scaledVariableDebt + rayDiv(amount, e.variableBorrowIndex),
                            !.currentStableDebt = stable]
    IN  [n EXCEPT !.currentVariableDebt = calcExpectedVariableDebtTokenBalance(e, n),
                  !.currentATokenBalance = calcExpectedATokenBalance(e, u),
                  !.walletBalance = @ + amount]

calcExpectedUserDataAfterRepay(amount, rateMode, d, e, u, paysHimself) ==
    LET repaid == repaidAmount(amount, rateMode, d, u)
        stable == calcExpectedStableDebtTokenBalance(u)
        left == stable - repaid
        scaled == u.scaledVariableDebt - rayDiv(repaid, e.variableBorrowIndex)
        n == IF rateMode = STABLE
             THEN [currentUser(d, u) EXCEPT
                      !.principalStableDebt = left, !.currentStableDebt = left,
                      !.stableBorrowRate = IF left = 0 THEN 0 ELSE @,
                      !.stableRateLastUpdated = IF left = 0 THEN 0 ELSE now]
             ELSE [currentUser(d, u) EXCEPT
                      !.currentStableDebt = u.principalStableDebt, !.principalStableDebt = stable,
                      !.scaledVariableDebt = scaled,
                      !.currentVariableDebt = rayMul(scaled, e.variableBorrowIndex)]
    IN  [n EXCEPT !.walletBalance = IF paysHimself THEN @ - repaid ELSE @]

calcExpectedUserDataAfterSetUseAsCollateral(useAsCollateral, u) ==
    [u EXCEPT !.usageAsCollateralEnabled = useAsCollateral]

calcExpectedUserDataAfterSwapRateMode(d, e, u, rateMode) ==
    LET stable == calcExpectedStableDebtTokenBalance(u)
        variable == calcExpectedVariableDebtTokenBalance(d, u)
        scaled == u.scaledVariableDebt + rayDiv(stable, e.variableBorrowIndex)
        n == IF rateMode = STABLE
             THEN [u EXCEPT !.principalStableDebt = 0, !.currentStableDebt = 0, !.stableBorrowRate = 0,
                            !.stableRateLastUpdated = 0, !.scaledVariableDebt = scaled,
                            !.currentVariableDebt = rayMul(scaled, e.variableBorrowIndex)]
             ELSE [u EXCEPT !.principalStableDebt = u.currentStableDebt + variable,
                            !.currentStableDebt = u.currentStableDebt + variable,
                            !.stableBorrowRate = calcExpectedUserStableRate(
                                stable, u.stableBorrowRate, variable, d.stableBorrowRate),
                            !.stableRateLastUpdated = now,
                            !.scaledVariableDebt = 0, !.currentVariableDebt = 0]
    IN  [n EXCEPT !.currentATokenBalance = calcExpectedATokenBalance(d, u)]

calcExpectedUserDataAfterStableRateRebalance(d, e, u) ==
    LET debt == calcExpectedStableDebtTokenBalance(u)
    IN  [currentUser(d, u) EXCEPT
            !.principalStableDebt = debt, !.currentStableDebt = debt, !.stableRateLastUpdated = now,
            !.stableBorrowRate = e.averageStableBorrowRate]
-----------------------------------------------------------------------------
(* almostEqualOrEqual: what is shown differs by three units at most, flags *)
(* not at all, and three fields are not looked at.  The token averages     *)
(* rates with amounts in rays, the suite does not: the less stable debt    *)
(* there is the further the rates may be apart, by less than a unit as     *)
(* soon as the debt is worth some tokens.                                  *)
Rates == {"averageStableBorrowRate", "liquidityRate", "stableBorrowRate"}
Skipped == {"lastUpdateTimestamp", "symbol", "totalStableDebtLastUpdated"}

almostEqual(actual, expected, misstated) ==
    \A key \in DOMAIN actual \ (Skipped \union misstated) :
        IF key = "usageAsCollateralEnabled"
        THEN actual[key] = expected[key]
        ELSE LET debt == actual.principalStableDebt
                 dust == IF key \in Rates /\ debt > 0 THEN 3 + (2 * WAD) \div debt ELSE 3
             IN  actual[key] - expected[key] \in -dust .. dust

(* What the suite misstates, in cases its scenarios do not have: a stable  *)
(* debt with interest while a deposit or a repayment of variable debt is   *)
(* made, a second debtor of the mode that is borrowed or rebalanced, and a *)
(* repayment of more than is owed, but for UINT_MAX.                       *)
otherDebtors(asset, user, rateMode) ==
    {v \in Account \ {user} : debtOfMode(asset, v, rateMode) # 0}

expectDeposit(sender, asset, amount, onBehalfOf) ==
    LET d == getReserveData(asset)
        u == getUserData(asset, onBehalfOf, sender)
        e == calcExpectedReserveDataAfterDeposit(amount, d)
    IN  /\ almostEqual(getReserveData(asset)', e, {})
        /\ almostEqual(getUserData(asset, onBehalfOf, sender)',
                       calcExpectedUserDataAfterDeposit(amount, d, e, u), {"principalStableDebt"})

expectWithdraw(user, asset, amount) ==
    LET d == getReserveData(asset)
        u == getUserData(asset, user, user)
        e == calcExpectedReserveDataAfterWithdraw(amount, d, u)
    IN  /\ almostEqual(getReserveData(asset)', e, {})
        /\ almostEqual(getUserData(asset, user, user)',
                       calcExpectedUserDataAfterWithdraw(amount, d, e, u), {})

expectBorrow(user, asset, amount, rateMode, onBehalfOf) ==
    LET d == getReserveData(asset)
        u == getUserData(asset, onBehalfOf, user)
        e == calcExpectedReserveDataAfterBorrow(amount, rateMode, d)
    IN  /\ almostEqual(getReserveData(asset)', e, {})
        /\ almostEqual(getUserData(asset, onBehalfOf, user)',
                       calcExpectedUserDataAfterBorrow(amount, rateMode, d, e, u),
                       IF rateMode # STABLE /\ otherDebtors(asset, onBehalfOf, rateMode) # {}
                       THEN {"scaledVariableDebt", "currentVariableDebt"} ELSE {})

expectRepay(user, asset, amount, rateMode, onBehalfOf) ==
    LET d == getReserveData(asset)
        u == getUserData(asset, onBehalfOf, onBehalfOf)
        e == calcExpectedReserveDataAfterRepay(amount, rateMode, d, u)
    IN  amount \in 0 .. debtOfMode(asset, onBehalfOf, rateMode) \union {UINT_MAX} =>
        /\ almostEqual(getReserveData(asset)', e, {})
        /\ almostEqual(getUserData(asset, onBehalfOf, onBehalfOf)',
                       calcExpectedUserDataAfterRepay(amount, rateMode, d, e, u, user = onBehalfOf),
                       IF rateMode = STABLE THEN {} ELSE {"principalStableDebt", "currentStableDebt"})

expectSetUseAsCollateral(user, asset, useAsCollateral) ==
    LET u == getUserData(asset, user, user)
    IN  almostEqual(getUserData(asset, user, user)',
                    calcExpectedUserDataAfterSetUseAsCollateral(useAsCollateral, u), {})

expectSwapBorrowRateMode(user, asset, rateMode) ==
    LET d == getReserveData(asset)
        u == getUserData(asset, user, user)
        e == calcExpectedReserveDataAfterSwapRateMode(d, u, rateMode)
    IN  /\ almostEqual(getReserveData(asset)', e, {})
        /\ almostEqual(getUserData(asset, user, user)',
                       calcExpectedUserDataAfterSwapRateMode(d, e, u, rateMode), {})

expectRebalanceStableBorrowRate(asset, target) ==
    LET d == getReserveData(asset)
        u == getUserData(asset, target, target)
        e == calcExpectedReserveDataAfterStableRateRebalance(d, u)
    IN  otherDebtors(asset, target, STABLE) = {} =>
            /\ almostEqual(getReserveData(asset)', e, {})
            /\ almostEqual(getUserData(asset, target, target)',
                           calcExpectedUserDataAfterStableRateRebalance(d, e, u), {})
-----------------------------------------------------------------------------
(* After every operation of a user, in every state it is made in, reserve  *)
(* and user are what the test suite computes from what was seen before it. *)
(* The suite does so for the fixed sequences of its scenarios.             *)
OperationsMeetExpectations ==
    [][\A u \in User, a \in Asset :
          LET paidIn == reserves'[a].liquidity - reserves[a].liquidity
          IN  /\ paidIn > 0 =>
                    /\ \A v \in User, n \in DepositAmounts :
                           Deposit(u, a, n, v) => expectDeposit(u, a, n, v)
                    /\ \A v \in User, n \in RepayAmounts, m \in RateMode :
                           Repay(u, a, n, m, v) => expectRepay(u, a, n, m, v)
              /\ paidIn < 0 =>
                    /\ \A n \in WithdrawAmounts : Withdraw(u, a, n, u) => expectWithdraw(u, a, n)
                    /\ \A v \in User, n \in BorrowAmounts, m \in RateMode :
                           Borrow(u, a, n, m, v) => expectBorrow(u, a, n, m, v)
              /\ paidIn = 0 /\ reserves'[a] # reserves[a] =>
                    /\ \A m \in RateMode :
                           SwapBorrowRateMode(u, a, m) => expectSwapBorrowRateMode(u, a, m)
                    /\ \A v \in User :
                           RebalanceStableBorrowRate(u, a, v) => expectRebalanceStableBorrowRate(a, v)
              /\ usersConfig'[u] # usersConfig[u] =>
                    \A b \in BOOLEAN :
                        SetUserUseReserveAsCollateral(u, a, b) => expectSetUseAsCollateral(u, a, b)]_vars
=============================================================================
