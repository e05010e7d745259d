--------------------------- MODULE ValidationLogic ---------------------------
\* The conditions under which each operation of the pool is accepted.
EXTENDS LendingPoolStorage

accountData(user) == calculateUserAccountData(reserves, price, user, usersConfig[user], now)

validateDeposit(asset, amount) ==
    LET config == reserves[asset].config
    IN  amount # 0 /\ config.active /\ ~config.frozen

validateWithdraw(user, asset, amount, userBalance) ==
    /\ amount # 0
    /\ amount <= userBalance
    /\ reserves[asset].config.active
    /\ balanceDecreaseAllowed(reserves, price, user, usersConfig[user], asset, amount, now)

\* Same-asset collateral may not back a stable loan smaller than itself.
stableLoanNotSelfBacked(user, asset, amount) ==
    \/ asset \notin usersConfig[user].collateral
    \/ reserves[asset].config.ltv = 0
    \/ amount > aTokenBalanceOf(reserves[asset], user, now)

\* Mutant: the new debt alone, as if he owed nothing yet.
collateralNeeded_alone(data, asset, amount) ==
    percentDiv(valueInETH(reserves, price, asset, amount), data.ltv)

collateralNeeded(data, asset, amount) ==
    percentDiv(data.totalDebt + valueInETH(reserves, price, asset, amount), data.ltv)

validateBorrow(asset, user, amount, rateMode) ==
    LET r    == reserves[asset]
        data == accountData(user)
    IN  /\ r.config.active
        /\ ~r.config.frozen
        /\ amount # 0
        /\ r.config.borrowingEnabled
        /\ data.totalCollateral > 0
        /\ data.healthFactor > HEALTH_FACTOR_LIQUIDATION_THRESHOLD
        /\ data.ltv # 0
        /\ collateralNeeded(data, asset, amount) <= data.totalCollateral
        /\ rateMode = STABLE =>
             /\ r.config.stableRateBorrowingEnabled
             /\ stableLoanNotSelfBacked(user, asset, amount)
             /\ amount <= percentMul(r.liquidity, MAX_STABLE_RATE_BORROW_SIZE_PERCENT)

validateRepay(sender, asset, amountSent, rateMode, onBehalfOf, stableDebt, variableDebt) ==
    /\ reserves[asset].config.active
    /\ amountSent > 0
    /\ IF rateMode = STABLE THEN stableDebt > 0 ELSE variableDebt > 0
    /\ amountSent # UINT_MAX \/ sender = onBehalfOf

\* Mutant: swaps in a frozen reserve.
validateSwapRateMode_frozen(user, asset, stableDebt, variableDebt, currentRateMode) ==
    LET config == reserves[asset].config
    IN  /\ config.active
        /\ IF currentRateMode = STABLE
           THEN stableDebt > 0
           ELSE /\ variableDebt > 0
                /\ config.stableRateBorrowingEnabled
                /\ stableLoanNotSelfBacked(user, asset, stableDebt + variableDebt)

validateSwapRateMode(user, asset, stableDebt, variableDebt, currentRateMode) ==
    LET config == reserves[asset].config
    IN  /\ config.active
        /\ ~config.frozen
        /\ IF currentRateMode = STABLE
           THEN stableDebt > 0
           ELSE /\ variableDebt > 0
                /\ config.stableRateBorrowingEnabled
                /\ stableLoanNotSelfBacked(user, asset, stableDebt + variableDebt)

validateRebalanceStableBorrowRate(asset) ==
    LET r         == reserves[asset]
        totalDebt == stableTotalSupply(r.stableDebt, now) + variableDebtTotalSupply(r, now)
    IN  /\ r.config.active
        /\ utilizationRate(wadToRay(totalDebt), wadToRay(r.liquidity))
             >= REBALANCE_UP_USAGE_RATIO_THRESHOLD
        /\ r.currentLiquidityRate <= percentMul(getMaxVariableBorrowRate(r.strategy),
                                                REBALANCE_UP_LIQUIDITY_RATE_THRESHOLD)

validateSetUseReserveAsCollateral(user, asset, useAsCollateral) ==
    LET underlyingBalance == aTokenBalanceOf(reserves[asset], user, now)
    IN  /\ underlyingBalance > 0
        /\ \/ useAsCollateral
           \/ balanceDecreaseAllowed(reserves, price, user, usersConfig[user],
                                     asset, underlyingBalance, now)

validateLiquidationCall(collateralAsset, debtAsset, user, stableDebt, variableDebt) ==
    LET collateralConfig == reserves[collateralAsset].config
    IN  /\ collateralConfig.active
        /\ reserves[debtAsset].config.active
        /\ accountData(user).healthFactor < HEALTH_FACTOR_LIQUIDATION_THRESHOLD
        /\ collateralConfig.liquidationThreshold > 0
        /\ collateralAsset \in usersConfig[user].collateral
        /\ stableDebt > 0 \/ variableDebt > 0

\* rs is the state in which the tokens have already moved.
validateTransfer(rs, from) ==
    calculateUserAccountData(rs, price, from, usersConfig[from], now).healthFactor
        >= HEALTH_FACTOR_LIQUIDATION_THRESHOLD
=============================================================================
