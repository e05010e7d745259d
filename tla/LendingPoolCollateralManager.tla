-------------------- MODULE LendingPoolCollateralManager --------------------
(***************************************************************************)
(* Liquidation.  The pool delegates the call to this contract, which works *)
(* on the pool's storage; a non-zero return code reverts in the pool.      *)
(***************************************************************************)
EXTENDS LendingPool

\* The code always divides by the collateral's price.  By the debt's it divides only where
\* the collateral falls short, which it never does of a debt that is worth nothing.
priceUsable(collateralAsset) == price[collateralAsset] > 0

\* Mutant: the bonus is given twice.
calculateAvailableCollateralToLiquidate_twice(collateralAsset, debtAsset, debtToCover, userBalance) ==
    LET bonus         == reserves[collateralAsset].config.liquidationBonus
        maxCollateral == percentMul(percentMul(price[debtAsset] * debtToCover, bonus), bonus)
                           \div price[collateralAsset]
    IN  IF maxCollateral > userBalance
        THEN [collateral |-> userBalance, debt |-> debtToCover]
        ELSE [collateral |-> maxCollateral, debt |-> debtToCover]

\* The collateral that pays for debtToCover with its bonus and the debt it pays
\* for, less when the user has not that much.
calculateAvailableCollateralToLiquidate(collateralAsset, debtAsset, debtToCover, userBalance) ==
    LET collateralUnit == reserves[collateralAsset].config.unit
        debtUnit       == reserves[debtAsset].config.unit
        bonus          == reserves[collateralAsset].config.liquidationBonus
        maxCollateral  == percentMul(price[debtAsset] * debtToCover * collateralUnit, bonus)
                            \div (price[collateralAsset] * debtUnit)
    IN  IF maxCollateral > userBalance
        THEN [collateral |-> userBalance,
              debt       |-> percentDiv((price[collateralAsset] * userBalance * debtUnit)
                                           \div (price[debtAsset] * collateralUnit), bonus)]
        ELSE [collateral |-> maxCollateral, debt |-> debtToCover]

\* Variable debt is repaid before stable debt.
burnLiquidated(r, user, amount, variableDebt) ==
    IF variableDebt >= amount
    THEN burnDebt(r, user, amount, VARIABLE_RATE)
    ELSE LET v == IF variableDebt > 0 THEN burnDebt(r, user, variableDebt, VARIABLE_RATE) ELSE r
         IN  burnDebt(v, user, amount - variableDebt, STABLE)

\* Mutant: variable debt is burned even where there is none.
burnLiquidatedAccepted_always(r, user, amount, variableDebt) ==
    /\ burnDebtAccepted(r, user, IF variableDebt >= amount THEN amount ELSE variableDebt, VARIABLE_RATE)
    /\ variableDebt < amount => burnStableAccepted(r.stableDebt, user, amount - variableDebt, now)

burnLiquidatedAccepted(r, user, amount, variableDebt) ==
    IF variableDebt >= amount
    THEN burnDebtAccepted(r, user, amount, VARIABLE_RATE)
    ELSE /\ variableDebt > 0 => burnDebtAccepted(r, user, variableDebt, VARIABLE_RATE)
         /\ burnStableAccepted(r.stableDebt, user, amount - variableDebt, now)

\* Mutant: the close factor is forgotten.
actualDebtToLiquidate_uncapped(debtToCover, userDebt) ==
    IF debtToCover > userDebt THEN userDebt ELSE debtToCover

\* No more than the close factor of the user's debt in the asset is liquidated.
actualDebtToLiquidate(debtToCover, userDebt) ==
    LET maxLiquidatableDebt == percentMul(userDebt, LIQUIDATION_CLOSE_FACTOR_PERCENT)
    IN  IF debtToCover > maxLiquidatableDebt THEN maxLiquidatableDebt ELSE debtToCover

\* What a liquidation repays and seizes; variable debt is what is owed now.
liquidationTerms(collateralAsset, debtAsset, user, debtToCover) ==
    LET userCollateralBalance == aTokenBalanceOf(reserves[collateralAsset], user, now)
        actual    == actualDebtToLiquidate(debtToCover, debtOf(debtAsset, user))
        available == calculateAvailableCollateralToLiquidate(
                         collateralAsset, debtAsset, actual, userCollateralBalance)
    IN  [seized  |-> available.collateral,
         repaid  |-> IF available.debt < actual THEN available.debt ELSE actual,
         all     |-> available.collateral = userCollateralBalance,
         variableDebt |-> debtOfMode(debtAsset, user, VARIABLE_RATE)]

\* The reserves once the debt is burned.  The repaid funds arrive at the very end,
\* also when the collateral is of the same reserve.
afterRepayment(debtAsset, user, terms) ==
    LET d1 == updateState(reserves[debtAsset], now)
        d2 == burnLiquidated(d1, user, terms.repaid, terms.variableDebt)
    IN  [reserves EXCEPT ![debtAsset] = updateInterestRates(d2, terms.repaid, 0, now)]

repaymentAccepted(debtAsset, user, terms) ==
    LET d1 == updateState(reserves[debtAsset], now)
        d2 == burnLiquidated(d1, user, terms.repaid, terms.variableDebt)
    IN  /\ updateStateAccepted(reserves[debtAsset], now)
        /\ burnLiquidatedAccepted(d1, user, terms.repaid, terms.variableDebt)
        /\ updateInterestRatesAccepted(d2, terms.repaid, 0)

\* The collateral reserve c once the collateral is seized, as aTokens or as funds.
seizeATokens(c, liquidator, user, seized) ==
    [c EXCEPT !.aToken = transferScaled(@, user, liquidator,
                                        rayDiv(seized, getNormalizedIncome(c, now)))]

seizeFunds(c, user, seized) ==
    LET c1 == updateState(c, now)
        c2 == updateInterestRates(c1, 0, seized, now)
    IN  [c2 EXCEPT !.liquidity = @ - seized,
                   !.aToken = burn(@, user, seized, c2.liquidityIndex)]

seizureAccepted(c, user, seized, receiveAToken) ==
    LET c1 == updateState(c, now)
    IN  IF receiveAToken
        THEN transferScaledAccepted(c.aToken, user, rayDiv(seized, getNormalizedIncome(c, now)))
        ELSE /\ seized <= c.liquidity
             /\ updateStateAccepted(c, now)
             /\ updateInterestRatesAccepted(c1, 0, seized)
             /\ burnAccepted(c1.aToken, user, seized, c1.liquidityIndex)

LiquidationAccepted(liquidator, collateralAsset, debtAsset, user, debtToCover, receiveAToken) ==
    LET terms == liquidationTerms(collateralAsset, debtAsset, user, debtToCover)
        c     == afterRepayment(debtAsset, user, terms)[collateralAsset]
    IN  /\ CanCall(liquidator) /\ ~paused /\ Listed(collateralAsset) /\ Listed(debtAsset)
        /\ validateLiquidationCall(collateralAsset, debtAsset, user,
                                   debtOfMode(debtAsset, user, STABLE),
                                   debtOfMode(debtAsset, user, VARIABLE_RATE))
        /\ priceUsable(collateralAsset)
        /\ repaymentAccepted(debtAsset, user, terms)
        /\ seizureAccepted(c, user, terms.seized, receiveAToken)

LiquidationCall(liquidator, collateralAsset, debtAsset, user, debtToCover, receiveAToken) ==
    LET terms == liquidationTerms(collateralAsset, debtAsset, user, debtToCover)
        rs1   == afterRepayment(debtAsset, user, terms)
        c     == rs1[collateralAsset]
        rs2   == [rs1 EXCEPT ![collateralAsset] =
                     IF receiveAToken THEN seizeATokens(c, liquidator, user, terms.seized)
                                      ELSE seizeFunds(c, user, terms.seized)]
        firstATokens == receiveAToken /\ aTokenBalanceOf(c, liquidator, now) = 0
        cfg1  == IF firstATokens
                 THEN [usersConfig EXCEPT ![liquidator] =
                          setUsingAsCollateral(@, collateralAsset, TRUE)]
                 ELSE usersConfig
        cfg2  == IF terms.all
                 THEN [cfg1 EXCEPT ![user] = setUsingAsCollateral(@, collateralAsset, FALSE)]
                 ELSE cfg1
        funds == IF receiveAToken THEN wallet
                 ELSE [wallet EXCEPT ![collateralAsset][liquidator] = @ + terms.seized]
    IN  /\ LiquidationAccepted(liquidator, collateralAsset, debtAsset, user, debtToCover,
                               receiveAToken)
        /\ terms.repaid <= funds[debtAsset][liquidator]
        /\ wallet' = [funds EXCEPT ![debtAsset][liquidator] = @ - terms.repaid]
        /\ reserves' = [rs2 EXCEPT ![debtAsset].liquidity = @ + terms.repaid]
        /\ usersConfig' = cfg2
        /\ UNCHANGED <<reservesList, paused, borrowAllowance, price, now, flashLoans>>
=============================================================================
