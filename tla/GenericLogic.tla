---------------------------- MODULE GenericLogic ----------------------------
(***************************************************************************)
(* A user's position over all the reserves, valued in ETH.  rs is the map  *)
(* of the reserves, cfg the user's configuration (the reserves used as     *)
(* collateral and those borrowed from) and price the oracle's prices.      *)
(***************************************************************************)
EXTENDS ReserveLogic, FiniteSetsExt

CONSTANTS
    Asset,      \* underlying assets
    UINT_MAX    \* type(uint256).max, above every amount of an instance

\* Assets are addresses too.
ASSUME AssetAssumption == IsFiniteSet(Asset)

ASSUME UintMaxAssumption == UINT_MAX \in Nat

HEALTH_FACTOR_LIQUIDATION_THRESHOLD == WAD

\* The two bits per reserve of UserConfigurationMap, as two sets of reserves.
UserConfiguration == [collateral : SUBSET Asset, borrowing : SUBSET Asset]

setBorrowing(cfg, asset, borrowing) ==
    [cfg EXCEPT !.borrowing = IF borrowing THEN @ \cup {asset} ELSE @ \ {asset}]

setUsingAsCollateral(cfg, asset, usingAsCollateral) ==
    [cfg EXCEPT !.collateral = IF usingAsCollateral THEN @ \cup {asset} ELSE @ \ {asset}]

-----------------------------------------------------------------------------
valueInETH(rs, price, asset, amount) == (price[asset] * amount) \div rs[asset].config.unit

collateralInETH(rs, price, user, asset, now) ==
    valueInETH(rs, price, asset, aTokenBalanceOf(rs[asset], user, now))

debtInETH(rs, price, user, asset, now) ==
    valueInETH(rs, price, asset, stableDebtBalanceOf(rs[asset], user, now)
                                   + variableDebtBalanceOf(rs[asset], user, now))

calculateHealthFactorFromBalances(totalCollateral, totalDebt, liquidationThreshold) ==
    IF totalDebt = 0
    THEN UINT_MAX
    ELSE wadDiv(percentMul(totalCollateral, liquidationThreshold), totalDebt)

\* Collateral counts where the reserve has a liquidation threshold; the ltv and
\* the threshold of the position are averages weighted by collateral.
calculateUserAccountData(rs, price, user, cfg, now) ==
    LET counted == {a \in cfg.collateral : rs[a].config.liquidationThreshold # 0}
        total   == MapThenSumSet(LAMBDA a : collateralInETH(rs, price, user, a, now), counted)
        ltvs    == MapThenSumSet(LAMBDA a : collateralInETH(rs, price, user, a, now)
                                              * rs[a].config.ltv, counted)
        limits  == MapThenSumSet(LAMBDA a : collateralInETH(rs, price, user, a, now)
                                              * rs[a].config.liquidationThreshold, counted)
        debt    == MapThenSumSet(LAMBDA a : debtInETH(rs, price, user, a, now), cfg.borrowing)
        ltv     == IF total > 0 THEN ltvs \div total ELSE 0
        limit   == IF total > 0 THEN limits \div total ELSE 0
    IN  [totalCollateral      |-> total,
         totalDebt            |-> debt,
         ltv                  |-> ltv,
         liquidationThreshold |-> limit,
         healthFactor         |-> calculateHealthFactorFromBalances(total, debt, limit)]

\* What the user may still borrow, which getUserAccountData reports.
calculateAvailableBorrowsETH(data) ==
    LET limit == percentMul(data.totalCollateral, data.ltv)
    IN  IF limit < data.totalDebt THEN 0 ELSE limit - data.totalDebt

\* Mutant: only a debt of the same reserve holds the collateral.
balanceDecreaseAllowed_sameAsset(rs, price, user, cfg, asset, amount, now) ==
    asset \notin cfg.borrowing \/ asset \notin cfg.collateral

\* May the user's collateral in the asset shrink by amount?  A SafeMath revert
\* refuses the operation as FALSE does.
balanceDecreaseAllowed(rs, price, user, cfg, asset, amount, now) ==
    LET data            == calculateUserAccountData(rs, price, user, cfg, now)
        threshold       == rs[asset].config.liquidationThreshold
        decrease        == valueInETH(rs, price, asset, amount)
        collateralAfter == data.totalCollateral - decrease
        weightAfter     == data.totalCollateral * data.liquidationThreshold - decrease * threshold
    IN  \/ cfg.borrowing = {}
        \/ asset \notin cfg.collateral
        \/ threshold = 0
        \/ data.totalDebt = 0
        \/ /\ collateralAfter > 0
           /\ weightAfter >= 0
           /\ calculateHealthFactorFromBalances(collateralAfter, data.totalDebt,
                                                weightAfter \div collateralAfter)
                >= HEALTH_FACTOR_LIQUIDATION_THRESHOLD
=============================================================================
