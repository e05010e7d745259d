----------------------- MODULE LendingPoolConfigurator -----------------------
(***************************************************************************)
(* What the pool admin and the emergency admin do.  A configuration change *)
(* writes the configuration word alone: no index and no rate is updated.   *)
(***************************************************************************)
EXTENDS FlashLoan

setConfiguration(asset, config) ==
    /\ reserves' = [reserves EXCEPT ![asset].config = config]
    /\ UNCHANGED <<reservesList, usersConfig, paused, borrowAllowance,
                   wallet, price, now, flashLoans>>

\* Mutant: what is lent out is not liquidity either.
checkNoLiquidity_lentOut(asset) == reserves[asset].liquidity = 0

checkNoLiquidity(asset) ==
    reserves[asset].liquidity = 0 /\ reserves[asset].currentLiquidityRate = 0

InitReserve(asset, strategy, unit) ==
    /\ ~Listed(asset)
    /\ Cardinality(reservesList) < MAX_NUMBER_RESERVES
    /\ reservesList' = reservesList \cup {asset}
    /\ setReserve(asset, [initReserve(reserves[asset], strategy) EXCEPT
                             !.config = [@ EXCEPT !.unit = unit, !.active = TRUE,
                                                  !.frozen = FALSE]])
    /\ UNCHANGED <<usersConfig, paused, borrowAllowance, wallet, price, now, flashLoans>>

EnableBorrowingOnReserve(asset, stableBorrowRateEnabled) ==
    setConfiguration(asset, [reserves[asset].config EXCEPT
                                !.borrowingEnabled = TRUE,
                                !.stableRateBorrowingEnabled = stableBorrowRateEnabled])

DisableBorrowingOnReserve(asset) ==
    setConfiguration(asset, [reserves[asset].config EXCEPT !.borrowingEnabled = FALSE])

\* Mutant: the threshold and the bonus are not checked together.
collateralParamsAccepted_apart(asset, ltv, liquidationThreshold, liquidationBonus) ==
    /\ ltv <= liquidationThreshold /\ liquidationThreshold <= PERCENTAGE_FACTOR
    /\ liquidationThreshold = 0 => checkNoLiquidity(asset)

collateralParamsAccepted(asset, ltv, liquidationThreshold, liquidationBonus) ==
    /\ ltv <= liquidationThreshold
    /\ IF liquidationThreshold # 0
       THEN /\ liquidationBonus > PERCENTAGE_FACTOR
            /\ percentMul(liquidationThreshold, liquidationBonus) <= PERCENTAGE_FACTOR
       ELSE liquidationBonus = 0 /\ checkNoLiquidity(asset)

ConfigureReserveAsCollateral(asset, ltv, liquidationThreshold, liquidationBonus) ==
    /\ collateralParamsAccepted(asset, ltv, liquidationThreshold, liquidationBonus)
    /\ setConfiguration(asset, [reserves[asset].config EXCEPT
                                   !.ltv = ltv,
                                   !.liquidationThreshold = liquidationThreshold,
                                   !.liquidationBonus = liquidationBonus])

EnableReserveStableRate(asset) ==
    setConfiguration(asset, [reserves[asset].config EXCEPT !.stableRateBorrowingEnabled = TRUE])

DisableReserveStableRate(asset) ==
    setConfiguration(asset, [reserves[asset].config EXCEPT !.stableRateBorrowingEnabled = FALSE])

ActivateReserve(asset) ==
    setConfiguration(asset, [reserves[asset].config EXCEPT !.active = TRUE])

DeactivateReserve(asset) ==
    /\ checkNoLiquidity(asset)
    /\ setConfiguration(asset, [reserves[asset].config EXCEPT !.active = FALSE])

FreezeReserve(asset) ==
    setConfiguration(asset, [reserves[asset].config EXCEPT !.frozen = TRUE])

UnfreezeReserve(asset) ==
    setConfiguration(asset, [reserves[asset].config EXCEPT !.frozen = FALSE])

SetReserveFactor(asset, reserveFactor) ==
    setConfiguration(asset, [reserves[asset].config EXCEPT !.reserveFactor = reserveFactor])

SetReserveInterestRateStrategyAddress(asset, strategy) ==
    /\ reserves' = [reserves EXCEPT ![asset].strategy = strategy]
    /\ UNCHANGED <<reservesList, usersConfig, paused, borrowAllowance,
                   wallet, price, now, flashLoans>>

SetPoolPause(val) ==
    /\ paused' = val
    /\ UNCHANGED <<reserves, reservesList, usersConfig, borrowAllowance,
                   wallet, price, now, flashLoans>>
=============================================================================
