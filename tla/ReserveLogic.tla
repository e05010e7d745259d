---------------------------- MODULE ReserveLogic ----------------------------
(***************************************************************************)
(* A reserve: what the pool stores about one asset, together with the      *)
(* storage of the three tokens of that asset.  Every operation of the pool *)
(* is a pipeline of the functions of this module and of the tokens', each  *)
(* taking a reserve and returning the next one.                            *)
(***************************************************************************)
EXTENDS DefaultReserveInterestRateStrategy, ScaledToken, StableDebtToken

CONSTANT NoStrategy  \* the strategy of a reserve that was not initialized

\* The unpacked ReserveConfigurationMap; unit is 10 ** decimals.
Configuration ==
    [active : BOOLEAN, frozen : BOOLEAN,
     borrowingEnabled : BOOLEAN, stableRateBorrowingEnabled : BOOLEAN,
     ltv : Nat, liquidationThreshold : Nat, liquidationBonus : Nat,
     reserveFactor : Nat, unit : Nat \ {0}]

\* liquidity is the underlying held by the aToken contract.
Reserve ==
    [liquidityIndex : Nat, variableBorrowIndex : Nat,
     currentLiquidityRate : Nat, currentVariableBorrowRate : Nat,
     currentStableBorrowRate : Nat, lastUpdateTimestamp : Nat,
     strategy : Strategy \cup {NoStrategy},
     config : Configuration, liquidity : Nat,
     aToken : Token, variableDebt : Token, stableDebt : StableToken]

EmptyConfiguration ==
    [active |-> FALSE, frozen |-> FALSE,
     borrowingEnabled |-> FALSE, stableRateBorrowingEnabled |-> FALSE,
     ltv |-> 0, liquidationThreshold |-> 0, liquidationBonus |-> 0,
     reserveFactor |-> 0, unit |-> 1]

EmptyReserve ==
    [liquidityIndex |-> 0, variableBorrowIndex |-> 0,
     currentLiquidityRate |-> 0, currentVariableBorrowRate |-> 0,
     currentStableBorrowRate |-> 0, lastUpdateTimestamp |-> 0,
     strategy |-> NoStrategy, config |-> EmptyConfiguration, liquidity |-> 0,
     aToken |-> EmptyToken, variableDebt |-> EmptyToken, stableDebt |-> EmptyStableToken]

\* ReserveLogic.init: the timestamp and the rates stay zero.
initReserve(r, strategy) ==
    [r EXCEPT !.liquidityIndex = RAY, !.variableBorrowIndex = RAY, !.strategy = strategy]

-----------------------------------------------------------------------------
\* Mutant: what depositors earn is shown at the rate of the borrowers.
getNormalizedIncome_borrowRate(r, now) ==
    IF r.lastUpdateTimestamp = now
    THEN r.liquidityIndex
    ELSE rayMul(calculateLinearInterest(r.currentVariableBorrowRate, r.lastUpdateTimestamp, now),
                r.liquidityIndex)

\* The indexes as of now, which balanceOf of the tokens uses.
getNormalizedIncome(r, now) ==
    IF r.lastUpdateTimestamp = now
    THEN r.liquidityIndex
    ELSE rayMul(calculateLinearInterest(r.currentLiquidityRate, r.lastUpdateTimestamp, now),
                r.liquidityIndex)

getNormalizedDebt(r, now) ==
    IF r.lastUpdateTimestamp = now
    THEN r.variableBorrowIndex
    ELSE rayMul(calculateCompoundedInterest(r.currentVariableBorrowRate,
                                            r.lastUpdateTimestamp, now),
                r.variableBorrowIndex)

aTokenBalanceOf(r, account, now)       == balanceOf(r.aToken, account, getNormalizedIncome(r, now))
aTokenTotalSupply(r, now)              == totalSupply(r.aToken, getNormalizedIncome(r, now))
variableDebtBalanceOf(r, account, now) == balanceOf(r.variableDebt, account, getNormalizedDebt(r, now))
variableDebtTotalSupply(r, now)        == totalSupply(r.variableDebt, getNormalizedDebt(r, now))
stableDebtBalanceOf(r, account, now)   == stableBalanceOf(r.stableDebt, account, now)

-----------------------------------------------------------------------------
\* Mutant: the timestamp advances only with the indexes.
updateIndexes_stale(r, now) ==
    IF r.currentLiquidityRate = 0
    THEN r
    ELSE [r EXCEPT !.liquidityIndex = getNormalizedIncome(r, now),
                   !.variableBorrowIndex = getNormalizedDebt(r, now),
                   !.lastUpdateTimestamp = now]

\* Mutant: the debt is committed without compounding.
updateIndexes_linear(r, now) ==
    [r EXCEPT !.liquidityIndex = getNormalizedIncome(r, now),
              !.variableBorrowIndex =
                  rayMul(calculateLinearInterest(r.currentVariableBorrowRate,
                                                 r.lastUpdateTimestamp, now), @),
              !.lastUpdateTimestamp = now]

\* Interest is committed only while depositors earn some, and to borrowers only
\* while there is variable debt.
updateIndexes(r, now) ==
    LET earning == r.currentLiquidityRate > 0
    IN  [r EXCEPT
           !.liquidityIndex =
               IF earning
               THEN rayMul(calculateLinearInterest(r.currentLiquidityRate,
                                                   r.lastUpdateTimestamp, now), @)
               ELSE @,
           !.variableBorrowIndex =
               IF earning /\ r.variableDebt.supply # 0
               THEN rayMul(calculateCompoundedInterest(r.currentVariableBorrowRate,
                                                       r.lastUpdateTimestamp, now), @)
               ELSE @,
           !.lastUpdateTimestamp = now]

\* The debt before and after the accrual that updated r into n.
previousDebt(r) ==
    rayMul(r.variableDebt.supply, r.variableBorrowIndex)
      + rayMul(r.stableDebt.supply,
               calculateCompoundedInterest(r.stableDebt.avgStableRate,
                                           r.stableDebt.totalSupplyTimestamp,
                                           r.lastUpdateTimestamp))

currentDebt(n, now) ==
    rayMul(n.variableDebt.supply, n.variableBorrowIndex) + stableTotalSupply(n.stableDebt, now)

\* SafeMath reverts if the stable supply was updated after the reserve, or if
\* the debt shrank.
mintToTreasuryAccepted(r, n, now) ==
    \/ r.config.reserveFactor = 0
    \/ /\ r.stableDebt.totalSupplyTimestamp <= r.lastUpdateTimestamp
       /\ previousDebt(r) <= currentDebt(n, now)

\* Mutant: the fee is a share of the debt, not of what it accrued.
amountToMintToTreasury_ofDebt(r, n, now) == percentMul(currentDebt(n, now), r.config.reserveFactor)

amountToMintToTreasury(r, n, now) ==
    IF r.config.reserveFactor = 0
    THEN 0
    ELSE percentMul(currentDebt(n, now) - previousDebt(r), r.config.reserveFactor)

updateStateAccepted(r, now) == mintToTreasuryAccepted(r, updateIndexes(r, now), now)

updateState(r, now) ==
    LET n == updateIndexes(r, now)
    IN  [n EXCEPT !.aToken = mintToTreasury(@, Treasury, amountToMintToTreasury(r, n, now),
                                            n.liquidityIndex)]

\* Mutant: the share left to depositors is not checked to be one.
updateInterestRatesAccepted_anyFactor(r, liquidityAdded, liquidityTaken) ==
    liquidityTaken <= r.liquidity + liquidityAdded

\* The SafeMath subtractions of the liquidity taken and of the reserve factor.
updateInterestRatesAccepted(r, liquidityAdded, liquidityTaken) ==
    /\ liquidityTaken <= r.liquidity + liquidityAdded
    /\ r.config.reserveFactor <= PERCENTAGE_FACTOR

\* Mutant: the rates are quoted for the liquidity before the funds move.
updateInterestRates_before(r, liquidityAdded, liquidityTaken, now) ==
    LET rates == calculateInterestRates(
                     r.strategy, r.liquidity, stableTotalSupply(r.stableDebt, now),
                     rayMul(r.variableDebt.supply, r.variableBorrowIndex),
                     r.stableDebt.avgStableRate, r.config.reserveFactor)
    IN  [r EXCEPT !.currentLiquidityRate = rates.liquidity,
                  !.currentStableBorrowRate = rates.stable,
                  !.currentVariableBorrowRate = rates.variable]

updateInterestRates(r, liquidityAdded, liquidityTaken, now) ==
    LET rates == calculateInterestRates(
                     r.strategy,
                     r.liquidity + liquidityAdded - liquidityTaken,
                     stableTotalSupply(r.stableDebt, now),
                     rayMul(r.variableDebt.supply, r.variableBorrowIndex),
                     r.stableDebt.avgStableRate,
                     r.config.reserveFactor)
    IN  [r EXCEPT !.currentLiquidityRate = rates.liquidity,
                  !.currentStableBorrowRate = rates.stable,
                  !.currentVariableBorrowRate = rates.variable]

\* Mutant: the index becomes the premium per unit.
cumulateToLiquidityIndex_bare(r, totalLiquidity, amount) ==
    [r EXCEPT !.liquidityIndex =
        rayMul(rayDiv(wadToRay(amount), wadToRay(totalLiquidity)), @)]

\* Premium of a flash loan, spread over the holders of totalLiquidity.
cumulateToLiquidityIndex(r, totalLiquidity, amount) ==
    [r EXCEPT !.liquidityIndex =
        rayMul(RAY + rayDiv(wadToRay(amount), wadToRay(totalLiquidity)), @)]
=============================================================================
