----------------- MODULE DefaultReserveInterestRateStrategy -----------------
(***************************************************************************)
(* The interest rate curve of a reserve.  A strategy contract is immutable,*)
(* so it is a record of its parameters; the market borrow rate that the    *)
(* (external) lending rate oracle quotes for the reserve is one of them.   *)
(***************************************************************************)
EXTENDS WadRayMath

\* Parameters of a deployed strategy.  A zero optimal utilization would make
\* every quotation revert, one above RAY cannot be deployed.
Strategy ==
    [optimalUtilizationRate : 1 .. RAY, baseVariableBorrowRate : Nat,
     variableRateSlope1 : Nat, variableRateSlope2 : Nat,
     stableRateSlope1 : Nat, stableRateSlope2 : Nat, marketBorrowRate : Nat]

getMaxVariableBorrowRate(s) ==
    s.baseVariableBorrowRate + s.variableRateSlope1 + s.variableRateSlope2

utilizationRate(totalDebt, availableLiquidity) ==
    IF totalDebt = 0 THEN 0 ELSE rayDiv(totalDebt, availableLiquidity + totalDebt)

\* Mutant: each debt is weighted with the other's rate.
getOverallBorrowRate_crossed(totalStableDebt, totalVariableDebt, variableRate, averageStableRate) ==
    IF totalStableDebt + totalVariableDebt = 0
    THEN 0
    ELSE rayDiv(rayMul(wadToRay(totalStableDebt), variableRate)
                    + rayMul(wadToRay(totalVariableDebt), averageStableRate),
                wadToRay(totalStableDebt + totalVariableDebt))

\* Average of the variable rate and of the average stable rate, weighted by debt.
getOverallBorrowRate(totalStableDebt, totalVariableDebt, variableRate, averageStableRate) ==
    LET totalDebt == totalStableDebt + totalVariableDebt
    IN  IF totalDebt = 0
        THEN 0
        ELSE rayDiv(rayMul(wadToRay(totalVariableDebt), variableRate)
                        + rayMul(wadToRay(totalStableDebt), averageStableRate),
                    wadToRay(totalDebt))

aboveOptimal(s, utilization) == utilization > s.optimalUtilizationRate

\* How far above the optimal utilization, as a share of what is left to 100%.
excessUtilizationRateRatio(s, utilization) ==
    rayDiv(utilization - s.optimalUtilizationRate, RAY - s.optimalUtilizationRate)

stableBorrowRate(s, utilization) ==
    s.marketBorrowRate +
    IF aboveOptimal(s, utilization)
    THEN s.stableRateSlope1
           + rayMul(s.stableRateSlope2, excessUtilizationRateRatio(s, utilization))
    ELSE rayMul(s.stableRateSlope1, rayDiv(utilization, s.optimalUtilizationRate))

\* Mutant: above the optimal utilization the first slope is left out.
variableBorrowRate_kinked(s, utilization) ==
    s.baseVariableBorrowRate +
    IF aboveOptimal(s, utilization)
    THEN rayMul(s.variableRateSlope2, excessUtilizationRateRatio(s, utilization))
    ELSE rayDiv(rayMul(utilization, s.variableRateSlope1), s.optimalUtilizationRate)

variableBorrowRate(s, utilization) ==
    s.baseVariableBorrowRate +
    IF aboveOptimal(s, utilization)
    THEN s.variableRateSlope1
           + rayMul(s.variableRateSlope2, excessUtilizationRateRatio(s, utilization))
    ELSE rayDiv(rayMul(utilization, s.variableRateSlope1), s.optimalUtilizationRate)

\* The three rates quoted for a reserve with this liquidity and this debt.
calculateInterestRates(s, availableLiquidity, totalStableDebt, totalVariableDebt, averageStableRate, reserveFactor) ==
    LET utilization == utilizationRate(totalStableDebt + totalVariableDebt, availableLiquidity)
        variable    == variableBorrowRate(s, utilization)
        overall     == getOverallBorrowRate(totalStableDebt, totalVariableDebt,
                                            variable, averageStableRate)
    IN  [liquidity |-> percentMul(rayMul(overall, utilization),
                                  PERCENTAGE_FACTOR - reserveFactor),
         stable    |-> stableBorrowRate(s, utilization),
         variable  |-> variable]
=============================================================================
