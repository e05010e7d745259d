----------------------------- MODULE MCArithmetic -----------------------------
(***************************************************************************)
(* The pure functions of the protocol, one input per state: the fixed-     *)
(* point arithmetic against exact arithmetic, over a box of amounts and    *)
(* indexes and one of rates and delays, and the interest rate curve walked *)
(* lot by lot, as deposits grow and liquidity is lent at either rate.      *)
(***************************************************************************)
EXTENDS DefaultReserveInterestRateStrategy

CONSTANTS CoarseWAD, CoarseRatio, MaxAmount, MaxIndex, MaxRate, MaxDelay,
          MaxUnits, Lot, Optimal, Base, Slope1, Slope2, StableSlope1, StableSlope2,
          MarketRate, AverageStableRate, ReserveFactor

VARIABLES amount, index, rate, delay, liquidity, stableDebt, variableDebt

\* Powers of the exact growth fit TLC's integers at a scale where a ray has few
\* units, which is also where rounding weighs most.
Coarse == INSTANCE WadRayMath WITH WAD <- CoarseWAD, WAD_RAY_RATIO <- CoarseRatio

rounding == <<amount, index>>
growth   == <<rate, delay>>
lending  == <<liquidity, stableDebt, variableDebt>>
vars     == <<rounding, growth, lending>>

noRounding == amount = 0 /\ index = Coarse!RAY
noGrowth   == rate = 0 /\ delay = 0
noLending  == liquidity = 0 /\ stableDebt = 0 /\ variableDebt = 0

Init == noRounding /\ noGrowth /\ noLending

Round ==
    /\ noGrowth /\ noLending
    /\ \/ amount < MaxAmount /\ amount' = amount + 1 /\ UNCHANGED index
       \/ index < MaxIndex /\ index' = index + 1 /\ UNCHANGED amount
    /\ UNCHANGED <<growth, lending>>

Grow ==
    /\ noRounding /\ noLending
    /\ \/ rate < MaxRate /\ rate' = rate + 1 /\ UNCHANGED delay
       \/ delay < MaxDelay /\ delay' = delay + 1 /\ UNCHANGED rate
    /\ UNCHANGED <<rounding, lending>>

Deposit ==
    /\ noRounding /\ noGrowth
    /\ liquidity + stableDebt + variableDebt < MaxUnits
    /\ liquidity' = liquidity + Lot /\ UNCHANGED <<stableDebt, variableDebt>>
    /\ UNCHANGED <<rounding, growth>>

Lend ==
    /\ liquidity >= Lot /\ liquidity' = liquidity - Lot
    /\ \/ stableDebt' = stableDebt + Lot /\ UNCHANGED variableDebt
       \/ variableDebt' = variableDebt + Lot /\ UNCHANGED stableDebt
    /\ UNCHANGED <<rounding, growth>>

Next == Round \/ Grow \/ Deposit \/ Lend

Spec == Init /\ [][Next]_vars

-----------------------------------------------------------------------------
distance(a, b) == IF a < b THEN b - a ELSE a - b

power(base, n) ==
    LET f[k \in Nat] == IF k = 0 THEN 1 ELSE base * f[k - 1] IN f[n]

\* Whoever burns all he owns, or repays all he owes, burns exactly the scaled
\* tokens he has, although the amount he asks for was rounded from them.
RoundTripIsExact == Coarse!rayDiv(Coarse!rayMul(amount, index), index) = amount

\* (1 + rate) ^ delay in units of RAY ^ delay.
ratePerSecond == rate \div SECONDS_PER_YEAR
exactGrowth   == power(Coarse!RAY + ratePerSecond, delay)
approximation == Coarse!calculateCompoundedInterest(rate, 1, 1 + delay)
unit          == power(Coarse!RAY, delay - 1)

\* What rounding the square of the rate half up adds to its binomial term, and
\* rounding its cube, made of that square, to the next.
powerRounding ==
    1 + (3 * delay * (delay - 1) * Coarse!RAY
           + delay * (delay - 1) * (delay - 2) * (ratePerSecond + Coarse!RAY))
          \div (12 * Coarse!RAY)

\* Three terms of the binomial are all there is up to three units of time, but
\* for the rounding of the powers of the rate and of their multiples ...
CompoundedIsExactUpToThree ==
    delay \in 1 .. 3 => distance(approximation * unit, exactGrowth) <= (powerRounding + 2) * unit

\* ... and beyond them the borrower is undercharged, never overcharged.
CompoundedNeverOvercharges ==
    delay > 0 => approximation * unit <= exactGrowth + powerRounding * unit

\* What borrowers are charged is at least what depositors earn at the same rate,
\* but for what the division of the rate by the seconds of a year drops.
CompoundedCoversLinear ==
    approximation + ((rate % SECONDS_PER_YEAR) * delay) \div SECONDS_PER_YEAR
      >= Coarse!calculateLinearInterest(rate, 1, 1 + delay)

-----------------------------------------------------------------------------
strategy ==
    [optimalUtilizationRate |-> Optimal, baseVariableBorrowRate |-> Base,
     variableRateSlope1 |-> Slope1, variableRateSlope2 |-> Slope2,
     stableRateSlope1 |-> StableSlope1, stableRateSlope2 |-> StableSlope2,
     marketBorrowRate |-> MarketRate]

ASSUME InstanceAssumption ==
    /\ CoarseWAD \in Nat \ {0} /\ CoarseRatio \in Nat \ {0} /\ Coarse!RAY % 2 = 0
    /\ Lot \in Nat /\ strategy \in Strategy
    /\ AverageStableRate \in Nat /\ ReserveFactor \in 0 .. PERCENTAGE_FACTOR

rates == calculateInterestRates(strategy, liquidity, stableDebt, variableDebt,
                                AverageStableRate, ReserveFactor)

\* The slope paid in full, as the branch below the optimal utilization rounds it,
\* may exceed the slope, which is what the branch above adds.
kinkRounding ==
    LET below == rayDiv(rayMul(Optimal, Slope1), Optimal)
    IN  IF below > Slope1 THEN below - Slope1 ELSE 0

\* Lending more of the same deposits never makes a new debt cheaper, below, at
\* and above the optimal utilization where the curve bends.
RatesRiseWithUtilization ==
    [][Lend => /\ rates'.variable + kinkRounding >= rates.variable
               /\ rates'.stable >= rates.stable]_vars

\* In one unit of time depositors and the treasury are promised no more than the
\* borrowers are charged, but for the rounding of the rates.
DepositorsEarnWhatBorrowersPay ==
    LET debt       == stableDebt + variableDebt
        total      == liquidity + debt
        overall    == getOverallBorrowRate(stableDebt, variableDebt, rates.variable,
                                           AverageStableRate)
        depositors == rates.liquidity * total * PERCENTAGE_FACTOR
        borrowers  == (stableDebt * AverageStableRate + variableDebt * rates.variable)
                        * (PERCENTAGE_FACTOR - ReserveFactor)
        slack      == 2 * WAD + debt + 2 * total + (total * overall) \div RAY + 1
    IN  2 * depositors <= 2 * borrowers + slack * PERCENTAGE_FACTOR
=============================================================================
