----------------------------- MODULE WadRayMath -----------------------------
(***************************************************************************)
(* Fixed-point arithmetic of the protocol: the libraries WadRayMath,       *)
(* PercentageMath and MathUtils.  The scales are constants, so a small     *)
(* instance keeps the rounding of the code (half up for products and       *)
(* quotients, down for plain division) at a size TLC can enumerate.        *)
(*                                                                         *)
(* The 2^256 overflow checks of the code are not modelled: they revert,    *)
(* and no amount of an instance comes near them.                           *)
(***************************************************************************)
EXTENDS Integers

CONSTANTS
    WAD,                \* one unit of a wad (1e18 in the code)
    WAD_RAY_RATIO,      \* rays per wad (1e9 in the code)
    PERCENTAGE_FACTOR,  \* 100% (1e4 in the code)
    SECONDS_PER_YEAR    \* time units over which a rate is earned (365 days)

RAY == WAD * WAD_RAY_RATIO

\* 1e27 and 1e4 are even, so halfRAY and HALF_PERCENT are exact halves.
ASSUME ScaleAssumption ==
    /\ WAD \in Nat \ {0}
    /\ WAD_RAY_RATIO \in Nat \ {0}
    /\ RAY % 2 = 0
    /\ PERCENTAGE_FACTOR \in Nat \ {0}
    /\ PERCENTAGE_FACTOR % 2 = 0
    /\ SECONDS_PER_YEAR \in Nat \ {0}

-----------------------------------------------------------------------------
\* Mutant: rounded down.
rayDiv_down(a, b) == (a * RAY) \div b

\* a * b / c and a / b * c rounded half up: the shape every library function has.
rayMul(a, b) == (a * b + RAY \div 2) \div RAY
rayDiv(a, b) == (a * RAY + b \div 2) \div b
wadDiv(a, b) == (a * WAD + b \div 2) \div b
wadToRay(a)  == a * WAD_RAY_RATIO

percentMul(value, percentage) ==
    (value * percentage + PERCENTAGE_FACTOR \div 2) \div PERCENTAGE_FACTOR

percentDiv(value, percentage) ==
    (value * PERCENTAGE_FACTOR + percentage \div 2) \div percentage

-----------------------------------------------------------------------------
\* Interest of `rate` from lastUpdateTimestamp to currentTimestamp, in ray.
calculateLinearInterest(rate, lastUpdateTimestamp, currentTimestamp) ==
    RAY + (rate * (currentTimestamp - lastUpdateTimestamp)) \div SECONDS_PER_YEAR

\* Mutants: the third coefficient is halved, not divided by six; the first term
\* takes one delay less.
calculateCompoundedInterest_half(rate, lastUpdateTimestamp, currentTimestamp) ==
    LET exp   == currentTimestamp - lastUpdateTimestamp
        r     == rate \div SECONDS_PER_YEAR
        three == IF exp > 2 THEN exp * (exp - 1) * (exp - 2) ELSE 0
    IN  RAY + r * exp + (exp * (exp - 1) * rayMul(r, r)) \div 2
            + (three * rayMul(rayMul(r, r), r)) \div 2

calculateCompoundedInterest_late(rate, lastUpdateTimestamp, currentTimestamp) ==
    LET exp == currentTimestamp - lastUpdateTimestamp
        r   == rate \div SECONDS_PER_YEAR
    IN  IF exp = 0 THEN RAY
        ELSE RAY + r * (exp - 1) + (exp * (exp - 1) * rayMul(r, r)) \div 2

\* Three terms of the binomial expansion of (1 + rate per second) ^ exp.
calculateCompoundedInterest(rate, lastUpdateTimestamp, currentTimestamp) ==
    LET exp            == currentTimestamp - lastUpdateTimestamp
        expMinusTwo    == IF exp > 2 THEN exp - 2 ELSE 0
        ratePerSecond  == rate \div SECONDS_PER_YEAR
        basePowerTwo   == rayMul(ratePerSecond, ratePerSecond)
        basePowerThree == rayMul(basePowerTwo, ratePerSecond)
    IN  IF exp = 0
        THEN RAY
        ELSE RAY + ratePerSecond * exp
                 + (exp * (exp - 1) * basePowerTwo) \div 2
                 + (exp * (exp - 1) * expMinusTwo * basePowerThree) \div 6
=============================================================================
