SPECIFICATION Spec
CONSTANTS
    WAD = 10
    WAD_RAY_RATIO = 1000
    CoarseWAD = 5
    CoarseRatio = 4
    PERCENTAGE_FACTOR = 100
    SECONDS_PER_YEAR = 1
    MaxAmount = 60
    MaxIndex = 70
    MaxRate = 18
    MaxDelay = 5
    MaxUnits = 200
    Lot = 10
    Optimal = 8000
    Base = 200
    Slope1 = 800
    Slope2 = 3000
    StableSlope1 = 500
    StableSlope2 = 3000
    MarketRate = 400
    AverageStableRate = 1300
    ReserveFactor = 10
INVARIANTS
    RoundTripIsExact
    CompoundedIsExactUpToThree
    CompoundedNeverOvercharges
    CompoundedCoversLinear
    DepositorsEarnWhatBorrowersPay
PROPERTIES
    RatesRiseWithUtilization
CHECK_DEADLOCK FALSE
