SPECIFICATION Spec
CONSTANTS
    WAD = 100
    WAD_RAY_RATIO = 100
    PERCENTAGE_FACTOR = 100
    SECONDS_PER_YEAR = 1
    Account = {alice, bob}
    Treasury = alice
    PRECISION = 60
    DISTRIBUTION_END = 2
    RewardedToken = {aUsd, aEur}
    RewardFund = 4
    ClaimAll = 1000000
    MintAmounts = {2}
    BurnAmounts = {2}
    TransferAmounts = {1}
    ClaimAmounts = {2}
    Emissions = {3}
    StakesWritten = {0}
    MaxSupply = 2
    TimeSteps = {1}
    MaxTime = 3
INVARIANTS
    TypeOK
    UserIndexNotAhead
PROPERTIES
    EarnedIsConserved
    TimePaysEmission
CHECK_DEADLOCK FALSE
