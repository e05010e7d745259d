SPECIFICATION Spec
CONSTANTS
    WAD = 100
    WAD_RAY_RATIO = 100
    PERCENTAGE_FACTOR = 100
    SECONDS_PER_YEAR = 1
    Account = {alice, bob}
    Treasury = alice
    PRECISION = 60
    DISTRIBUTION_END = 3
    RewardedToken = {aUsd}
    RewardFund = 60
    ClaimAll = 1000000
    MintAmounts = {2}
    BurnAmounts = {2}
    TransferAmounts = {1}
    ClaimAmounts = {3, 1000000}
    Emissions = {3}
    StakesWritten = {}
    MaxSupply = 4
    TimeSteps = {1}
    MaxTime = 3
PROPERTY
    MovingTokensPaysNothing
CHECK_DEADLOCK FALSE
