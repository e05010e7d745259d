SPECIFICATION MCSpec
CONSTANTS
    WAD = 100
    WAD_RAY_RATIO = 100
    PERCENTAGE_FACTOR = 100
    SECONDS_PER_YEAR = 1
    alice = alice
    bob = bob
    treasury = treasury
    usd = usd
    eur = eur
    NoStrategy = NoStrategy
    Account <- MCAccount
    Treasury <- treasury
    User <- MCUser
    Asset <- MCAsset
    UINT_MAX = 1000000
    MAX_NUMBER_RESERVES = 2
    MAX_STABLE_RATE_BORROW_SIZE_PERCENT = 40
    FLASHLOAN_PREMIUM_TOTAL = 20
    LIQUIDATION_CLOSE_FACTOR_PERCENT = 50
    REBALANCE_UP_LIQUIDITY_RATE_THRESHOLD = 40
    REBALANCE_UP_USAGE_RATIO_THRESHOLD = 9500
    InitialWallet <- MCInitialWallet
    InitialPrice <- MCInitialPrice
    MaxFlashLoanDepth = 0
    DepositAmounts = {40}
    WithdrawAmounts = {40, 1000000}
    BorrowAmounts = {30}
    RepayAmounts = {1000000}
    TransferAmounts = {}
    LiquidationAmounts = {}
    AllowanceAmounts = {}
    FlashLoanLegs <- None
    Prices <- StablePrices
    Strategies <- MCStrategies
    Units = {1}
    CollateralParams <- MCCollateralParams
    ReserveFactors = {20, 120}
    AdminAssets = {usd, eur}
    PauseValues = {TRUE, FALSE}
    TimeSteps = {1}
    MaxTime = 4
    Scenarios = {"both", "none"}
    StableEnabled = TRUE
    InitialReserveFactor = 10
    MaxSteps = 4
    Dust = 3
INVARIANTS
    TypeOK
    BonusIsCovered
PROPERTIES
    FrozenReserveTakesNothingNew
    DisabledReserveIsEmpty
CHECK_DEADLOCK FALSE
