SPECIFICATION MCSpec
CONSTANTS
    WAD = 100
    WAD_RAY_RATIO = 100
    PERCENTAGE_FACTOR = 100
    SECONDS_PER_YEAR = 1
    alice = alice
    bob = bob
    treasury = treasury
    usd = usd
    eur = eur
    NoStrategy = NoStrategy
    Account <- MCAccount
    Treasury <- treasury
    User <- MCUser
    Asset <- MCAsset
    UINT_MAX = 1000000
    MAX_NUMBER_RESERVES = 2
    MAX_STABLE_RATE_BORROW_SIZE_PERCENT = 40
    FLASHLOAN_PREMIUM_TOTAL = 20
    LIQUIDATION_CLOSE_FACTOR_PERCENT = 50
    REBALANCE_UP_LIQUIDITY_RATE_THRESHOLD = 40
    REBALANCE_UP_USAGE_RATIO_THRESHOLD = 9500
    InitialWallet <- MCInitialWallet
    InitialPrice <- MCInitialPrice
    MaxFlashLoanDepth = 0
    DepositAmounts = {}
    WithdrawAmounts = {40}
    BorrowAmounts = {}
    RepayAmounts = {}
    TransferAmounts = {}
    LiquidationAmounts = {}
    AllowanceAmounts = {}
    FlashLoanLegs <- None
    Prices <- StablePrices
    Strategies <- None
    Units = {1}
    CollateralParams <- MCCollateralParams
    ReserveFactors = {100}
    AdminAssets = {eur}
    PauseValues = {}
    TimeSteps = {1}
    MaxTime = 4
    Scenarios = {"both"}
    StableEnabled = TRUE
    InitialReserveFactor = 10
    MaxSteps = 3
    Dust = 3
PROPERTIES
    NoLiquidityIsDeposited
CHECK_DEADLOCK FALSE
