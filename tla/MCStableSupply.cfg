SPECIFICATION MCSpec
CONSTANTS
    WAD = 100
    WAD_RAY_RATIO = 100
    PERCENTAGE_FACTOR = 100
    SECONDS_PER_YEAR = 1
    alice = alice
    bob = bob
    treasury = treasury
    usd = usd
    eur = eur
    NoStrategy = NoStrategy
    Account <- MCAccount
    Treasury <- treasury
    User <- MCUser
    Asset <- MCAsset
    UINT_MAX = 1000000
    MAX_NUMBER_RESERVES = 2
    MAX_STABLE_RATE_BORROW_SIZE_PERCENT = 40
    FLASHLOAN_PREMIUM_TOTAL = 20
    LIQUIDATION_CLOSE_FACTOR_PERCENT = 50
    REBALANCE_UP_LIQUIDITY_RATE_THRESHOLD = 40
    REBALANCE_UP_USAGE_RATIO_THRESHOLD = 9500
    InitialWallet <- MCInitialWallet
    InitialPrice <- MCInitialPrice
    MaxFlashLoanDepth = 0
    DepositAmounts = {}
    WithdrawAmounts = {}
    BorrowAmounts = {}
    RepayAmounts = {10}
    TransferAmounts = {}
    LiquidationAmounts = {}
    AllowanceAmounts = {}
    FlashLoanLegs <- None
    Prices <- StablePrices
    Strategies <- None
    Units = {1}
    CollateralParams <- None
    ReserveFactors = {}
    AdminAssets = {}
    PauseValues = {}
    TimeSteps = {1}
    MaxTime = 8
    Scenarios = {"tworates"}
    StableEnabled = TRUE
    InitialReserveFactor = 10
    MaxSteps = 5
    Dust = 3
INVARIANTS
    StableSupplyIsSumOfBalances
CHECK_DEADLOCK FALSE
