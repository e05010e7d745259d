SPECIFICATION MCSpec
CONSTANTS
    WAD = 100
    WAD_RAY_RATIO = 100
    PERCENTAGE_FACTOR = 100
    SECONDS_PER_YEAR = 1
    alice = alice
    bob = bob
    treasury = treasury
    usd = usd
    eur = eur
    NoStrategy = NoStrategy
    Account <- MCAccount
    Treasury <- treasury
    User <- MCUser
    Asset <- MCAsset
    UINT_MAX = 1000000
    MAX_NUMBER_RESERVES = 2
    MAX_STABLE_RATE_BORROW_SIZE_PERCENT = 40
    FLASHLOAN_PREMIUM_TOTAL = 20
    LIQUIDATION_CLOSE_FACTOR_PERCENT = 50
    REBALANCE_UP_LIQUIDITY_RATE_THRESHOLD = 40
    REBALANCE_UP_USAGE_RATIO_THRESHOLD = 9500
    InitialWallet <- MCInitialWallet
    InitialPrice <- MCInitialPrice
    MaxFlashLoanDepth = 2
    DepositAmounts = {30}
    WithdrawAmounts = {20}
    BorrowAmounts = {15}
    RepayAmounts = {25, 1000000}
    TransferAmounts = {}
    LiquidationAmounts = {}
    AllowanceAmounts = {0}
    FlashLoanLegs <- MCLegs
    Prices <- StablePrices
    Strategies <- None
    Units = {1}
    CollateralParams <- None
    ReserveFactors = {}
    AdminAssets = {}
    PauseValues = {}
    TimeSteps = {1}
    MaxTime = 4
    Scenarios = {"flashloan"}
    StableEnabled = FALSE
    InitialReserveFactor = 10
    MaxSteps = 3
    Dust = 3
INVARIANTS
    DebtImpliesBorrowingFlag
    Solvent
PROPERTIES
    IndexesNeverDecrease
    DebtIsAuthorised
    HealthyStaysHealthy
CHECK_DEADLOCK FALSE
