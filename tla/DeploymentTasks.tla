-------------------------- MODULE DeploymentTasks --------------------------
(***************************************************************************)
(* The deployment scripts under tasks/, as the steps they take: a task is  *)
(* the sequence of the transactions it sends, of its reads of the JSON     *)
(* database of addresses (getDb) that throw when the contract is missing,  *)
(* and of its writes to it.  What a step does is in Deployment; here is    *)
(* which steps the helpers and the tasks of tasks/full take, in which      *)
(* order, for a market m; the other tasks are in MarketTasks.              *)
(***************************************************************************)
EXTENDS MarketConfiguration, SequencesExt

(* Where a script takes an address from: the database, the configuration,  *)
(* the address provider, or `admin', read from the provider by ReadAdmin.  *)
InDb(id) == [from |-> "db", id |-> id]
At(address) == [from |-> "configuration", address |-> address]
InProvider(id) == [from |-> "provider", id |-> id]
AdminRead == [from |-> "admin"]
EditedGateway == [from |-> "gateway"]
AddressesProvider == InDb("LendingPoolAddressesProvider")

(* The steps.                                                              *)
Get(id) == <<[op |-> "Get", id |-> id]>>
Throw == <<[op |-> "Throw"]>>
DeployContract(kind, id, ref, data) ==
    <<[op |-> "Deploy", kind |-> kind, id |-> id, ref |-> ref, data |-> data]>>
Deploy(id) == DeployContract(id, id, << >>, {})
SetAddress(id, value) == <<[op |-> "SetAddress", id |-> id, value |-> value]>>
SetImpl(id, value) == <<[op |-> "SetImpl", id |-> id, value |-> value]>>
Insert(id) == <<[op |-> "Insert", id |-> id]>>
ReadAdmin == <<[op |-> "ReadAdmin"]>>
Register(registry, providerId) == <<[op |-> "Register", registry |-> registry, providerId |-> providerId]>>
SetPoolPause == <<[op |-> "SetPoolPause"]>>
SetPrices(oracle, assets) == <<[op |-> "SetPrices", oracle |-> oracle, assets |-> assets]>>
TransferRateOracle == <<[op |-> "TransferRateOracle"]>>
SetOracleBorrowRates(assets) == <<[op |-> "SetOracleBorrowRates", assets |-> assets]>>
SetOracleOwnership(admin) == <<[op |-> "SetOracleOwnership", admin |-> admin]>>
InitReserve(r) == <<[op |-> "InitReserve", reserve |-> r.asset, strategy |-> r.params.strategy.name]>>
Collect(rs) == <<[op |-> "Collect", reserves |-> rs]>>
GrantHelper == <<[op |-> "GrantHelper"]>>
ConfigureReserves == <<[op |-> "ConfigureReserves"]>>
RestoreAdmin == <<[op |-> "RestoreAdmin"]>>
AuthorizeLendingPool(weth) == <<[op |-> "AuthorizeLendingPool", gateway |-> weth]>>
EditGateway == <<[op |-> "EditGateway"]>>

ConfiguredOr(m, key, id) == IF HasConfigured(m, key) THEN At(Configured(m.name, key)) ELSE InDb(id)
UnlessConfigured(m, key, steps) == IF HasConfigured(m, key) THEN << >> ELSE steps

Each(Steps(_), s) == FlattenSeq([i \in DOMAIN s |-> Steps(s[i])])
----------------------------------------------------------------------------
(* helpers/contracts-deployments.ts                                        *)
ProviderIds == {"LendingPool", "LendingPoolConfigurator", "PoolAdmin", "EmergencyAdmin", "PriceOracle",
                "LendingRateOracle", "LendingPoolCollateralManager", "AaveProtocolDataProvider"}
DeployAddressesProvider ==
    DeployContract("LendingPoolAddressesProvider", "LendingPoolAddressesProvider",
                   [id \in ProviderIds |-> At(NoAddress)], {})
DeployRegistry == Deploy("LendingPoolAddressesProviderRegistry")

(* The implementation is saved under the id of its proxy as well, until    *)
(* insertContractAddressInDb puts the proxy there.                         *)
DeployLendingPool == DeployContract("LendingPoolImpl", "LendingPool", << >>, {})
DeployLendingPoolConfigurator ==
    DeployContract("LendingPoolConfiguratorImpl", "LendingPoolConfigurator", << >>, {})
DeployLendingPoolCollateralManager == Deploy("LendingPoolCollateralManager")

DeployAaveProtocolDataProvider ==
    DeployContract("AaveProtocolDataProvider", "AaveProtocolDataProvider",
                   [provider |-> AddressesProvider], {})

DeployHelpers(pool, configurator) ==
    DeployContract("StableAndVariableTokensHelper", "StableAndVariableTokensHelper",
                   [pool |-> pool, provider |-> AddressesProvider], {})
    \o DeployContract("ATokensAndRatesHelper", "ATokensAndRatesHelper",
                      [pool |-> pool, provider |-> AddressesProvider, configurator |-> configurator], {})

(* The aToken implementations of all reserves, on the network or not.      *)
DeployATokenImplementations(m) ==
    LET impls == {m.ReservesConfig[i].params.aTokenImpl : i \in DOMAIN m.ReservesConfig}
    IN Deploy("AToken")
       \o (IF "DelegationAwareAToken" \in impls THEN Deploy("DelegationAwareAToken") ELSE << >>)
       \o Deploy("StableDebtToken") \o Deploy("VariableDebtToken")

DeployTreasury == Deploy("Treasury")
DeployRnbwIncentivesController == Deploy("RnbwIncentivesController")
DeployUiPoolDataProvider == Deploy("UiPoolDataProvider")
DeployUiHaloPoolDataProvider == Deploy("UiHaloPoolDataProvider")
DeployUiIncentiveDataProvider == Deploy("UiIncentiveDataProvider")
DeployWalletBalanceProvider == Deploy("WalletBalanceProvider")

(* The gateway of the configuration, or else of the database.              *)
AuthorizeWETHGateway(m) ==
    UnlessConfigured(m, "WethGateway", Get("WETHGateway"))
    \o AuthorizeLendingPool(ConfiguredOr(m, "WethGateway", "WETHGateway"))
----------------------------------------------------------------------------
(* helpers/contracts-getters.ts: the oracle tasks watch the assets of the  *)
(* network and USD; getPairsTokenAggregator leaves the quote currencies    *)
(* out and throws on a token that has no aggregator.  (init-helpers.ts has *)
(* another function of that name, which no task imports.)                  *)
GetQuoteCurrencies(m) == IF m.OracleQuoteCurrency = "USD" THEN {"USD"} ELSE {"ETH", "WETH"}
Paired(m, tokens) == tokens \ GetQuoteCurrencies(m)
PairedTokens(m) == Paired(m, m.ReserveAssets \union {"USD"})
GetPairsTokenAggregator(m) == IF PairedTokens(m) \subseteq m.ChainlinkAggregator THEN << >> ELSE Throw
----------------------------------------------------------------------------
(* helpers/init-helpers.ts and helpers/oracles-helpers.ts                  *)


(* One rate strategy for each name, as the first reserve of that name has  *)
(* it; then the reserves in batches of one.                                *)
DeployRateStrategies(rs) ==
    Each(LAMBDA i : IF \E j \in 1..(i - 1) : rs[j].params.strategy.name = rs[i].params.strategy.name
                    THEN << >>
                    ELSE DeployContract("DefaultReserveInterestRateStrategy", rs[i].params.strategy.name,
                                        << >>, {rs[i].params.strategy}),
         [i \in 1..Len(rs) |-> i])

InitReservesByHelper(m) ==
    LET rs == ReservesOnNetwork(m)
        impls == {rs[i].params.aTokenImpl : i \in DOMAIN rs}
    IN DeployRateStrategies(rs)
       \o (IF "AToken" \in impls THEN Get("AToken") ELSE << >>)
       \o (IF "DelegationAwareAToken" \in impls THEN Get("DelegationAwareAToken") ELSE << >>)
       \o Get("StableDebtToken") \o Get("VariableDebtToken")
       \o Get("LendingPoolConfigurator") \o Each(InitReserve, rs)

(* The helper contract is the pool admin while it configures the reserves  *)
(* that are not enabled as collateral yet; the caller is made admin again  *)
(* from the address the task read before.                                  *)
ConfigureReservesByHelper(m) ==
    Get("ATokensAndRatesHelper")
    \o Collect(SelectSeq(ReservesOnNetwork(m), LAMBDA r : r.params.baseLTVAsCollateral # NotCollateral))
    \o GrantHelper \o ConfigureReserves \o RestoreAdmin

(* The helper contract owns the rate oracle while it sets the rates.       *)
SetInitialMarketRates(m, admin) ==
    Get("StableAndVariableTokensHelper") \o TransferRateOracle
    \o SetOracleBorrowRates(LendingRateOracles(m)) \o SetOracleOwnership(admin)

DeployAaveOracle(m) ==
    DeployContract("AaveOracle", "AaveOracle", << >>, PairedTokens(m) \union {QuoteAsset(m)})
SetAssetSources(m, oracle) == SetPrices(oracle, PairedTokens(m))
----------------------------------------------------------------------------
(* tasks/full and tasks/deployments/add-market-to-registry.ts              *)
FullAddressProviderRegistry(m) == UnlessConfigured(m, "ProviderRegistry", DeployRegistry)

AddMarketToRegistry(m) ==
    FullAddressProviderRegistry(m)
    \o Register(ConfiguredOr(m, "ProviderRegistry", "LendingPoolAddressesProviderRegistry"), m.ProviderId)

FullAddressProvider(m, skipRegistry) ==
    DeployAddressesProvider
    \o (IF skipRegistry THEN << >> ELSE AddMarketToRegistry(m))
    \o SetAddress("PoolAdmin", At(m.poolAdmin)) \o SetAddress("EmergencyAdmin", At(m.emergencyAdmin))

FullLendingPool(m) ==
    Get("LendingPoolAddressesProvider")
    \o UnlessConfigured(m, "LendingPool", DeployLendingPool)
    \o SetImpl("LendingPool", ConfiguredOr(m, "LendingPool", "LendingPool"))
    \o Insert("LendingPool")
    \o UnlessConfigured(m, "LendingPoolConfigurator", DeployLendingPoolConfigurator)
    \o SetImpl("LendingPoolConfigurator",
               ConfiguredOr(m, "LendingPoolConfigurator", "LendingPoolConfigurator"))
    \o Insert("LendingPoolConfigurator")
    \o SetPoolPause
    \o DeployHelpers(InProvider("LendingPool"), InProvider("LendingPoolConfigurator"))
    \o DeployATokenImplementations(m)

FullOracles(m) ==
    LET oracle == ConfiguredOr(m, "AaveOracle", "AaveOracle")
    IN Get("LendingPoolAddressesProvider") \o GetPairsTokenAggregator(m)
       \o UnlessConfigured(m, "AaveOracle", DeployAaveOracle(m)) \o SetAssetSources(m, oracle)
       \o UnlessConfigured(m, "LendingRateOracle",
                           Deploy("LendingRateOracle") \o SetInitialMarketRates(m, At(m.poolAdmin)))
       \o SetAddress("PriceOracle", oracle)
       \o SetAddress("LendingRateOracle", ConfiguredOr(m, "LendingRateOracle", "LendingRateOracle"))

FullDataProvider == Get("LendingPoolAddressesProvider") \o DeployAaveProtocolDataProvider

DeployWethGateway == Deploy("WETHGateway")

FullInitialize(m) ==
    Get("LendingPoolAddressesProvider") \o Get("AaveProtocolDataProvider") \o ReadAdmin
    \o InitReservesByHelper(m) \o ConfigureReservesByHelper(m)
    \o UnlessConfigured(m, "LendingPoolCollateralManager", DeployLendingPoolCollateralManager)
    \o SetAddress("LendingPoolCollateralManager",
                  ConfiguredOr(m, "LendingPoolCollateralManager", "LendingPoolCollateralManager"))
    \o SetAddress("AaveProtocolDataProvider", InDb("AaveProtocolDataProvider"))
    \o DeployWalletBalanceProvider \o DeployUiPoolDataProvider
    \o AuthorizeWETHGateway(m)
============================================================================
