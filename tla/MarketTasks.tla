---------------------------- MODULE MarketTasks ----------------------------
(***************************************************************************)
(* The tasks of each market, one operator for each script under tasks/,    *)
(* and the sequences that deploy a market: the migrations, and what        *)
(* deployment.md gives where the tasks are run one by one.  Many scripts   *)
(* are copies of another market's: where they are, so are the operators.   *)
(***************************************************************************)
EXTENDS DeploymentTasks

----------------------------------------------------------------------------
(* tasks/dev: on tokens, prices and aggregators of their own, with the     *)
(* first account as every administrator.                                   *)
DevMockTokens == Deploy("MockTokens")

DevAddressProvider ==
    DeployAddressesProvider
    \o SetAddress("PoolAdmin", At(Signer(0))) \o SetAddress("EmergencyAdmin", At(Signer(0)))
    \o DeployRegistry \o Register(InDb("LendingPoolAddressesProviderRegistry"), 1)

DevLendingPool(m) ==
    Get("LendingPoolAddressesProvider")
    \o DeployLendingPool \o SetImpl("LendingPool", InDb("LendingPool")) \o Insert("LendingPool")
    \o DeployLendingPoolConfigurator
    \o SetImpl("LendingPoolConfigurator", InDb("LendingPoolConfigurator"))
    \o Insert("LendingPoolConfigurator")
    \o DeployHelpers(InProvider("LendingPool"), InProvider("LendingPoolConfigurator"))
    \o DeployATokenImplementations(m)

(* deployAllMockAggregators gives every mock token an aggregator.          *)
DevOracles(m, tokens) ==
    Get("MockTokens") \o Get("LendingPoolAddressesProvider") \o ReadAdmin
    \o Deploy("PriceOracle") \o SetPrices(InDb("PriceOracle"), tokens)
    \o Deploy("MockAggregators")
    \o DeployContract("AaveOracle", "AaveOracle", << >>, Paired(m, tokens) \union {QuoteAsset(m)})
    \o SetAddress("PriceOracle", InDb("PriceOracle"))
    \o Deploy("LendingRateOracle") \o SetAddress("LendingRateOracle", InDb("LendingRateOracle"))
    \o Get("StableAndVariableTokensHelper") \o TransferRateOracle
    \o SetOracleBorrowRates(m.rates \intersect tokens) \o SetOracleOwnership(AdminRead)

DevWalletBalanceProvider == DeployWalletBalanceProvider

DevManagers(m) ==
    DeployLendingPoolCollateralManager
    \o SetAddress("LendingPoolCollateralManager", InDb("LendingPoolCollateralManager"))
    \o Deploy("MockFlashLoanReceiver") \o DeployWalletBalanceProvider
    \o AuthorizeWETHGateway(m)

DevInitialize(m) ==
    Get("MockTokens") \o Get("LendingPoolAddressesProvider")
    \o DeployAaveProtocolDataProvider \o ReadAdmin
    \o InitReservesByHelper(m) \o ConfigureReservesByHelper(m) \o DevManagers(m)
----------------------------------------------------------------------------
(* tasks/halo-dev: the same, with the contracts of HaloDAO.                *)
HaloDevMockTokens == DevMockTokens
HaloDevAddressProvider == DevAddressProvider
HaloDevLendingPool(m) == DevLendingPool(m)
HaloDevOracles(m, tokens) == DevOracles(m, tokens)
HaloDevInitialize(m) ==
    Get("MockTokens") \o Get("LendingPoolAddressesProvider")
    \o DeployAaveProtocolDataProvider \o ReadAdmin
    \o Deploy("VestingContractMock") \o Deploy("CurveFactoryMock")
    \o DeployTreasury \o DeployRnbwIncentivesController
    \o InitReservesByHelper(m) \o ConfigureReservesByHelper(m) \o DevManagers(m)
HaloDevWalletBalanceProvider == DevWalletBalanceProvider
----------------------------------------------------------------------------
(* tasks/halo-main.  The gateway is the one the operator copies to the     *)
(* configuration after the fourth task.                                    *)
HaloAddressProviders == DevAddressProvider
HaloLendingPool(m) == DevLendingPool(m)

HaloOracles(m) ==
    Get("LendingPoolAddressesProvider") \o ReadAdmin \o GetPairsTokenAggregator(m)
    \o DeployAaveOracle(m) \o Deploy("LendingRateOracle")
    \o SetInitialMarketRates(m, AdminRead)
    \o SetAssetSources(m, InDb("AaveOracle")) \o SetAddress("PriceOracle", InDb("AaveOracle"))
    \o SetAddress("LendingRateOracle", InDb("LendingRateOracle"))
    \o SetInitialMarketRates(m, AdminRead)

HaloWethGateway == DeployWethGateway \o EditGateway

ManagerAndGateway ==
    DeployLendingPoolCollateralManager
    \o SetAddress("LendingPoolCollateralManager", InDb("LendingPoolCollateralManager"))
    \o DeployWalletBalanceProvider \o AuthorizeLendingPool(EditedGateway)

HaloInitialize(m) ==
    Get("LendingPoolAddressesProvider") \o DeployAaveProtocolDataProvider \o ReadAdmin
    \o DeployTreasury \o DeployRnbwIncentivesController
    \o InitReservesByHelper(m) \o ConfigureReservesByHelper(m) \o ManagerAndGateway

HaloDataProviders == DeployUiHaloPoolDataProvider \o DeployUiIncentiveDataProvider
----------------------------------------------------------------------------
(* tasks/halo-arb and tasks/halo-arb-dev; the second has mock tokens and   *)
(* oracles as in tasks/halo-dev.                                           *)
HaloArbAddressProviders == HaloAddressProviders
HaloArbLendingPool(m) == HaloLendingPool(m)
HaloArbOracles(m) == HaloOracles(m)
HaloArbWethGateway == HaloWethGateway
HaloArbInitialize(m) == HaloInitialize(m)
HaloArbDataProviders == HaloDataProviders

HaloArbDevMockTokens == DevMockTokens
HaloArbDevAddressProviders == HaloAddressProviders
HaloArbDevLendingPool(m) == HaloLendingPool(m)
HaloArbDevOracles(m, tokens) == DevOracles(m, tokens)
HaloArbDevWethGateway == HaloWethGateway
HaloArbDevInitialize(m) == HaloInitialize(m)
HaloArbDevDataProviders == HaloDataProviders
----------------------------------------------------------------------------
(* tasks/halo-matic: the second and fifth tasks in two halves.  The        *)
(* helpers are constructed with the address provider for a pool.           *)
MaticAddressProviders == HaloAddressProviders

MaticLendingPoolA ==
    Get("LendingPoolAddressesProvider")
    \o DeployLendingPool \o SetImpl("LendingPool", InDb("LendingPool")) \o Insert("LendingPool")
    \o DeployLendingPoolConfigurator
    \o SetImpl("LendingPoolConfigurator", InDb("LendingPoolConfigurator"))
    \o Insert("LendingPoolConfigurator")

MaticLendingPoolB(m) ==
    Get("LendingPoolAddressesProvider")
    \o DeployHelpers(AddressesProvider, InProvider("LendingPoolConfigurator"))
    \o DeployATokenImplementations(m)

MaticOracles(m) == HaloOracles(m)
MaticWethGateway == HaloWethGateway

MaticInitializeA ==
    Get("LendingPoolAddressesProvider") \o DeployAaveProtocolDataProvider
    \o DeployRnbwIncentivesController

MaticInitializeB(m) ==
    Get("LendingPoolAddressesProvider") \o Get("AaveProtocolDataProvider") \o ReadAdmin
    \o Get("RnbwIncentivesController")
    \o InitReservesByHelper(m) \o ConfigureReservesByHelper(m) \o ManagerAndGateway

MaticDataProviders == HaloDataProviders
----------------------------------------------------------------------------
(* tasks/xave-avalanche and tasks/xave-sepolia: from a hardware wallet.    *)
(* On Avalanche ConfigNames is misspelt where the implementations of the   *)
(* tokens and the reserves are to be read, which throws.                   *)
AvaxAddressProviders ==
    DeployAddressesProvider
    \o SetAddress("PoolAdmin", At(LedgerSigner)) \o SetAddress("EmergencyAdmin", At(LedgerSigner))
    \o DeployRegistry \o Register(InDb("LendingPoolAddressesProviderRegistry"), 1)
AvaxLendingPoolA == MaticLendingPoolA
AvaxLendingPoolB ==
    Get("LendingPoolAddressesProvider")
    \o DeployHelpers(AddressesProvider, InProvider("LendingPoolConfigurator")) \o Throw
AvaxOracles(m) == MaticOracles(m)
AvaxWethGateway == MaticWethGateway
AvaxInitializeA == Get("LendingPoolAddressesProvider") \o DeployAaveProtocolDataProvider
AvaxInitializeB(m) == MaticInitializeB(m)
AvaxDataProviders == DeployUiHaloPoolDataProvider

SepoliaAddressProviders == AvaxAddressProviders
SepoliaLendingPoolA == AvaxLendingPoolA
SepoliaLendingPoolB(m) == MaticLendingPoolB(m)
SepoliaOracles(m) == AvaxOracles(m)
SepoliaWethGateway == AvaxWethGateway
SepoliaInitializeA == AvaxInitializeA
SepoliaInitializeB(m) == MaticInitializeB(m)
SepoliaDataProviders == AvaxDataProviders
----------------------------------------------------------------------------
(* tasks/migrations.                                                       *)
AaveMainnet(m, skipRegistry) ==
    << FullAddressProvider(m, skipRegistry), FullLendingPool(m), FullOracles(m),
       FullDataProvider, DeployWethGateway, FullInitialize(m) >>
AmmMainnet(m, skipRegistry) == AaveMainnet(m, skipRegistry)
SidechainMainnet(m, skipRegistry) ==
    << FullAddressProviderRegistry(m) >> \o AaveMainnet(m, skipRegistry)
AvalancheMainnet(m, skipRegistry) == SidechainMainnet(m, skipRegistry)

AaveDevMigration(m, tokens) ==
    << DevMockTokens, DevAddressProvider, DevLendingPool(m),
       DevOracles(m, tokens), DeployWethGateway, DevInitialize(m) >>
HaloDevMigration(m, tokens) ==
    << HaloDevMockTokens, HaloDevAddressProvider, HaloDevLendingPool(m),
       HaloDevOracles(m, tokens), DeployWethGateway, HaloDevInitialize(m) >>
HaloArbDevMigration(m, tokens) ==
    << HaloArbDevMockTokens, HaloArbDevAddressProviders, HaloArbDevLendingPool(m),
       HaloArbDevOracles(m, tokens), HaloArbDevWethGateway, HaloArbDevInitialize(m),
       HaloArbDevDataProviders >>

(* The tasks that deployment.md gives in order.                            *)
HaloTasks(m) ==
    << HaloAddressProviders, HaloLendingPool(m), HaloOracles(m), HaloWethGateway,
       HaloInitialize(m), HaloDataProviders >>
HaloArbTasks(m) ==
    << HaloArbAddressProviders, HaloArbLendingPool(m), HaloArbOracles(m), HaloArbWethGateway,
       HaloArbInitialize(m), HaloArbDataProviders >>
HaloMaticTasks(m) ==
    << MaticAddressProviders, MaticLendingPoolA, MaticLendingPoolB(m), MaticOracles(m),
       MaticWethGateway, MaticInitializeA, MaticInitializeB(m), MaticDataProviders >>
XaveAvalancheTasks(m) ==
    << AvaxAddressProviders, AvaxLendingPoolA, AvaxLendingPoolB, AvaxOracles(m),
       AvaxWethGateway, AvaxInitializeA, AvaxInitializeB(m), AvaxDataProviders >>
XaveSepoliaTasks(m) ==
    << SepoliaAddressProviders, SepoliaLendingPoolA, SepoliaLendingPoolB(m), SepoliaOracles(m),
       SepoliaWethGateway, SepoliaInitializeA, SepoliaInitializeB(m), SepoliaDataProviders >>
============================================================================
