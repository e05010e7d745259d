-------------------- MODULE MarketsHalo --------------------
(***************************************************************************)
(* The markets of HaloDAO and Xave, as markets/ configures them: for each   *)
(* the rate strategies and reserve strategies its ReservesConfig uses, the  *)
(* assets, market rates and price aggregators of its networks, and which of *)
(* the protocol's contracts it already has an address for.                  *)
(***************************************************************************)
EXTENDS MarketConfiguration

(* markets/halo *)
halo_rateStrategyStableTwo == RateStrategy("rateStrategyStableTwo", 80, 0, 4, 75, 2, 75)
halo_rateStrategyStableThree == RateStrategy("rateStrategyStableThree", 90, 0, 4, 60, 2, 60)
halo_rateStrategyVolatileTwo == RateStrategy("rateStrategyVolatileTwo", 65, 0, 8, 300, 10, 300)
halo_rateStrategyWETH == RateStrategy("rateStrategyWETH", 65, 0, 8, 100, 10, 100)
halo_strategyDAI == Strategy(halo_rateStrategyStableTwo, "AToken", 7500, 8000, 10500, 1000, TRUE, TRUE)
halo_strategyUSDC == Strategy(halo_rateStrategyStableThree, "AToken", 8000, 8500, 10500, 1000, TRUE, TRUE)
halo_strategyUSDT == Strategy(halo_rateStrategyStableThree, "AToken", 8000, 8500, 10500, 1000, TRUE, TRUE)
halo_strategyWBTC == Strategy(halo_rateStrategyVolatileTwo, "AToken", 7000, 7500, 11000, 2000, TRUE, TRUE)
halo_strategyWETH == Strategy(halo_rateStrategyWETH, "AToken", 8000, 8250, 10500, 1000, TRUE, TRUE)
halo_strategyXSGD == Strategy(halo_rateStrategyStableThree, "AToken", 8000, 8500, 10500, 1000, TRUE, TRUE)
halo_strategyFXPHP == Strategy(halo_rateStrategyStableThree, "AToken", 8000, 8500, 10500, 1000, TRUE, TRUE)
halo_strategyUST == Strategy(halo_rateStrategyStableThree, "AToken", 8000, 8500, 10500, 1000, TRUE, TRUE)
halo_strategyHLP_XSGD_USDC == Strategy(halo_rateStrategyStableThree, "AToken", 8000, 8500, 10500, 1000, TRUE, TRUE)
halo_strategyHLP_UST_USDC == Strategy(halo_rateStrategyStableThree, "AToken", 8000, 8500, 10500, 1000, TRUE, TRUE)
halo_strategyMockUSDC == Strategy(halo_rateStrategyStableThree, "AToken", 8000, 8500, 10500, 1000, TRUE, TRUE)
halo_strategyLP_FXPHP_USDC == Strategy(halo_rateStrategyStableThree, "AToken", 8000, 8500, 10500, 1000, TRUE, TRUE)
halo_strategyLP_EURS_USDC == Strategy(halo_rateStrategyStableThree, "AToken", 8000, 8500, 10500, 1000, FALSE, FALSE)
halo_ReservesConfig == << Reserve("DAI", halo_strategyDAI),
    Reserve("USDC", halo_strategyUSDC), Reserve("USDT", halo_strategyUSDT),
    Reserve("WBTC", halo_strategyWBTC), Reserve("WETH", halo_strategyWETH),
    Reserve("RNBW", halo_strategyWETH), Reserve("XSGD", halo_strategyXSGD),
    Reserve("FXPHP", halo_strategyFXPHP), Reserve("UST", halo_strategyUST),
    Reserve("HLP_XSGD_USDC", halo_strategyHLP_XSGD_USDC),
    Reserve("HLP_UST_USDC", halo_strategyHLP_UST_USDC),
    Reserve("MockUSDC", halo_strategyMockUSDC),
    Reserve("LP_FXPHP_USDC", halo_strategyLP_FXPHP_USDC),
    Reserve("LP_EURS_USDC", halo_strategyLP_EURS_USDC) >>
halo_ReserveAssets == [main |-> {"DAI", "WETH", "USDC", "USDT", "WBTC", "XSGD", "FXPHP",
    "UST", "HLP_XSGD_USDC", "HLP_UST_USDC", "LP_EURS_USDC"}]
halo_LendingRateOracleRatesCommon == {"WETH", "DAI", "USDC", "USDT", "RNBW", "WBTC"}
halo_ChainlinkAggregator == [main |-> {"DAI", "USDC", "USDT", "WBTC", "USD", "XSGD",
    "HLP_XSGD_USDC", "HLP_UST_USDC"}]
halo_configured == [main |-> {"ProviderRegistry", "LendingRateOracle",
    "LendingPoolConfigurator", "LendingPool", "WethGateway", "AaveOracle"}]

(* markets/halo-arb *)
haloArb_rateStrategyStableTwo == RateStrategy("rateStrategyStableTwo", 80, 0, 4, 75, 2, 75)
haloArb_rateStrategyStableThree == RateStrategy("rateStrategyStableThree", 90, 0, 4, 60, 2, 60)
haloArb_rateStrategyVolatileTwo == RateStrategy("rateStrategyVolatileTwo", 65, 0, 8, 300, 10, 300)
haloArb_rateStrategyWETH == RateStrategy("rateStrategyWETH", 65, 0, 8, 100, 10, 100)
haloArb_strategyDAI == Strategy(haloArb_rateStrategyStableTwo, "AToken", 7500, 8000, 10500, 1000, TRUE, TRUE)
haloArb_strategyUSDC == Strategy(haloArb_rateStrategyStableThree, "AToken", 8000, 8500, 10500, 1000, TRUE, TRUE)
haloArb_strategyUSDT == Strategy(haloArb_rateStrategyStableThree, "AToken", 8000, 8500, 10500, 1000, TRUE, TRUE)
haloArb_strategyWBTC == Strategy(haloArb_rateStrategyVolatileTwo, "AToken", 7000, 7500, 11000, 2000, TRUE, TRUE)
haloArb_strategyWETH == Strategy(haloArb_rateStrategyWETH, "AToken", 8000, 8250, 10500, 1000, TRUE, TRUE)
haloArb_strategyXSGD == Strategy(haloArb_rateStrategyStableThree, "AToken", 8000, 8500, 10500, 1000, TRUE, TRUE)
haloArb_ReservesConfig == << Reserve("DAI", haloArb_strategyDAI),
    Reserve("USDC", haloArb_strategyUSDC), Reserve("USDT", haloArb_strategyUSDT),
    Reserve("WBTC", haloArb_strategyWBTC), Reserve("WETH", haloArb_strategyWETH),
    Reserve("XSGD", haloArb_strategyXSGD) >>
haloArb_ReserveAssets == [arbitrum |-> {"WETH", "USDC", "USDT"}, arbitrumRinkeby |-> {"DAI",
    "WETH", "USDC", "USDT"}]
haloArb_LendingRateOracleRatesCommon == {"WETH", "DAI", "USDC", "USDT", "WBTC"}
haloArb_ChainlinkAggregator == [arbitrum |-> {"USDC", "USDT", "USD"},
    arbitrumRinkeby |-> {"DAI", "USDC", "USDT", "USD", "WBTC"}]
haloArb_configured == [arbitrum |-> {"ProviderRegistry", "LendingRateOracle",
    "LendingPoolCollateralManager", "LendingPoolConfigurator", "LendingPool", "WethGateway",
    "AaveOracle"}, arbitrumRinkeby |-> {"ProviderRegistry", "LendingRateOracle",
    "LendingPoolCollateralManager", "LendingPoolConfigurator", "LendingPool", "WethGateway",
    "AaveOracle"}]

(* markets/halo-matic *)
haloMatic_rateStrategyStableTwo == RateStrategy("rateStrategyStableTwo", 80, 0, 4, 75, 2, 75)
haloMatic_rateStrategyStableThree == RateStrategy("rateStrategyStableThree", 90, 0, 4, 60, 2, 60)
haloMatic_rateStrategyVolatileTwo == RateStrategy("rateStrategyVolatileTwo", 65, 0, 8, 300, 10, 300)
haloMatic_rateStrategyWETH == RateStrategy("rateStrategyWETH", 65, 0, 8, 100, 10, 100)
haloMatic_rateStrategyAAVE == RateStrategy("rateStrategyAAVE", 45, 0, 0, 0, 0, 0)
haloMatic_strategyDAI == Strategy(haloMatic_rateStrategyStableTwo, "AToken", 7500, 8000, 10500, 1000, TRUE, FALSE)
haloMatic_strategyUSDC == Strategy(haloMatic_rateStrategyStableThree, "AToken", 8000, 8500, 10500, 1000, TRUE, FALSE)
haloMatic_strategyUSDT == Strategy(haloMatic_rateStrategyStableThree, "AToken", 0, 0, 0, 1000, TRUE, FALSE)
haloMatic_strategyWBTC == Strategy(haloMatic_rateStrategyVolatileTwo, "AToken", 7000, 7500, 11000, 2000, TRUE, FALSE)
haloMatic_strategyWETH == Strategy(haloMatic_rateStrategyWETH, "AToken", 8000, 8250, 10500, 1000, TRUE, FALSE)
haloMatic_strategyAAVE == Strategy(haloMatic_rateStrategyAAVE, "AToken", 5000, 6500, 11000, 0, FALSE, FALSE)
haloMatic_strategyXSGD == Strategy(haloMatic_rateStrategyStableThree, "AToken", 8000, 8500, 10500, 1000, TRUE, FALSE)
haloMatic_strategyFXPHP == Strategy(haloMatic_rateStrategyStableThree, "AToken", 8000, 8500, 10500, 1000, TRUE, FALSE)
haloMatic_strategyTAGPHP == Strategy(haloMatic_rateStrategyStableThree, "AToken", 8000, 8500, 10500, 1000, TRUE, FALSE)
haloMatic_strategyBPT_XSGD_USDC == Strategy(haloMatic_rateStrategyStableThree, "AToken", 8000, 8500, 10500, 1000, TRUE, TRUE)
haloMatic_ReservesConfig == << Reserve("DAI", haloMatic_strategyDAI),
    Reserve("USDC", haloMatic_strategyUSDC), Reserve("USDT", haloMatic_strategyUSDT),
    Reserve("WBTC", haloMatic_strategyWBTC), Reserve("WETH", haloMatic_strategyWETH),
    Reserve("AAVE", haloMatic_strategyAAVE), Reserve("XSGD", haloMatic_strategyXSGD),
    Reserve("FXPHP", haloMatic_strategyFXPHP), Reserve("TAGPHP", haloMatic_strategyTAGPHP),
    Reserve("BPT_XSGD_USDC", haloMatic_strategyBPT_XSGD_USDC) >>
haloMatic_ReserveAssets == [matic |-> {"DAI", "USDC", "USDT", "WBTC", "WETH", "WMATIC",
    "XSGD", "FXPHP", "TAGPHP", "BPT_XSGD_USDC"}]
haloMatic_LendingRateOracleRatesCommon == {"WETH", "DAI", "USDC", "USDT", "WBTC", "WMATIC",
    "AAVE"}
haloMatic_ChainlinkAggregator == [matic |-> {"AAVE", "DAI", "USDC", "USDT", "WBTC",
    "WMATIC", "USD", "FXPHP", "TAGPHP", "XSGD", "BPT_XSGD_USDC"}]
haloMatic_configured == [matic |-> {"ProviderRegistry", "LendingRateOracle",
    "LendingPoolCollateralManager", "LendingPoolConfigurator", "LendingPool", "WethGateway",
    "AaveOracle"}]

(* markets/xave-avax *)
xaveAvax_rateStrategyStableThree == RateStrategy("rateStrategyStableThree", 90, 0, 4, 60, 0, 0)
xaveAvax_strategyUSDC == Strategy(xaveAvax_rateStrategyStableThree, "AToken", 8000, 9000, 10500, 1000, TRUE, FALSE)
xaveAvax_strategyEURC == Strategy(xaveAvax_rateStrategyStableThree, "AToken", 8000, 9000, 10500, 1000, FALSE, FALSE)
xaveAvax_strategyVCHF == Strategy(xaveAvax_rateStrategyStableThree, "AToken", 8000, 9000, 10500, 1000, FALSE, FALSE)
xaveAvax_strategyVEUR == Strategy(xaveAvax_rateStrategyStableThree, "AToken", 8000, 9000, 10500, 1000, FALSE, FALSE)
xaveAvax_strategyLP_EURC_USDC == Strategy(xaveAvax_rateStrategyStableThree, "AToken", 8000, 8000, 10500, 1000, FALSE, FALSE)
xaveAvax_strategyLP_VEUR_USDC == Strategy(xaveAvax_rateStrategyStableThree, "AToken", 8000, 8000, 10500, 1000, FALSE, FALSE)
xaveAvax_strategyLP_VCHF_USDC == Strategy(xaveAvax_rateStrategyStableThree, "AToken", 8000, 8000, 10500, 1000, FALSE, FALSE)
xaveAvax_ReservesConfig == << Reserve("USDC", xaveAvax_strategyUSDC),
    Reserve("EURC", xaveAvax_strategyEURC), Reserve("VCHF", xaveAvax_strategyVCHF),
    Reserve("VEUR", xaveAvax_strategyVEUR),
    Reserve("LP-EURC-USDC", xaveAvax_strategyLP_EURC_USDC),
    Reserve("LP-VEUR-USDC", xaveAvax_strategyLP_VEUR_USDC),
    Reserve("LP-VCHF-USDC", xaveAvax_strategyLP_VCHF_USDC) >>
xaveAvax_ReserveAssets == [avalanche |-> {"USDC", "EURC", "VCHF", "VEUR", "LP-EURC-USDC",
    "LP-VEUR-USDC", "LP-VCHF-USDC"}]
xaveAvax_LendingRateOracleRatesCommon == {"USDC", "VCHF", "EURC", "VEUR", "LP-EURC-USDC",
    "LP-VEUR-USDC", "LP-VCHF-USDC"}
xaveAvax_ChainlinkAggregator == [avalanche |-> {"USDC", "VCHF", "EURC", "VEUR",
    "LP-EURC-USDC", "LP-VEUR-USDC", "LP-VCHF-USDC"}]
xaveAvax_configured == [avalanche |-> {}]

(* markets/xave-sepolia *)
xaveSepolia_rateStrategyStableThree == RateStrategy("rateStrategyStableThree", 90, 0, 4, 60, 0, 0)
xaveSepolia_strategyUSDC == Strategy(xaveSepolia_rateStrategyStableThree, "AToken", 8000, 9000, 10500, 1000, TRUE, FALSE)
xaveSepolia_strategyXSGD == Strategy(xaveSepolia_rateStrategyStableThree, "AToken", 8000, 9000, 10500, 1000, TRUE, FALSE)
xaveSepolia_strategyLP_XSGD_USDC == Strategy(xaveSepolia_rateStrategyStableThree, "AToken", 8000, 8000, 10500, 1000, FALSE, FALSE)
xaveSepolia_ReservesConfig == << Reserve("USDC", xaveSepolia_strategyUSDC),
    Reserve("XSGD", xaveSepolia_strategyXSGD),
    Reserve("LP_XSGD_USDC", xaveSepolia_strategyLP_XSGD_USDC) >>
xaveSepolia_ReserveAssets == [sepolia |-> {"USDC", "XSGD", "LP_XSGD_USDC"}]
xaveSepolia_LendingRateOracleRatesCommon == {"USDC", "XSGD", "LP_XSGD_USDC"}
xaveSepolia_ChainlinkAggregator == [sepolia |-> {"USDC", "XSGD", "LP_XSGD_USDC"}]
xaveSepolia_configured == [sepolia |-> {}]

(* The scripts of these markets take the administrators from the signers, not from here. *)
HaloMain == Market("Halo", 1, "ETH", halo_ReservesConfig, halo_ReserveAssets.main,
    halo_LendingRateOracleRatesCommon, halo_ChainlinkAggregator.main, halo_configured.main, <<0, 1>>)
HaloArb(network) == Market("HaloArb", 1, "ETH", haloArb_ReservesConfig,
    haloArb_ReserveAssets[network], haloArb_LendingRateOracleRatesCommon,
    haloArb_ChainlinkAggregator[network], haloArb_configured[network], <<0, 1>>)
HaloMatic == Market("HaloMatic", 3, "ETH", haloMatic_ReservesConfig, haloMatic_ReserveAssets.matic,
    haloMatic_LendingRateOracleRatesCommon, haloMatic_ChainlinkAggregator.matic,
    haloMatic_configured.matic, <<0, 0>>)
XaveAvalanche == Market("XaveAvalanche", 3, "ETH", xaveAvax_ReservesConfig,
    xaveAvax_ReserveAssets.avalanche, xaveAvax_LendingRateOracleRatesCommon,
    xaveAvax_ChainlinkAggregator.avalanche, xaveAvax_configured.avalanche, <<0, 0>>)
XaveSepolia == Market("XaveSepolia", 4, "ETH", xaveSepolia_ReservesConfig,
    xaveSepolia_ReserveAssets.sepolia, xaveSepolia_LendingRateOracleRatesCommon,
    xaveSepolia_ChainlinkAggregator.sepolia, xaveSepolia_configured.sepolia, <<0, 0>>)
============================================================
