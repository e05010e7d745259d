-------------------- MODULE MarketsAave --------------------
(***************************************************************************)
(* The markets deployed by the aave:mainnet, amm:mainnet, sidechain:mainnet *)
(* and avalanche:mainnet migrations, as markets/ configures them: for each  *)
(* the rate strategies and reserve strategies its ReservesConfig uses, the  *)
(* assets, market rates and price aggregators of its network, and which of  *)
(* the protocol's contracts it already has an address for.                  *)
(***************************************************************************)
EXTENDS MarketConfiguration

(* markets/aave *)
aave_rateStrategyAAVE == RateStrategy("rateStrategyAAVE", 45, 0, 0, 0, 0, 0)
aave_rateStrategyVolatileOne == RateStrategy("rateStrategyVolatileOne", 45, 0, 7, 300, 10, 300)
aave_rateStrategyStableOne == RateStrategy("rateStrategyStableOne", 80, 0, 4, 100, 0, 0)
aave_rateStrategyStableTwo == RateStrategy("rateStrategyStableTwo", 80, 0, 4, 75, 2, 75)
aave_rateStrategyVolatileTwo == RateStrategy("rateStrategyVolatileTwo", 65, 0, 8, 300, 10, 300)
aave_rateStrategyVolatileThree == RateStrategy("rateStrategyVolatileThree", 65, 0, 8, 300, 10, 300)
aave_rateStrategyStableThree == RateStrategy("rateStrategyStableThree", 90, 0, 4, 60, 2, 60)
aave_rateStrategyWETH == RateStrategy("rateStrategyWETH", 65, 0, 8, 100, 10, 100)
aave_rateStrategyVolatileFour == RateStrategy("rateStrategyVolatileFour", 45, 0, 7, 300, 0, 0)
aave_strategyAAVE == Strategy(aave_rateStrategyAAVE, "AToken", 5000, 6500, 11000, 0, FALSE, FALSE)
aave_strategyBAT == Strategy(aave_rateStrategyVolatileOne, "AToken", 7000, 7500, 11000, 2000, TRUE, TRUE)
aave_strategyBUSD == Strategy(aave_rateStrategyStableOne, "AToken", 0, 0, 0, 1000, TRUE, FALSE)
aave_strategyDAI == Strategy(aave_rateStrategyStableTwo, "AToken", 7500, 8000, 10500, 1000, TRUE, TRUE)
aave_strategyENJ == Strategy(aave_rateStrategyVolatileOne, "AToken", 5500, 6000, 11000, 2000, TRUE, TRUE)
aave_strategyKNC == Strategy(aave_rateStrategyVolatileTwo, "AToken", 6000, 6500, 11000, 2000, TRUE, TRUE)
aave_strategyLINK == Strategy(aave_rateStrategyVolatileOne, "AToken", 7000, 7500, 11000, 2000, TRUE, TRUE)
aave_strategyMANA == Strategy(aave_rateStrategyVolatileOne, "AToken", 6000, 6500, 11000, 3500, TRUE, TRUE)
aave_strategyMKR == Strategy(aave_rateStrategyVolatileOne, "AToken", 6000, 6500, 11000, 2000, TRUE, TRUE)
aave_strategyREN == Strategy(aave_rateStrategyVolatileOne, "AToken", 5500, 6000, 11000, 2000, TRUE, TRUE)
aave_strategySNX == Strategy(aave_rateStrategyVolatileThree, "AToken", 1500, 4000, 11000, 3500, TRUE, FALSE)
aave_strategySUSD == Strategy(aave_rateStrategyStableOne, "AToken", 0, 0, 0, 2000, TRUE, FALSE)
aave_strategyTUSD == Strategy(aave_rateStrategyStableTwo, "AToken", 7500, 8000, 10500, 1000, TRUE, TRUE)
aave_strategyUNI == Strategy(aave_rateStrategyVolatileThree, "DelegationAwareAToken", 6000, 6500, 11000, 2000, FALSE, FALSE)
aave_strategyUSDC == Strategy(aave_rateStrategyStableThree, "AToken", 8000, 8500, 10500, 1000, TRUE, TRUE)
aave_strategyUSDT == Strategy(aave_rateStrategyStableThree, "AToken", 0, 0, 0, 1000, TRUE, TRUE)
aave_strategyWBTC == Strategy(aave_rateStrategyVolatileTwo, "AToken", 7000, 7500, 11000, 2000, TRUE, TRUE)
aave_strategyWETH == Strategy(aave_rateStrategyWETH, "AToken", 8000, 8250, 10500, 1000, TRUE, TRUE)
aave_strategyYFI == Strategy(aave_rateStrategyVolatileOne, "AToken", 4000, 5500, 11500, 2000, TRUE, TRUE)
aave_strategyZRX == Strategy(aave_rateStrategyVolatileOne, "AToken", 6000, 6500, 11000, 2000, TRUE, TRUE)
aave_strategyXSUSHI == Strategy(aave_rateStrategyVolatileFour, "AToken", 2500, 4500, 11500, 3500, TRUE, FALSE)
aave_strategyXSGD == Strategy(aave_rateStrategyStableThree, "AToken", 8000, 8500, 10500, 1000, TRUE, TRUE)
aave_strategyTHKD == Strategy(aave_rateStrategyStableThree, "AToken", 8000, 8500, 10500, 1000, TRUE, TRUE)
aave_ReservesConfig == << Reserve("AAVE", aave_strategyAAVE),
    Reserve("BAT", aave_strategyBAT), Reserve("BUSD", aave_strategyBUSD),
    Reserve("DAI", aave_strategyDAI), Reserve("ENJ", aave_strategyENJ),
    Reserve("KNC", aave_strategyKNC), Reserve("LINK", aave_strategyLINK),
    Reserve("MANA", aave_strategyMANA), Reserve("MKR", aave_strategyMKR),
    Reserve("REN", aave_strategyREN), Reserve("SNX", aave_strategySNX),
    Reserve("SUSD", aave_strategySUSD), Reserve("TUSD", aave_strategyTUSD),
    Reserve("UNI", aave_strategyUNI), Reserve("USDC", aave_strategyUSDC),
    Reserve("USDT", aave_strategyUSDT), Reserve("WBTC", aave_strategyWBTC),
    Reserve("WETH", aave_strategyWETH), Reserve("YFI", aave_strategyYFI),
    Reserve("ZRX", aave_strategyZRX), Reserve("xSUSHI", aave_strategyXSUSHI),
    Reserve("XSGD", aave_strategyXSGD), Reserve("THKD", aave_strategyTHKD) >>
aave_ReserveAssets == [main |-> {"AAVE", "BAT", "BUSD", "DAI", "ENJ", "KNC", "LINK", "MANA",
    "MKR", "REN", "SNX", "SUSD", "TUSD", "UNI", "USDC", "USDT", "WBTC", "WETH", "YFI",
    "ZRX", "xSUSHI"}]
aave_LendingRateOracleRatesCommon == {"WETH", "DAI", "TUSD", "USDC", "SUSD", "USDT", "BAT",
    "AAVE", "LINK", "KNC", "MKR", "MANA", "WBTC", "ZRX", "SNX", "YFI", "REN", "UNI", "ENJ",
    "BUSD", "XSGD"}
aave_ChainlinkAggregator == [main |-> {"AAVE", "BAT", "BUSD", "DAI", "ENJ", "KNC", "LINK",
    "MANA", "MKR", "REN", "SNX", "SUSD", "TUSD", "UNI", "USDC", "USDT", "WBTC", "YFI",
    "ZRX", "USD", "xSUSHI"}]
aave_configured == [main |-> {"ProviderRegistry", "LendingPoolCollateralManager"}]

(* markets/amm *)
amm_rateStrategyBaseOne == RateStrategy("rateStrategyBaseOne", 65, 0, 8, 100, 10, 100)
amm_rateStrategyStable == RateStrategy("rateStrategyStable", 80, 0, 4, 75, 2, 60)
amm_rateStrategyAmmBase == RateStrategy("rateStrategyAmmBase", 45, 3, 10, 300, 10, 300)
amm_strategyWETH == Strategy(amm_rateStrategyBaseOne, "AToken", 8000, 8250, 10500, 1000, TRUE, FALSE)
amm_strategyDAI == Strategy(amm_rateStrategyStable, "AToken", 7500, 8000, 10500, 1000, TRUE, FALSE)
amm_strategyUSDC == Strategy(amm_rateStrategyStable, "AToken", 8000, 8500, 10500, 1000, TRUE, FALSE)
amm_strategyUSDT == Strategy(amm_rateStrategyStable, "AToken", NotCollateral, 8500, 10500, 1000, TRUE, FALSE)
amm_strategyWBTC == Strategy(amm_rateStrategyBaseOne, "AToken", 7000, 7500, 11000, 2000, TRUE, FALSE)
amm_strategyDAIWETH == Strategy(amm_rateStrategyAmmBase, "AToken", 6000, 7000, 11500, 1000, TRUE, FALSE)
amm_strategyWBTCWETH == Strategy(amm_rateStrategyAmmBase, "AToken", 6000, 7000, 11500, 1500, TRUE, FALSE)
amm_strategyAAVEWETH == Strategy(amm_rateStrategyAmmBase, "AToken", 6000, 7000, 11500, 500, TRUE, FALSE)
amm_strategyBATWETH == Strategy(amm_rateStrategyAmmBase, "AToken", 6000, 7000, 11500, 1500, TRUE, FALSE)
amm_strategyDAIUSDC == Strategy(amm_rateStrategyAmmBase, "AToken", 6000, 7000, 11500, 1000, TRUE, FALSE)
amm_strategyCRVWETH == Strategy(amm_rateStrategyAmmBase, "AToken", 5000, 6000, 11500, 1500, TRUE, FALSE)
amm_strategyLINKWETH == Strategy(amm_rateStrategyAmmBase, "AToken", 6000, 7000, 11500, 1500, TRUE, FALSE)
amm_strategyMKRWETH == Strategy(amm_rateStrategyAmmBase, "AToken", 6000, 7000, 11500, 1500, TRUE, FALSE)
amm_strategyRENWETH == Strategy(amm_rateStrategyAmmBase, "AToken", 6000, 7000, 11500, 1500, TRUE, FALSE)
amm_strategySNXWETH == Strategy(amm_rateStrategyAmmBase, "AToken", 4000, 6000, 11500, 2000, TRUE, FALSE)
amm_strategyUNIWETH == Strategy(amm_rateStrategyAmmBase, "AToken", 6000, 7000, 11500, 1500, TRUE, FALSE)
amm_strategyUSDCWETH == Strategy(amm_rateStrategyAmmBase, "AToken", 6000, 7000, 11500, 1000, TRUE, FALSE)
amm_strategyWBTCUSDC == Strategy(amm_rateStrategyAmmBase, "AToken", 6000, 7000, 11500, 1500, TRUE, FALSE)
amm_strategyYFIWETH == Strategy(amm_rateStrategyAmmBase, "AToken", 5000, 6000, 11500, 1500, TRUE, FALSE)
amm_strategyBALWETH == Strategy(amm_rateStrategyAmmBase, "AToken", 6000, 7000, 11500, 1500, TRUE, FALSE)
amm_ReservesConfig == << Reserve("WETH", amm_strategyWETH), Reserve("DAI", amm_strategyDAI),
    Reserve("USDC", amm_strategyUSDC), Reserve("USDT", amm_strategyUSDT),
    Reserve("WBTC", amm_strategyWBTC), Reserve("UniDAIWETH", amm_strategyDAIWETH),
    Reserve("UniWBTCWETH", amm_strategyWBTCWETH),
    Reserve("UniAAVEWETH", amm_strategyAAVEWETH),
    Reserve("UniBATWETH", amm_strategyBATWETH), Reserve("UniDAIUSDC", amm_strategyDAIUSDC),
    Reserve("UniCRVWETH", amm_strategyCRVWETH),
    Reserve("UniLINKWETH", amm_strategyLINKWETH),
    Reserve("UniMKRWETH", amm_strategyMKRWETH), Reserve("UniRENWETH", amm_strategyRENWETH),
    Reserve("UniSNXWETH", amm_strategySNXWETH), Reserve("UniUNIWETH", amm_strategyUNIWETH),
    Reserve("UniUSDCWETH", amm_strategyUSDCWETH),
    Reserve("UniWBTCUSDC", amm_strategyWBTCUSDC),
    Reserve("UniYFIWETH", amm_strategyYFIWETH),
    Reserve("BptWBTCWETH", amm_strategyWBTCWETH),
    Reserve("BptBALWETH", amm_strategyBALWETH) >>
amm_ReserveAssets == [main |-> {"DAI", "USDC", "USDT", "WBTC", "WETH", "UniDAIWETH",
    "UniWBTCWETH", "UniAAVEWETH", "UniBATWETH", "UniDAIUSDC", "UniCRVWETH", "UniLINKWETH",
    "UniMKRWETH", "UniRENWETH", "UniSNXWETH", "UniUNIWETH", "UniUSDCWETH", "UniWBTCUSDC",
    "UniYFIWETH", "BptWBTCWETH", "BptBALWETH"}]
amm_LendingRateOracleRatesCommon == {"WETH", "DAI", "USDC", "USDT", "WBTC", "UniDAIWETH",
    "UniWBTCWETH", "UniAAVEWETH", "UniBATWETH", "UniDAIUSDC", "UniCRVWETH", "UniLINKWETH",
    "UniMKRWETH", "UniRENWETH", "UniSNXWETH", "UniUNIWETH", "UniUSDCWETH", "UniWBTCUSDC",
    "UniYFIWETH", "BptWBTCWETH", "BptBALWETH"}
amm_ChainlinkAggregator == [main |-> {"USDT", "WBTC", "USDC", "DAI", "UniDAIWETH",
    "UniWBTCWETH", "UniAAVEWETH", "UniBATWETH", "UniDAIUSDC", "UniCRVWETH", "UniLINKWETH",
    "UniMKRWETH", "UniRENWETH", "UniSNXWETH", "UniUNIWETH", "UniUSDCWETH", "UniWBTCUSDC",
    "UniYFIWETH", "BptWBTCWETH", "BptBALWETH", "USD"}]
amm_configured == [main |-> {"ProviderRegistry", "LendingPoolCollateralManager"}]

(* markets/matic *)
matic_rateStrategyStableTwo == RateStrategy("rateStrategyStableTwo", 80, 0, 4, 75, 2, 75)
matic_rateStrategyStableThree == RateStrategy("rateStrategyStableThree", 90, 0, 4, 60, 2, 60)
matic_rateStrategyVolatileTwo == RateStrategy("rateStrategyVolatileTwo", 65, 0, 8, 300, 10, 300)
matic_rateStrategyWETH == RateStrategy("rateStrategyWETH", 65, 0, 8, 100, 10, 100)
matic_rateStrategyAAVE == RateStrategy("rateStrategyAAVE", 45, 0, 0, 0, 0, 0)
matic_strategyDAI == Strategy(matic_rateStrategyStableTwo, "AToken", 7500, 8000, 10500, 1000, TRUE, FALSE)
matic_strategyUSDC == Strategy(matic_rateStrategyStableThree, "AToken", 8000, 8500, 10500, 1000, TRUE, FALSE)
matic_strategyUSDT == Strategy(matic_rateStrategyStableThree, "AToken", 0, 0, 0, 1000, TRUE, FALSE)
matic_strategyWBTC == Strategy(matic_rateStrategyVolatileTwo, "AToken", 7000, 7500, 11000, 2000, TRUE, FALSE)
matic_strategyWETH == Strategy(matic_rateStrategyWETH, "AToken", 8000, 8250, 10500, 1000, TRUE, FALSE)
matic_strategyAAVE == Strategy(matic_rateStrategyAAVE, "AToken", 5000, 6500, 11000, 0, FALSE, FALSE)
matic_ReservesConfig == << Reserve("DAI", matic_strategyDAI),
    Reserve("USDC", matic_strategyUSDC), Reserve("USDT", matic_strategyUSDT),
    Reserve("WBTC", matic_strategyWBTC), Reserve("WETH", matic_strategyWETH),
    Reserve("AAVE", matic_strategyAAVE) >>
matic_ReserveAssets == [matic |-> {"DAI", "USDC", "USDT", "WBTC", "WETH", "WMATIC", "AAVE"}]
matic_LendingRateOracleRatesCommon == {"WETH", "DAI", "USDC", "USDT", "WBTC", "WMATIC",
    "AAVE"}
matic_ChainlinkAggregator == [matic |-> {"AAVE", "DAI", "USDC", "USDT", "WBTC", "WMATIC",
    "USD"}]
matic_configured == [matic |-> {"ProviderRegistry", "LendingRateOracle",
    "LendingPoolCollateralManager"}]

(* markets/avalanche *)
avalanche_rateStrategyVolatileOne == RateStrategy("rateStrategyVolatileOne", 45, 0, 7, 300, 0, 0)
avalanche_rateStrategyStableOne == RateStrategy("rateStrategyStableOne", 80, 0, 4, 75, 2, 75)
avalanche_strategyWETH == Strategy(avalanche_rateStrategyVolatileOne, "AToken", 8000, 8250, 10500, 1000, TRUE, FALSE)
avalanche_strategyDAI == Strategy(avalanche_rateStrategyStableOne, "AToken", 7500, 8000, 10500, 1000, TRUE, FALSE)
avalanche_strategyUSDT == Strategy(avalanche_rateStrategyStableOne, "AToken", 0, 0, 0, 1000, TRUE, FALSE)
avalanche_strategyUSDC == Strategy(avalanche_rateStrategyStableOne, "AToken", 7500, 8000, 10500, 1000, TRUE, FALSE)
avalanche_strategyAAVE == Strategy(avalanche_rateStrategyVolatileOne, "AToken", 4000, 6500, 11000, 2000, FALSE, FALSE)
avalanche_strategyWBTC == Strategy(avalanche_rateStrategyVolatileOne, "AToken", 6000, 7500, 10500, 1000, TRUE, FALSE)
avalanche_strategyWAVAX == Strategy(avalanche_rateStrategyVolatileOne, "AToken", 5000, 6500, 11000, 1500, TRUE, FALSE)
avalanche_ReservesConfig == << Reserve("WETH", avalanche_strategyWETH),
    Reserve("DAI", avalanche_strategyDAI), Reserve("USDT", avalanche_strategyUSDT),
    Reserve("USDC", avalanche_strategyUSDC), Reserve("AAVE", avalanche_strategyAAVE),
    Reserve("WBTC", avalanche_strategyWBTC), Reserve("WAVAX", avalanche_strategyWAVAX) >>
avalanche_ReserveAssets == [avalanche |-> {"WETH", "DAI", "USDT", "USDC", "AAVE", "WBTC",
    "WAVAX"}]
avalanche_LendingRateOracleRatesCommon == {"WETH", "DAI", "USDC", "USDT", "AAVE", "WBTC",
    "WAVAX"}
avalanche_ChainlinkAggregator == [avalanche |-> {"WETH", "DAI", "USDC", "USDT", "AAVE",
    "WBTC", "WAVAX"}]
avalanche_configured == [avalanche |-> {}]

AaveMain == Market("Aave", 1, "ETH", aave_ReservesConfig, aave_ReserveAssets.main,
    aave_LendingRateOracleRatesCommon, aave_ChainlinkAggregator.main, aave_configured.main, <<0, 1>>)
AmmMain == Market("Amm", 2, "ETH", amm_ReservesConfig, amm_ReserveAssets.main,
    amm_LendingRateOracleRatesCommon, amm_ChainlinkAggregator.main, amm_configured.main, <<0, 1>>)
MaticMatic == Market("Matic", 3, "ETH", matic_ReservesConfig, matic_ReserveAssets.matic,
    matic_LendingRateOracleRatesCommon, matic_ChainlinkAggregator.matic, matic_configured.matic, <<0, 0>>)
AvalancheAvalanche == Market("Avalanche", 4, "USD", avalanche_ReservesConfig,
    avalanche_ReserveAssets.avalanche, avalanche_LendingRateOracleRatesCommon,
    avalanche_ChainlinkAggregator.avalanche, avalanche_configured.avalanche, <<0, 0>>)
============================================================
