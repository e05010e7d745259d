---------------------------- MODULE MCDeployment ----------------------------
(***************************************************************************)
(* The markets of the repository, deployed by their own scripts.           *)
(***************************************************************************)
EXTENDS DeploymentProperties, MarketsAave, MarketsHalo

Tasks == INSTANCE MarketTasks

(* TokenContractId and HaloTokenContractId of helpers/types.ts.            *)
TokenContractId ==
    {"DAI", "AAVE", "TUSD", "BAT", "WETH", "USDC", "USDT", "SUSD", "ZRX", "MKR", "WBTC", "LINK", "KNC",
     "MANA", "REN", "SNX", "BUSD", "USD", "YFI", "UNI", "ENJ", "UniDAIWETH", "UniWBTCWETH", "UniAAVEWETH",
     "UniBATWETH", "UniDAIUSDC", "UniCRVWETH", "UniLINKWETH", "UniMKRWETH", "UniRENWETH", "UniSNXWETH",
     "UniUNIWETH", "UniUSDCWETH", "UniWBTCUSDC", "UniYFIWETH", "BptWBTCWETH", "BptBALWETH", "WMATIC",
     "STAKE", "xSUSHI", "WAVAX", "XSGD", "THKD", "RNBW"}
HaloTokenContractId == {"DAI", "WETH", "USDC", "USDT", "WBTC", "USD", "XSGD", "RNBW"}

(* A market on a test network: its tokens are the mocks, and nothing of it *)
(* is deployed before.                                                     *)
OnMockTokens(m, tokens) == [m EXCEPT !.ReserveAssets = tokens, !.configured = {}]
AaveDev == OnMockTokens(AaveMain, TokenContractId)
HaloDev == OnMockTokens(HaloMain, HaloTokenContractId)

(* The full tasks take the administrators from the configuration and leave *)
(* the market paused.                                                      *)
FullJob(m, tasks) ==
    [market |-> m, signer |-> Signer(0), poolAdmin |-> m.poolAdmin,
     emergencyAdmin |-> m.emergencyAdmin, paused |-> TRUE, tasks |-> tasks]
OpenJob(m, signer, tasks) ==
    [market |-> m, signer |-> signer, poolAdmin |-> signer,
     emergencyAdmin |-> signer, paused |-> FALSE, tasks |-> tasks]

JobTable ==
    [Aave |-> FullJob(AaveMain, Tasks!AaveMainnet(AaveMain, FALSE)),
     Amm |-> FullJob(AmmMain, Tasks!AmmMainnet(AmmMain, TRUE)),
     Matic |-> FullJob(MaticMatic, Tasks!SidechainMainnet(MaticMatic, TRUE)),
     Avalanche |-> FullJob(AvalancheAvalanche, Tasks!AvalancheMainnet(AvalancheAvalanche, FALSE)),
     AaveDev |-> OpenJob(AaveDev, Signer(0), Tasks!AaveDevMigration(AaveDev, TokenContractId)),
     HaloDev |-> OpenJob(HaloDev, Signer(0), Tasks!HaloDevMigration(HaloDev, HaloTokenContractId)),
     Halo |-> OpenJob(HaloMain, Signer(0), Tasks!HaloTasks(HaloMain)),
     HaloArb |-> OpenJob(HaloArb("arbitrum"), Signer(0), Tasks!HaloArbTasks(HaloArb("arbitrum"))),
     HaloArbDev |-> OpenJob(HaloArb("arbitrumRinkeby"), Signer(0),
                            Tasks!HaloArbDevMigration(HaloArb("arbitrumRinkeby"), HaloTokenContractId)),
     HaloMatic |-> OpenJob(HaloMatic, Signer(0), Tasks!HaloMaticTasks(HaloMatic)),
     XaveAvalanche |-> OpenJob(XaveAvalanche, LedgerSigner, Tasks!XaveAvalancheTasks(XaveAvalanche)),
     XaveSepolia |-> OpenJob(XaveSepolia, LedgerSigner, Tasks!XaveSepoliaTasks(XaveSepolia))]

(* A LET, for TLC to look the table up instead of building it again.       *)
MCJobs == LET table == JobTable IN table

MCScenarios == { <<"Aave">>, <<"Amm">>, <<"Aave", "Amm">>, <<"Matic">>, <<"HaloMatic">>, <<"Matic", "HaloMatic">>,
                 <<"Avalanche">>, <<"AaveDev">>, <<"HaloDev">>, <<"Halo">>, <<"HaloArb">>, <<"XaveAvalanche">>, <<"XaveSepolia">> }
(* Halo has reserves without an aggregator, xave-avalanche misspells       *)
(* ConfigNames, and neither it nor xave-sepolia has an aggregator for USD. *)
MCDeployable ==
    LET undeployable == {"Halo", "XaveAvalanche", "XaveSepolia"}
    IN DOMAIN JobTable \ undeployable

AssetTable ==
    LET markets == {JobTable[j].market : j \in DOMAIN JobTable}
        reserves == UNION {{m.ReservesConfig[i].asset : i \in DOMAIN m.ReservesConfig} : m \in markets}
    IN reserves \union UNION {m.ReserveAssets : m \in markets} \union {"USD", "WETH"}
MCAsset == LET table == AssetTable IN table

(* The scripts of all scenarios price what they list before they list it.  *)
ASSUME ScriptsArePriced == PricedScripts
=============================================================================
