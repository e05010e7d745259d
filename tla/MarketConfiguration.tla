------------------------ MODULE MarketConfiguration ------------------------
(***************************************************************************)
(* The vocabulary of the market configurations under markets/ and of the   *)
(* helpers that read them (helpers/types.ts, helpers/configuration.ts).    *)
(* An asset is named by its symbol: a symbol stands for one address on a   *)
(* network.  Risk parameters are in basis points, as in the configuration; *)
(* the rays of a rate strategy are in hundredths.                          *)
(***************************************************************************)
EXTENDS Integers, Sequences

(* An address is <<origin, contract id, count>>: origin "script" for the   *)
(* count-th contract of that id deployed by the scripts, or the name of    *)
(* the market whose configuration holds the address.                       *)
NoAddress == <<"none", "", 0>>
Account(name) == <<"account", name, 0>>
Configured(market, id) == <<market, id, 0>>

(* getEthersSigners lists the accounts of the node, getLedgerSigner is the *)
(* hardware wallet of the -ledger copies of the helpers.                   *)
Signer(index) == <<"account", "signer", index>>
LedgerSigner == Account("ledger")

RateStrategy(name, optimal, base, variable1, variable2, stable1, stable2) ==
    [name |-> name, optimalUtilizationRate |-> optimal, baseVariableBorrowRate |-> base,
     variableRateSlope1 |-> variable1, variableRateSlope2 |-> variable2,
     stableRateSlope1 |-> stable1, stableRateSlope2 |-> stable2]

(* baseLTVAsCollateral '-1' keeps a reserve out of configureReserves.      *)
NotCollateral == -1

Strategy(rateStrategy, aTokenImpl, ltv, threshold, bonus, factor, borrowing, stable) ==
    [strategy |-> rateStrategy, aTokenImpl |-> aTokenImpl, baseLTVAsCollateral |-> ltv,
     liquidationThreshold |-> threshold, liquidationBonus |-> bonus, reserveFactor |-> factor,
     borrowingEnabled |-> borrowing, stableBorrowRateEnabled |-> stable]

Reserve(symbol, params) == [asset |-> symbol, params |-> params]

(* A market on one network: what getParamPerNetwork picks for a script.    *)
(* admins is <<PoolAdminIndex, EmergencyAdminIndex>>, where the network    *)
(* has no PoolAdmin and EmergencyAdmin of its own.                         *)
Market(name, id, quote, reserves, assets, rates, aggregators, configured, admins) ==
    [name |-> name, ProviderId |-> id, OracleQuoteCurrency |-> quote,
     ReservesConfig |-> reserves, ReserveAssets |-> assets, rates |-> rates,
     ChainlinkAggregator |-> aggregators, configured |-> configured,
     poolAdmin |-> Signer(admins[1]), emergencyAdmin |-> Signer(admins[2])]

(* notFalsyOrZeroAddress(getParamPerNetwork(poolConfig[key], network)).    *)
HasConfigured(m, key) == key \in m.configured

(* The reserves of ReservesConfig that have an address on the network, in  *)
(* the order Object.entries gives them.                                    *)
ReservesOnNetwork(m) == SelectSeq(m.ReservesConfig, LAMBDA r : r.asset \in m.ReserveAssets)

(* getQuoteCurrency: the asset whose price the oracle does not look up; a  *)
(* USD quote is the UsdAddress, which is no reserve.                       *)
QuoteAsset(m) == IF m.OracleQuoteCurrency = "USD" THEN "USD" ELSE "WETH"

(* getLendingRateOracles: the market rates of the assets of the network.   *)
LendingRateOracles(m) == m.rates \intersect m.ReserveAssets
============================================================================
