------------------------ MODULE DeploymentProperties ------------------------
(***************************************************************************)
(* What must hold of the markets that the deployment scripts leave behind. *)
(***************************************************************************)
EXTENDS Deployment

CONSTANTS
    Asset,        \* every asset some market lists or prices
    Deployable    \* the jobs whose configuration lets them run to the end

Markets == OfKind("LendingPoolAddressesProvider")
Provided(p, id) == contracts[p].ref[id]
Reserves(p) ==
    IF Provided(p, "LendingPool") = NoAddress THEN << >> ELSE contracts[Provided(p, "LendingPool")].reserves
PricedAssets(p) ==
    IF Provided(p, "PriceOracle") = NoAddress THEN {} ELSE contracts[Provided(p, "PriceOracle")].data
----------------------------------------------------------------------------
(* What a job asks of a reserve: its own rate strategy, and its parameters *)
(* unless it is not to be collateral.                                      *)
IsAsConfigured(reserve, p) ==
    /\ contracts[reserve.strategy].data = {p.strategy}
    /\ reserve = IF p.baseLTVAsCollateral = NotCollateral
                 THEN UnconfiguredReserve(reserve.strategy)
                 ELSE Configure(UnconfiguredReserve(reserve.strategy), p)

(* Scripts that ran to the end, whatever was stopped, reverted and resumed *)
(* before, leave a market with all its parts: the provider is the          *)
(* operator's and has the administrators of the configuration, the         *)
(* database has the proxies of this market and not an implementation or    *)
(* another market's, the rate oracle, unless it was there before, is back  *)
(* with the pool administrator, exactly the reserves of the network are    *)
(* listed and each one is configured as its strategy says, with the        *)
(* interest rates of its own strategy, and a gateway of this deployment    *)
(* knows the pool.                                                         *)
CompletedMarketIsSound ==
    run.status = "done" =>
        LET pool == Provided(Provider, "LendingPool")
            listed == ReservesOnNetwork(job.market)
        IN /\ contracts[Provider].owner = job.signer
           /\ \A id \in ProxyIds :
                  db[id] = Provided(Provider, id) /\ contracts[db[id]].kind = id
           /\ Provided(Provider, "PoolAdmin") = job.poolAdmin
           /\ Provided(Provider, "EmergencyAdmin") = job.emergencyAdmin
           /\ Provided(Provider, "LendingRateOracle") # NoAddress
           /\ \A o \in OfKind("LendingRateOracle") :
                  o = Provided(Provider, "LendingRateOracle") => contracts[o].owner = job.poolAdmin
           /\ Provided(Provider, "LendingPoolCollateralManager") # NoAddress
           /\ DOMAIN Reserves(Provider) = {listed[i].asset : i \in DOMAIN listed}
           /\ \A i \in DOMAIN listed :
                  IsAsConfigured(Reserves(Provider)[listed[i].asset], listed[i].params)
           /\ \E g \in OfKind("WETHGateway") : pool \in contracts[g].data
           /\ contracts[pool].paused = job.paused

(* At every moment, so wherever a script is stopped, no one but the owner  *)
(* of a market can act with its roles: its pool administrator is an        *)
(* account, or the helper contract of that very market, which takes orders *)
(* from the owner of the provider only; and what owns its rate oracle is   *)
(* an account, or a helper of the same owner that can give it back.        *)
AdministratorsBelongToTheMarket ==
    \A p \in Markets :
        LET admin == Provided(p, "PoolAdmin")
            rates == Provided(p, "LendingRateOracle")
        IN /\ admin \in OfKind("ATokensAndRatesHelper") =>
                  /\ contracts[admin].owner = contracts[p].owner
                  /\ contracts[admin].ref["configurator"] = Provided(p, "LendingPoolConfigurator")
           /\ admin \in DOMAIN contracts => admin \in OfKind("ATokensAndRatesHelper")
           /\ rates \in DOMAIN contracts =>
                  LET owner == contracts[rates].owner
                  IN /\ owner # NoAddress
                     /\ owner \in DOMAIN contracts =>
                            /\ contracts[owner].kind = "StableAndVariableTokensHelper"
                            /\ contracts[owner].owner = contracts[p].owner

(* Deploying a market, or deploying it once more, changes nothing of what  *)
(* was on the network before: the JSON database, which has one address for *)
(* each contract id, never sends a transaction of a new market to a        *)
(* contract of an earlier one.  Only the registry is shared.               *)
EarlierContractsUntouched ==
    [][\A a \in run.before :
          contracts[a].kind # "LendingPoolAddressesProviderRegistry" => contracts'[a] = contracts[a]]_vars

(* A contract stays what it is, a provider keeps the proxy it once had,    *)
(* and a reserve that was listed stays listed: users' funds are behind     *)
(* them.                                                                   *)
KeepsWiring ==
    /\ DOMAIN contracts \subseteq DOMAIN contracts'
    /\ \A a \in DOMAIN contracts :
           /\ contracts'[a].kind = contracts[a].kind
           /\ contracts[a].kind = "LendingPoolAddressesProvider" =>
                  \A id \in ProxyIds :
                      contracts[a].ref[id] # NoAddress => contracts'[a].ref[id] = contracts[a].ref[id]
           /\ contracts[a].kind = "LendingPool" =>
                  DOMAIN contracts[a].reserves \subseteq DOMAIN contracts'[a].reserves

WiringIsPermanent == [][KeepsWiring]_vars

(* Running every task of a market from the first ends with the market      *)
(* deployed, whatever earlier runs left on the network and in the          *)
(* database, unless it is stopped.                                         *)
WholeRunCompletes ==
    (run.status = "running" /\ run.whole /\ run.jobs[1] \in Deployable)
        ~> run.status \in {"done", "stopped"}
----------------------------------------------------------------------------
(* Each address provider as a market of MarketLifecycle.                   *)
MarketOf(p) ==
    [pool |-> Provided(p, "LendingPool") # NoAddress,
     priced |-> PricedAssets(p),
     listed |-> DOMAIN Reserves(p),
     enabled |-> {a \in DOMAIN Reserves(p) : Reserves(p)[a].threshold # 0},
     paused |-> Provided(p, "LendingPool") # NoAddress /\ contracts[Provided(p, "LendingPool")].paused]

Lifecycle == INSTANCE MarketLifecycle WITH market <- [p \in Markets |-> MarketOf(p)]

(* The scripts implement the lifecycle of a market.                        *)
MarketsFollowLifecycle == Lifecycle!Spec

(* AaveOracle gets "the price of an asset from a price source, with        *)
(* Chainlink Aggregator smart contracts as primary option"                 *)
(* (contracts/misc/AaveOracle.sol): every listed reserve has a source.     *)
ListedReservesArePriced == Lifecycle!ListedArePriced
----------------------------------------------------------------------------
(* What MarketsFollowLifecycle asks of the scripts, beside their order.    *)

(* What a job lists, and what a contract it deploys is given prices for.   *)
Listings(tasks) == {s.reserve : s \in {e \in Earlier(tasks, Len(tasks) + 1, 1) : e.op = "InitReserve"}}
SetsPrices(s, id) == s.op = "SetPrices" /\ s.oracle.from = "db" /\ s.oracle.id = id
PricesLeft(steps, id) ==
    UNION ({s.data : s \in {e \in steps : e.op = "Deploy" /\ e.id = id}}
             \union {s.assets : s \in {e \in steps : SetsPrices(e, id)}})

(* Contracts with data of their own are deployed under their own names.    *)
Oracles == {"AaveOracle", "PriceOracle"}
Named == Oracles \union {"WETHGateway", "LendingPoolAddressesProviderRegistry"}

(* An oracle is deployed once, after its provider, and has a price for all *)
(* that the job lists before the provider gets it, as the provider does    *)
(* before anything is listed.                                              *)
IsPricedStep(tasks, t, k) ==
    LET s == tasks[t][k]
        done == Earlier(tasks, t, k)
    IN \/ Have(done, "Throw")
       \/ /\ s.op = "Deploy" =>
                 /\ s.kind \notin ProxyIds
                 /\ s.id \in Named \/ s.kind \in Named => s.kind = s.id
                 /\ s.kind = "LendingPoolAddressesProvider" =>
                        "PriceOracle" \in DOMAIN s.ref /\ s.ref["PriceOracle"] = s.ref["LendingPool"]
                 /\ s.id = "LendingPoolAddressesProvider" => \A o \in Oracles : ~HaveFor(done, "Deploy", o)
                 /\ s.id \in Oracles => /\ s.data \subseteq Asset
                                        /\ HaveFor(done, "Deploy", "LendingPoolAddressesProvider")
                                        /\ ~HaveFor(done, "Deploy", s.id)
                                        /\ \A e \in done : ~SetsPrices(e, s.id)
          /\ s.op = "SetAddress" /\ s.id = "PriceOracle" =>
                 /\ s.value.from = "db" /\ s.value.id \in Oracles
                 /\ HaveFor(done, "Deploy", s.value.id)
                 /\ Listings(tasks) \subseteq PricesLeft(done, s.value.id)
          /\ s.op = "SetPrices" =>
                 /\ s.assets \subseteq Asset
                 /\ s.oracle.from = "db" /\ s.oracle.id \in Oracles
          /\ s.op = "InitReserve" => HaveFor(done, "SetAddress", "PriceOracle")
          /\ s.op = "Register" =>
                 s.registry.from = "configuration" \/ s.registry.id = "LendingPoolAddressesProviderRegistry"
          /\ s.op = "AuthorizeLendingPool" => s.gateway.from # "db" \/ s.gateway.id = "WETHGateway"

PricedScripts ==
    \A s \in Scenarios : \A i \in DOMAIN s :
        LET tasks == Jobs[s[i]].tasks
        IN \A t \in DOMAIN tasks : \A k \in DOMAIN tasks[t] : IsPricedStep(tasks, t, k)
=============================================================================
