--------------------------- MODULE LifecycleProofs ---------------------------
(***************************************************************************)
(* The scripts implement the lifecycle of a market: every step they take,  *)
(* wherever they are stopped, resumed or started over, is one step of one  *)
(* market of MarketLifecycle or changes nothing of any.  LInv adds to the  *)
(* invariant MInv what the refinement needs: each oracle is one            *)
(* provider's, what a step has left of prices and names is still there     *)
(* when a later step relies on it, and what is listed has a price.         *)
(***************************************************************************)
EXTENDS DeploymentProofs

\* The markets as MarketLifecycle shows them.
Shown == [p \in Markets |-> MarketOf(p)]

IsPool(c) ==
    /\ c.kind = "LendingPool" /\ "paused" \in DOMAIN c
    /\ \A a \in DOMAIN c.reserves : "threshold" \in DOMAIN c.reserves[a]

\* A provider's pool knows the provider, and its configurator the provider and the pool.
PoolFits(p, pool) == pool \in DOMAIN contracts /\ IsPool(contracts[pool]) /\ contracts[pool].ref["provider"] = p
ConfiguratorFits(p, c) ==
    /\ c \in DOMAIN contracts /\ contracts[c].kind = "LendingPoolConfigurator"
    /\ contracts[c].ref["provider"] = p
    /\ PoolOf(c) = contracts[p].ref["LendingPool"] /\ PoolOf(c) # NoAddress
OracleFits(o) == o \in DOMAIN contracts /\ contracts[o].kind \in Oracles

ProvidersOK ==
    \A p \in Markets :
        /\ "PriceOracle" \in DOMAIN contracts[p].ref
        /\ contracts[p].ref["LendingPool"] # NoAddress => PoolFits(p, contracts[p].ref["LendingPool"])
        /\ contracts[p].ref["LendingPoolConfigurator"] # NoAddress =>
               ConfiguratorFits(p, contracts[p].ref["LendingPoolConfigurator"])

\* An oracle is one provider's, and has prices of assets.
OraclesOK ==
    /\ \A p \in Markets : contracts[p].ref["PriceOracle"] # NoAddress => OracleFits(contracts[p].ref["PriceOracle"])
    /\ \A p, q \in Markets :
           contracts[p].ref["PriceOracle"] = contracts[q].ref["PriceOracle"] =>
               p = q \/ contracts[p].ref["PriceOracle"] = NoAddress
    /\ \A o \in DOMAIN contracts : contracts[o].kind \in Oracles => contracts[o].data \subseteq Asset

\* What is listed has a price, and in a market of this job it is the job's.
PricedOK == \A p \in Markets : DOMAIN Reserves(p) \subseteq PricedAssets(p)
ListedFits(p) ==
    \A a \in DOMAIN Reserves(p) :
        /\ a \in Listings(job.tasks)
        /\ Reserves(p)[a].threshold \in {0, Params(a).liquidationThreshold}
ListedOK == \A p \in Markets : New(p) => ListedFits(p)

\* What the steps that are done have left of prices and names.
NamedOK(id) == id \in DOMAIN db /\ New(db[id]) /\ contracts[db[id]].kind = id
PricesSet(id, assets) == NamedOK(id) /\ assets \subseteq contracts[db[id]].data
OnlyProviderAsks(id) ==
    ProviderOK /\ \A p \in Markets : contracts[p].ref["PriceOracle"] = db[id] => p = Provider
PricedForJob ==
    /\ ProviderOK /\ contracts[Provider].ref["PriceOracle"] # NoAddress
    /\ Listings(job.tasks) \subseteq PricedAssets(Provider)
ConfiguratorSaved ==
    /\ ProviderOK /\ "LendingPoolConfigurator" \in DOMAIN db /\ db["LendingPoolConfigurator"] # NoAddress
    /\ db["LendingPoolConfigurator"] = contracts[Provider].ref["LendingPoolConfigurator"]

Leaves(s) ==
    /\ s.op = "Deploy" /\ s.id \in Named => NamedOK(s.id)
    /\ s.op = "Deploy" /\ s.id \in Oracles => PricesSet(s.id, s.data) /\ OnlyProviderAsks(s.id)
    /\ \A id \in Oracles : SetsPrices(s, id) => PricesSet(id, s.assets)
    /\ s.op = "SetAddress" /\ s.id = "PriceOracle" => PricedForJob
    /\ s.op = "Insert" /\ s.id = "LendingPoolConfigurator" => ConfiguratorSaved
    /\ s.op = "EditGateway" => New(gateway) /\ contracts[gateway].kind = "WETHGateway"

StaysOK == ProvidersOK /\ OraclesOK /\ PricedOK
JobOK == ListedOK /\ \A s \in Done : Leaves(s)

LInv == StaysOK /\ (Active => JobOK)
-----------------------------------------------------------------------------
\* What the scripts owe to prices, of the step at hand.
LEMMA StepIsPriced ==
    ASSUME PricedScripts, RunOK, AtStep
    PROVE  /\ step.op = "Deploy" =>
                  /\ step.kind \notin ProxyIds
                  /\ step.id \in Named \/ step.kind \in Named => step.kind = step.id
                  /\ step.kind = "LendingPoolAddressesProvider" =>
                         "PriceOracle" \in DOMAIN step.ref /\ step.ref["PriceOracle"] = step.ref["LendingPool"]
                  /\ step.id = "LendingPoolAddressesProvider" => \A o \in Oracles : ~HaveFor(Done, "Deploy", o)
                  /\ step.id \in Oracles => /\ step.data \subseteq Asset
                                            /\ HaveFor(Done, "Deploy", "LendingPoolAddressesProvider")
                                            /\ ~HaveFor(Done, "Deploy", step.id)
                                            /\ \A e \in Done : ~SetsPrices(e, step.id)
           /\ step.op = "SetAddress" /\ step.id = "PriceOracle" =>
                  /\ step.value.from = "db" /\ step.value.id \in Oracles
                  /\ HaveFor(Done, "Deploy", step.value.id)
                  /\ Listings(job.tasks) \subseteq PricesLeft(Done, step.value.id)
           /\ step.op = "SetPrices" =>
                  /\ step.assets \subseteq Asset
                  /\ step.oracle.from = "db" /\ step.oracle.id \in Oracles
           /\ step.op = "InitReserve" => HaveFor(Done, "SetAddress", "PriceOracle")
           /\ step.op = "Register" =>
                  step.registry.from = "configuration" \/ step.registry.id = "LendingPoolAddressesProviderRegistry"
           /\ step.op = "AuthorizeLendingPool" => step.gateway.from # "db" \/ step.gateway.id = "WETHGateway"
<1>1. run.jobs[1] \in JobNames
    BY FirstJob
<1>2. run.task \in DOMAIN job.tasks /\ ~Have(Done, "Throw")
    BY DEF RunOK, AtStep, Active
<1>3. IsPricedStep(job.tasks, run.task, run.pc)
    BY <1>1, <1>2 DEF PricedScripts, JobNames, AtStep, task, job
<1> QED BY <1>2, <1>3 DEF IsPricedStep, Done, step, task

\* One of the job's listings.
LEMMA StepIsListing ==
    ASSUME RunOK, AtStep, step.op = "InitReserve"
    PROVE  step.reserve \in Listings(job.tasks)
<1>1. /\ run.task \in Nat \ {0} /\ run.task \in 1..Len(job.tasks) /\ Len(job.tasks) \in Nat
      /\ run.pc \in DOMAIN task
    BY Position DEF AtStep, Active
<1> PICK n : n = Len(job.tasks)
    OBVIOUS
<1>2. run.task \in 1..(n + 1 - 1)
    BY <1>1
<1>3. step \in Earlier(job.tasks, n + 1, 1)
    BY <1>1, <1>2, EarlierMember DEF step, task
<1> QED BY <1>3 DEF Listings
-----------------------------------------------------------------------------
\* Contracts stay what they are, and all but providers keep their references.
Rooted ==
    /\ DOMAIN contracts \subseteq DOMAIN contracts'
    /\ \A a \in DOMAIN contracts :
           /\ contracts'[a].kind = contracts[a].kind
           /\ contracts[a].kind # "LendingPoolAddressesProvider" => contracts'[a].ref = contracts[a].ref

\* A provider keeps the address, and a new provider has none.
KeepsRef(id) ==
    \A p \in Markets' :
        \/ p \in Markets /\ contracts'[p].ref[id] = contracts[p].ref[id]
        \/ p \notin DOMAIN contracts /\ contracts'[p].ref[id] = NoAddress

\* What a market shows of a pool and of an oracle.
SamePool(a) == contracts'[a].reserves = contracts[a].reserves /\ contracts'[a].paused = contracts[a].paused
SamePrices(a) == contracts'[a].data = contracts[a].data

LEMMA MarketIs ==
    ASSUME NEW p
    PROVE  /\ p \in Markets <=> p \in DOMAIN contracts /\ contracts[p].kind = "LendingPoolAddressesProvider"
           /\ p \in Markets' <=> p \in DOMAIN contracts' /\ contracts'[p].kind = "LendingPoolAddressesProvider"
BY DEF Markets, OfKind

LEMMA MarketsStay ==
    ASSUME Rooted
    PROVE  Markets \subseteq Markets'
BY MarketIs DEF Rooted

\* A proxy and its references stay.
LEMMA ConfiguratorKept ==
    ASSUME Rooted, NEW p, NEW c, ConfiguratorFits(p, c),
           contracts'[p].ref["LendingPool"] = contracts[p].ref["LendingPool"]
    PROVE  ConfiguratorFits(p, c)'
<1>1. c \in DOMAIN contracts /\ contracts'[c].kind = contracts[c].kind /\ contracts'[c].ref = contracts[c].ref
    BY DEF Rooted, ConfiguratorFits
<1> QED BY <1>1 DEF ConfiguratorFits, PoolOf, Rooted

LEMMA PoolKept ==
    ASSUME Rooted, NEW p, NEW a, PoolFits(p, a), IsPool(contracts'[a])
    PROVE  PoolFits(p, a)'
<1>1. a \in DOMAIN contracts /\ contracts'[a].ref = contracts[a].ref
    BY DEF Rooted, PoolFits, IsPool
<1> QED BY <1>1 DEF PoolFits, Rooted

LEMMA ProvidersKept ==
    ASSUME ProvidersOK, Rooted, KeepsRef("LendingPool"), KeepsRef("LendingPoolConfigurator"),
           \A p \in Markets' : "PriceOracle" \in DOMAIN contracts'[p].ref,
           \A a \in DOMAIN contracts : IsPool(contracts[a]) => IsPool(contracts'[a])
    PROVE  ProvidersOK'
<1>1. ASSUME NEW p \in Markets', NEW a, a = contracts'[p].ref["LendingPool"], a # NoAddress
      PROVE  PoolFits(p, a)'
  <2>1. p \in Markets /\ a = contracts[p].ref["LendingPool"]
    BY <1>1 DEF KeepsRef
  <2>2. PoolFits(p, a)
    BY <1>1, <2>1 DEF ProvidersOK
  <2> QED BY <2>2, PoolKept DEF PoolFits
<1>2. ASSUME NEW p \in Markets', NEW c, c = contracts'[p].ref["LendingPoolConfigurator"], c # NoAddress
      PROVE  ConfiguratorFits(p, c)'
  <2>1. p \in Markets /\ c = contracts[p].ref["LendingPoolConfigurator"]
    BY <1>2 DEF KeepsRef
  <2>2. ConfiguratorFits(p, c)
    BY <1>2, <2>1 DEF ProvidersOK
  <2>3. contracts'[p].ref["LendingPool"] = contracts[p].ref["LendingPool"]
    BY <2>1, MarketIs DEF KeepsRef
  <2> QED BY <2>2, <2>3, ConfiguratorKept
<1>3. ASSUME NEW p \in Markets'
      PROVE  /\ "PriceOracle" \in DOMAIN contracts'[p].ref
             /\ contracts'[p].ref["LendingPool"] # NoAddress => PoolFits(p, contracts[p].ref["LendingPool"])'
             /\ contracts'[p].ref["LendingPoolConfigurator"] # NoAddress =>
                    ConfiguratorFits(p, contracts[p].ref["LendingPoolConfigurator"])'
  <2> PICK a : a = contracts'[p].ref["LendingPool"]
    OBVIOUS
  <2> PICK c : c = contracts'[p].ref["LendingPoolConfigurator"]
    OBVIOUS
  <2>1. a # NoAddress => PoolFits(p, a)'
    BY <1>1
  <2>2. c # NoAddress => ConfiguratorFits(p, c)'
    BY <1>2
  <2> QED BY <1>3, <2>1, <2>2 DEF PoolFits, ConfiguratorFits, PoolOf
<1> QED BY <1>3 DEF ProvidersOK

LEMMA OraclesKept ==
    ASSUME OraclesOK, Rooted, KeepsRef("PriceOracle"),
           \A o \in DOMAIN contracts' : contracts'[o].kind \in Oracles => contracts'[o].data \subseteq Asset
    PROVE  OraclesOK'
<1>1. ASSUME NEW p \in Markets', contracts'[p].ref["PriceOracle"] # NoAddress
      PROVE  OracleFits(contracts[p].ref["PriceOracle"])'
  <2> PICK o : o = contracts'[p].ref["PriceOracle"]
    OBVIOUS
  <2>1. p \in Markets /\ o = contracts[p].ref["PriceOracle"]
    BY <1>1 DEF KeepsRef
  <2>2. OracleFits(o)
    BY <1>1, <2>1 DEF OraclesOK
  <2> QED BY <2>2 DEF OracleFits, Rooted
<1>2. ASSUME NEW p \in Markets', NEW q \in Markets',
             contracts'[p].ref["PriceOracle"] = contracts'[q].ref["PriceOracle"]
      PROVE  p = q \/ contracts'[p].ref["PriceOracle"] = NoAddress
    BY <1>2 DEF KeepsRef, OraclesOK
<1> QED BY <1>1, <1>2 DEF OraclesOK

\* A market whose pool and prices stay the same.
LEMMA MarketStays ==
    ASSUME StaysOK, Rooted, NEW p \in Markets,
           contracts'[p].ref["LendingPool"] = contracts[p].ref["LendingPool"],
           contracts'[p].ref["PriceOracle"] = contracts[p].ref["PriceOracle"],
           \A a \in DOMAIN contracts :
               /\ a = contracts[p].ref["LendingPool"] => SamePool(a)
               /\ a = contracts[p].ref["PriceOracle"] => SamePrices(a)
    PROVE  /\ Reserves(p)' = Reserves(p) /\ PricedAssets(p)' = PricedAssets(p)
           /\ MarketOf(p)' = MarketOf(p)
<1> PICK a : a = contracts[p].ref["LendingPool"]
    OBVIOUS
<1> PICK o : o = contracts[p].ref["PriceOracle"]
    OBVIOUS
<1>1. (a # NoAddress => a \in DOMAIN contracts) /\ (o # NoAddress => o \in DOMAIN contracts)
    BY DEF StaysOK, ProvidersOK, OraclesOK, PoolFits, OracleFits
<1>2. a # NoAddress => contracts'[a].reserves = contracts[a].reserves /\ contracts'[a].paused = contracts[a].paused
    BY <1>1 DEF SamePool
<1>3. o # NoAddress => contracts'[o].data = contracts[o].data
    BY <1>1 DEF SamePrices
<1>4. Reserves(p)' = Reserves(p)
    BY <1>2 DEF Reserves, Provided
<1>5. PricedAssets(p)' = PricedAssets(p)
    BY <1>3 DEF PricedAssets, Provided
<1>6. Provided(p, "LendingPool")' = a /\ Provided(p, "LendingPool") = a
    BY DEF Provided
<1>7. (Provided(p, "LendingPool") # NoAddress /\ contracts[Provided(p, "LendingPool")].paused)'
        = (Provided(p, "LendingPool") # NoAddress /\ contracts[Provided(p, "LendingPool")].paused)
    BY <1>2, <1>6
<1> QED BY <1>4, <1>5, <1>6, <1>7 DEF MarketOf

\* All markets but those in a set stay as they are shown.
OthersStay(S) ==
    \A p \in Markets \ S :
        Reserves(p)' = Reserves(p) /\ PricedAssets(p)' = PricedAssets(p) /\ MarketOf(p)' = MarketOf(p)

LEMMA PricedKept ==
    ASSUME PricedOK, NEW S, OthersStay(S),
           \A p \in Markets' : p \in S \/ p \notin Markets => (DOMAIN Reserves(p))' \subseteq PricedAssets(p)'
    PROVE  PricedOK'
BY DEF PricedOK, OthersStay

LEMMA ListedKept ==
    ASSUME ListedOK, SameProcess, Rooted, NEW S, OthersStay(S),
           \A p \in Markets' : p \in S \/ p \notin Markets => ListedFits(p)'
    PROVE  ListedOK'
<1>1. job' = job
    BY GentleJob
<1>2. ASSUME NEW p \in Markets', New(p)'
      PROVE  ListedFits(p)'
  <2>1. CASE p \in S \/ p \notin Markets
    BY <2>1
  <2>2. CASE p \in Markets \ S
    <3>1. New(p)
      BY <1>2, <2>2, MarketIs DEF New, SameProcess
    <3>2. ListedFits(p) /\ Reserves(p)' = Reserves(p)
      BY <2>2, <3>1 DEF ListedOK, OthersStay
    <3>3. \A a : Params(a)' = Params(a)
      BY <1>1 DEF Params
    <3> QED BY <1>1, <3>2, <3>3 DEF ListedFits
  <2> QED BY <2>1, <2>2
<1> QED BY <1>2 DEF ListedOK

\* A step of which the markets show nothing.
Calm ==
    /\ DOMAIN contracts' = DOMAIN contracts
    /\ Rooted
    /\ \A a \in DOMAIN contracts :
           /\ contracts[a].kind = "LendingPoolAddressesProvider" =>
                  /\ \A id \in ProxyIds \union {"PriceOracle"} : contracts'[a].ref[id] = contracts[a].ref[id]
                  /\ DOMAIN contracts'[a].ref = DOMAIN contracts[a].ref
           /\ contracts[a].kind = "LendingPool" => contracts'[a] = contracts[a]
           /\ contracts[a].kind \in Oracles => contracts'[a].data = contracts[a].data

LEMMA CalmRefs ==
    ASSUME Calm
    PROVE  /\ Markets' = Markets
           /\ \A id \in ProxyIds \union {"PriceOracle"} : KeepsRef(id)
<1>1. Markets' = Markets
    BY MarketIs DEF Calm, Rooted
<1> QED BY <1>1, MarketIs DEF Calm, KeepsRef

LEMMA CalmStays ==
    ASSUME StaysOK, Calm, AddressesOK
    PROVE  StaysOK' /\ OthersStay({}) /\ Markets' = Markets
<1>1. Markets' = Markets /\ \A id \in ProxyIds \union {"PriceOracle"} : KeepsRef(id)
    BY CalmRefs
<1>2. KeepsRef("LendingPool") /\ KeepsRef("LendingPoolConfigurator") /\ KeepsRef("PriceOracle")
    BY <1>1 DEF ProxyIds
<1>3. ProvidersOK'
  <2>1. \A p \in Markets' : "PriceOracle" \in DOMAIN contracts'[p].ref
    BY <1>1, MarketIs DEF Calm, StaysOK, ProvidersOK
  <2>2. \A a \in DOMAIN contracts : IsPool(contracts[a]) => IsPool(contracts'[a])
    BY DEF Calm, IsPool
  <2> QED BY <1>2, <2>1, <2>2, ProvidersKept DEF StaysOK, Calm
<1>4. OraclesOK'
  <2>1. \A o \in DOMAIN contracts' : contracts'[o].kind \in Oracles => contracts'[o].data \subseteq Asset
    BY DEF Calm, Rooted, StaysOK, OraclesOK
  <2> QED BY <1>2, <2>1, OraclesKept DEF StaysOK, Calm
<1>5. ASSUME NEW p \in Markets
      PROVE  Reserves(p)' = Reserves(p) /\ PricedAssets(p)' = PricedAssets(p) /\ MarketOf(p)' = MarketOf(p)
  <2>1. contracts'[p].ref["LendingPool"] = contracts[p].ref["LendingPool"]
        /\ contracts'[p].ref["PriceOracle"] = contracts[p].ref["PriceOracle"]
    BY MarketIs DEF Calm, ProxyIds
  <2>2. ASSUME NEW a \in DOMAIN contracts
        PROVE  /\ a = contracts[p].ref["LendingPool"] => SamePool(a)
               /\ a = contracts[p].ref["PriceOracle"] => SamePrices(a)
    <3>1. a # NoAddress => (a = contracts[p].ref["LendingPool"] => contracts[a].kind = "LendingPool")
      BY DEF StaysOK, ProvidersOK, PoolFits, IsPool
    <3>2. a # NoAddress => (a = contracts[p].ref["PriceOracle"] => contracts[a].kind \in Oracles)
      BY DEF StaysOK, OraclesOK, OracleFits
    <3>3. a # NoAddress
      BY NoAddressIsExternal, ExternalIsNoContract
    <3> QED BY <3>1, <3>2, <3>3 DEF Calm, SamePool, SamePrices
  <2> QED BY <2>1, <2>2, MarketStays DEF Calm
<1>6. OthersStay({})
    BY <1>5 DEF OthersStay
<1>7. PricedOK'
    BY <1>1, <1>6, PricedKept DEF StaysOK
<1> QED BY <1>1, <1>3, <1>4, <1>6, <1>7 DEF StaysOK
-----------------------------------------------------------------------------
\* What is done stays so, as long as the database has the same entries.
LEMMA ProviderStays ==
    ASSUME Rooted, SameProcess, ProviderOK, SameEntry("LendingPoolAddressesProvider")
    PROVE  ProviderOK' /\ Provider' = Provider /\ Provider \in Markets /\ Provider \in Markets'
<1>1. Provider' = Provider
    BY DEF SameEntry, Provider
<1> PICK p : p = Provider
    OBVIOUS
<1>2. p \in DOMAIN contracts /\ New(p) /\ contracts[p].kind = "LendingPoolAddressesProvider"
    BY DEF ProviderOK, New
<1>3. p \in DOMAIN contracts' /\ New(p)' /\ contracts'[p].kind = "LendingPoolAddressesProvider"
    BY <1>2 DEF Rooted, New, SameProcess
<1> QED BY <1>1, <1>2, <1>3, MarketIs DEF ProviderOK, SameEntry, New

LEMMA NamedKept ==
    ASSUME Rooted, SameProcess, NEW id, NamedOK(id), SameEntry(id)
    PROVE  NamedOK(id)'
<1> PICK a : a = db[id]
    OBVIOUS
<1>1. a \in DOMAIN contracts' /\ a \notin run'.before /\ contracts'[a].kind = id
    BY DEF NamedOK, New, Rooted, SameProcess
<1> QED BY <1>1 DEF NamedOK, New, SameEntry

\* Prices are only added.
KeepsPrices ==
    \A o \in DOMAIN contracts : contracts[o].kind \in Oracles => contracts[o].data \subseteq contracts'[o].data

LEMMA PricesKept ==
    ASSUME Rooted, SameProcess, KeepsPrices, NEW id \in Oracles, NEW assets, PricesSet(id, assets), SameEntry(id)
    PROVE  PricesSet(id, assets)'
<1> PICK a : a = db[id]
    OBVIOUS
<1>1. NamedOK(id)'
    BY NamedKept DEF PricesSet
<1>2. assets \subseteq contracts'[a].data
    BY DEF PricesSet, NamedOK, New, KeepsPrices
<1> QED BY <1>1, <1>2 DEF PricesSet, SameEntry

\* No other provider than this job's is given an oracle.
OthersKeepOracle ==
    \A p \in Markets' :
        \/ ProviderOK /\ p = Provider
        \/ p \in Markets /\ contracts'[p].ref["PriceOracle"] = contracts[p].ref["PriceOracle"]
        \/ contracts'[p].ref["PriceOracle"] = NoAddress

LEMMA AskedKept ==
    ASSUME AddressesOK, Rooted, SameProcess, OthersKeepOracle, NEW id, OnlyProviderAsks(id), NamedOK(id),
           SameEntry(id), SameEntry("LendingPoolAddressesProvider")
    PROVE  OnlyProviderAsks(id)'
<1>1. ProviderOK' /\ Provider' = Provider
    BY ProviderStays DEF OnlyProviderAsks
<1>2. db[id] # NoAddress
    BY NoAddressIsExternal, ExternalIsNoContract DEF NamedOK, New
<1>3. ASSUME NEW p \in Markets', contracts'[p].ref["PriceOracle"] = db[id]
      PROVE  p = Provider
    BY <1>2, <1>3 DEF OthersKeepOracle, OnlyProviderAsks
<1> QED BY <1>1, <1>3 DEF OnlyProviderAsks, SameEntry

LEMMA SavedKept ==
    ASSUME Rooted, SameProcess, ConfiguratorSaved, SameEntry("LendingPoolAddressesProvider"),
           SameEntry("LendingPoolConfigurator"), NEW p, p = Provider,
           contracts[p].ref["LendingPoolConfigurator"] # NoAddress =>
               contracts'[p].ref["LendingPoolConfigurator"] = contracts[p].ref["LendingPoolConfigurator"]
    PROVE  ConfiguratorSaved'
<1>1. ProviderOK' /\ Provider' = Provider
    BY ProviderStays DEF ConfiguratorSaved
<1> QED BY <1>1 DEF ConfiguratorSaved, SameEntry

\* The provider keeps an oracle with the prices it has.
LEMMA PricedForJobKept ==
    ASSUME StaysOK, Rooted, SameProcess, KeepsPrices, PricedForJob, SameEntry("LendingPoolAddressesProvider"),
           NEW p, p = Provider, contracts'[p].ref["PriceOracle"] = contracts[p].ref["PriceOracle"]
    PROVE  PricedForJob'
<1>1. ProviderOK' /\ Provider' = Provider /\ p \in Markets /\ job' = job
    BY ProviderStays, GentleJob DEF PricedForJob
<1> PICK o : o = contracts[p].ref["PriceOracle"]
    OBVIOUS
<1>2. o # NoAddress /\ o \in DOMAIN contracts /\ contracts[o].kind \in Oracles
    BY <1>1 DEF PricedForJob, StaysOK, OraclesOK, OracleFits
<1>3. Listings(job.tasks) \subseteq contracts[o].data
    BY <1>2 DEF PricedForJob, PricedAssets, Provided
<1>4. Listings(job.tasks) \subseteq contracts'[o].data
    BY <1>2, <1>3 DEF KeepsPrices
<1> QED BY <1>1, <1>2, <1>4 DEF PricedForJob, PricedAssets, Provided

LEMMA LeavesKept ==
    ASSUME AddressesOK, StaysOK, Rooted, SameProcess, KeepsPrices, OthersKeepOracle, NEW s, Leaves(s),
           s.op = "Deploy" /\ s.id \in Named => SameEntry(s.id),
           \A id \in Oracles : SetsPrices(s, id) => SameEntry(id),
           s.op # "Deploy" \/ s.id \in Oracles => (ProviderOK => SameEntry("LendingPoolAddressesProvider")),
           s.op = "Insert" /\ s.id = "LendingPoolConfigurator" => SameEntry("LendingPoolConfigurator"),
           s.op = "EditGateway" => gateway' = gateway,
           ProviderOK /\ contracts[Provider].ref["LendingPoolConfigurator"] # NoAddress =>
               contracts'[Provider].ref["LendingPoolConfigurator"] = contracts[Provider].ref["LendingPoolConfigurator"],
           s.op = "SetAddress" /\ PricedForJob =>
               PricedForJob' \/ contracts'[Provider].ref["PriceOracle"] = contracts[Provider].ref["PriceOracle"]
    PROVE  Leaves(s)'
<1> PICK i : i = s.id
    OBVIOUS
<1>1. s.op = "Deploy" /\ i \in Named => NamedOK(i)'
    BY NamedKept DEF Leaves
<1>2. ASSUME s.op = "Deploy", i \in Oracles
      PROVE  PricesSet(i, s.data)' /\ OnlyProviderAsks(i)'
  <2>1. i \in Named /\ PricesSet(i, s.data) /\ OnlyProviderAsks(i) /\ NamedOK(i) /\ SameEntry(i)
    BY <1>2 DEF Leaves, Named
  <2> PICK data : data = s.data
    OBVIOUS
  <2>2. PricesSet(i, data)'
    BY <1>2, <2>1, PricesKept
  <2>3. OnlyProviderAsks(i)'
    BY <1>2, <2>1, AskedKept DEF OnlyProviderAsks
  <2> QED BY <2>2, <2>3
<1>3. ASSUME NEW id \in Oracles, SetsPrices(s, id)
      PROVE  PricesSet(id, s.assets)'
  <2> PICK assets : assets = s.assets
    OBVIOUS
  <2>1. PricesSet(id, assets) /\ SameEntry(id)
    BY <1>3 DEF Leaves
  <2> QED BY <2>1, PricesKept
<1>4. s.op = "SetAddress" /\ i = "PriceOracle" => PricedForJob'
    BY PricedForJobKept DEF Leaves, PricedForJob
<1>5. s.op = "Insert" /\ i = "LendingPoolConfigurator" => ConfiguratorSaved'
    BY SavedKept DEF Leaves, ConfiguratorSaved
<1>6. ASSUME s.op = "EditGateway"
      PROVE  New(gateway)' /\ contracts'[gateway'].kind = "WETHGateway"
  <2> PICK g : g = gateway
    OBVIOUS
  <2>1. g \in DOMAIN contracts' /\ g \notin run'.before /\ contracts'[g].kind = "WETHGateway"
    BY <1>6 DEF Leaves, New, Rooted, SameProcess
  <2> QED BY <1>6, <2>1 DEF New
<1> QED BY <1>1, <1>2, <1>3, <1>4, <1>5, <1>6 DEF Leaves, SetsPrices
-----------------------------------------------------------------------------
\* What is to be shown of a step of a script.
LEMMA AssembleLInv ==
    ASSUME AtStep, Continues, StaysOK', ListedOK', \A s \in Done : Leaves(s)',
           run'.pc = run.pc + 1 => \A s : s = step => Leaves(s)'
    PROVE  LInv'
<1>1. \A s \in Done' : Leaves(s)'
    BY DEF Continues
<1> QED BY <1>1 DEF LInv, JobOK

\* What was done is left after a step that leaves the database as it is.
LEMMA DoneLeaves ==
    ASSUME MInv, StaysOK, Rooted, SameProcess, KeepsPrices, OthersKeepOracle, UNCHANGED <<db, gateway>>,
           ProviderOK /\ contracts[Provider].ref["LendingPoolConfigurator"] # NoAddress =>
               contracts'[Provider].ref["LendingPoolConfigurator"] = contracts[Provider].ref["LendingPoolConfigurator"],
           PricedForJob =>
               PricedForJob' \/ contracts'[Provider].ref["PriceOracle"] = contracts[Provider].ref["PriceOracle"],
           NEW s, Leaves(s)
    PROVE  Leaves(s)'
<1>1. AddressesOK
    BY DEF MInv
<1>2. \A id : NamedOK(id) => SameEntry(id)
    BY DEF NamedOK, SameEntry
<1>3. ProviderOK => SameEntry("LendingPoolAddressesProvider")
    BY DEF ProviderOK, SameEntry
<1>4. ConfiguratorSaved => SameEntry("LendingPoolConfigurator")
    BY DEF ConfiguratorSaved, SameEntry
<1>5. /\ s.op = "Deploy" /\ s.id \in Named => NamedOK(s.id)
      /\ \A id \in Oracles : SetsPrices(s, id) => NamedOK(id)
      /\ s.op = "Insert" /\ s.id = "LendingPoolConfigurator" => ConfiguratorSaved
    BY DEF Leaves, PricesSet
<1> QED BY <1>1, <1>2, <1>3, <1>4, <1>5, LeavesKept

LEMMA CalmStep ==
    ASSUME MInv, LInv, AtStep, Continues, Calm, UNCHANGED <<db, gateway>>,
           run'.pc = run.pc + 1 => \A s : s = step => Leaves(s)'
    PROVE  LInv' /\ Shown' = Shown
<1>1. AddressesOK /\ Active /\ JobOK /\ StaysOK /\ SameProcess /\ Rooted
    BY DEF MInv, LInv, Continues, SameProcess, Calm
<1>2. StaysOK' /\ OthersStay({}) /\ Markets' = Markets
    BY <1>1, CalmStays
<1>3. ListedOK'
    BY <1>1, <1>2, ListedKept DEF JobOK
<1>4. KeepsPrices /\ OthersKeepOracle
    BY <1>2, CalmRefs, MarketIs DEF Calm, KeepsPrices, OthersKeepOracle
<1>5. ProviderOK => /\ contracts'[Provider].ref["LendingPoolConfigurator"] = contracts[Provider].ref["LendingPoolConfigurator"]
                    /\ contracts'[Provider].ref["PriceOracle"] = contracts[Provider].ref["PriceOracle"]
    BY DEF Calm, ProviderOK, New, ProxyIds
<1>6. PricedForJob => ProviderOK
    BY DEF PricedForJob
<1>7. \A s \in Done : Leaves(s)'
    BY <1>1, <1>4, <1>5, <1>6, DoneLeaves DEF JobOK
<1>8. LInv'
    BY <1>2, <1>3, <1>7, AssembleLInv
<1>9. Shown' = Shown
    BY <1>2 DEF OthersStay, Shown
<1> QED BY <1>8, <1>9

\* Setting a field of a contract, or one of its addresses.
SetsField(x, f, v) == contracts' = [contracts EXCEPT ![x] = [contracts[x] EXCEPT ![f] = v]]

LEMMA FieldSet ==
    ASSUME IInv, NEW x, NEW f, NEW v, SetsField(x, f, v)
    PROVE  /\ DOMAIN contracts' = DOMAIN contracts
           /\ \A a \in DOMAIN contracts : a # x => contracts'[a] = contracts[a]
           /\ x \in DOMAIN contracts =>
                  /\ DOMAIN contracts'[x] = DOMAIN contracts[x]
                  /\ \A g \in DOMAIN contracts[x] : contracts'[x][g] = IF g = f THEN v ELSE contracts[x][g]
<1>1. contracts = [a \in DOMAIN contracts |-> contracts[a]]
    BY DEF IInv, IsNetwork
<1> DEFINE d == [contracts[x] EXCEPT ![f] = v]
<1>2. ASSUME x \in DOMAIN contracts
      PROVE  DOMAIN d = DOMAIN contracts[x] /\ \A g \in DOMAIN contracts[x] : d[g] = IF g = f THEN v ELSE contracts[x][g]
  <2>1. IsContract(contracts[x])
    BY <1>2 DEF IInv, IsNetwork
  <2>2. contracts[x] = [g \in DOMAIN contracts[x] |-> contracts[x][g]]
    BY <2>1 DEF IsContract
  <2> QED BY <2>2
<1> HIDE DEF d
<1>3. contracts' = [contracts EXCEPT ![x] = d]
    BY DEF SetsField, d
<1> QED BY <1>1, <1>2, <1>3

LEMMA FieldsOf ==
    ASSUME IInv, NEW a \in DOMAIN contracts
    PROVE  {"kind", "owner", "ref", "data"} \subseteq DOMAIN contracts[a]
BY DEF IInv, IsNetwork, IsContract, Fields

\* Owners, and data of what is no oracle and no pool, are nothing that a market shows.
LEMMA CalmField ==
    ASSUME IInv, NEW x, NEW v,
           \/ SetsField(x, "owner", v) /\ contracts[x].kind # "LendingPool"
           \/ /\ SetsField(x, "data", v)
              /\ x \in DOMAIN contracts => contracts[x].kind \notin Oracles /\ contracts[x].kind # "LendingPool"
    PROVE  Calm
<1> PICK f : f \in {"owner", "data"} /\ SetsField(x, f, v)
             /\ (x \in DOMAIN contracts => contracts[x].kind # "LendingPool" /\ (f = "data" => contracts[x].kind \notin Oracles))
    OBVIOUS
<1>1. /\ DOMAIN contracts' = DOMAIN contracts
      /\ \A a \in DOMAIN contracts : a # x => contracts'[a] = contracts[a]
    BY FieldSet
<1>2. ASSUME x \in DOMAIN contracts
      PROVE  /\ contracts'[x].kind = contracts[x].kind /\ contracts'[x].ref = contracts[x].ref
             /\ f # "data" => contracts'[x].data = contracts[x].data
    BY <1>2, FieldSet, FieldsOf
<1> QED BY <1>1, <1>2 DEF Calm, Rooted

LEMMA RefSet ==
    ASSUME IInv, NEW p \in DOMAIN contracts, NEW id, NEW v, SetsRef(p, id, v)
    PROVE  /\ DOMAIN contracts' = DOMAIN contracts
           /\ \A a \in DOMAIN contracts : a # p => contracts'[a] = contracts[a]
           /\ contracts'[p].kind = contracts[p].kind /\ contracts'[p].data = contracts[p].data
           /\ DOMAIN contracts'[p].ref = DOMAIN contracts[p].ref
           /\ \A i \in DOMAIN contracts[p].ref :
                  contracts'[p].ref[i] = IF i = id THEN v ELSE contracts[p].ref[i]
<1> PICK r : r = [contracts[p].ref EXCEPT ![id] = v]
    OBVIOUS
<1>1. contracts[p].ref = [i \in DOMAIN contracts[p].ref |-> contracts[p].ref[i]]
    BY DEF IInv, IsNetwork, IsContract
<1>2. DOMAIN r = DOMAIN contracts[p].ref
      /\ \A i \in DOMAIN contracts[p].ref : r[i] = IF i = id THEN v ELSE contracts[p].ref[i]
    BY <1>1
<1>3. SetsField(p, "ref", r)
    BY DEF SetsRef, SetsField
<1>4. /\ DOMAIN contracts' = DOMAIN contracts
      /\ \A a \in DOMAIN contracts : a # p => contracts'[a] = contracts[a]
      /\ contracts'[p].kind = contracts[p].kind /\ contracts'[p].ref = r /\ contracts'[p].data = contracts[p].data
    BY <1>3, FieldSet, FieldsOf
<1> QED BY <1>2, <1>4

\* This job's provider, and the addresses it has an entry for.
LEMMA OwnProvider ==
    ASSUME MInv, LInv, ProviderOK, NEW p, p = Provider
    PROVE  /\ p \in Markets /\ p \in DOMAIN contracts /\ New(p)
           /\ contracts[p].kind = "LendingPoolAddressesProvider"
           /\ ProxyIds \union {"PriceOracle"} \subseteq DOMAIN contracts[p].ref
           /\ SameEntry("LendingPoolAddressesProvider") \/ db' # db
<1>1. p \in Markets /\ p \in DOMAIN contracts /\ New(p) /\ contracts[p].kind = "LendingPoolAddressesProvider"
    BY MarketIs DEF ProviderOK, New
<1>2. "PriceOracle" \in DOMAIN contracts[p].ref
    BY <1>1 DEF LInv, StaysOK, ProvidersOK
<1>3. ProxyIds \subseteq DOMAIN contracts[p].ref
    BY <1>1 DEF MInv, IInv, IsNetwork, IsContract, Entries
<1> QED BY <1>1, <1>2, <1>3 DEF SameEntry, ProviderOK

LEMMA CalmRef ==
    ASSUME MInv, LInv, ProviderOK, NEW p, p = Provider,
           NEW id, id \notin ProxyIds \union {"PriceOracle"}, NEW v, SetsRef(p, id, v)
    PROVE  Calm
<1>1. /\ p \in DOMAIN contracts /\ contracts[p].kind = "LendingPoolAddressesProvider"
      /\ ProxyIds \union {"PriceOracle"} \subseteq DOMAIN contracts[p].ref
    BY OwnProvider
<1>2. /\ DOMAIN contracts' = DOMAIN contracts
      /\ \A a \in DOMAIN contracts : a # p => contracts'[a] = contracts[a]
      /\ contracts'[p].kind = contracts[p].kind /\ contracts'[p].data = contracts[p].data
      /\ DOMAIN contracts'[p].ref = DOMAIN contracts[p].ref
      /\ \A i \in ProxyIds \union {"PriceOracle"} : contracts'[p].ref[i] = contracts[p].ref[i]
    BY <1>1, RefSet DEF MInv
<1> QED BY <1>1, <1>2 DEF Calm, Rooted
-----------------------------------------------------------------------------
\* The steps that leave prices, pools and providers alone.
Telling == {"Deploy", "SetPrices", "SetAddress", "Insert", "EditGateway"}

LEMMA SaysNothing ==
    ASSUME AtStep, step.op \notin Telling
    PROVE  \A s : s = step => Leaves(s)'
BY DEF Telling, Leaves, SetsPrices

\* What is written to by Register and AuthorizeLendingPool has no prices.
LEMMA NoOracle ==
    ASSUME MInv, LInv, Active, NEW e, IsOwn(e, Done), e.from = "db" => e.id \in Named \ Oracles,
           Value(e) \in DOMAIN contracts
    PROVE  contracts[Value(e)].kind \in Named \ Oracles
<1>1. \A s \in Done : Leaves(s)
    BY DEF LInv, JobOK
<1>2. CASE e.from = "configuration" /\ External(e.address)
    BY <1>2, ExternalIsNoContract DEF MInv, Value
<1>3. CASE e.from = "db" /\ HaveFor(Done, "Deploy", e.id)
  <2>1. NamedOK(e.id)
    BY <1>1, <1>3 DEF HaveFor, Leaves
  <2> QED BY <1>3, <2>1 DEF NamedOK, Value
<1>4. CASE e.from = "gateway" /\ Have(Done, "EditGateway")
  <2>1. contracts[gateway].kind = "WETHGateway"
    BY <1>1, <1>4 DEF Have, Leaves
  <2> QED BY <1>4, <2>1 DEF Value, Named, Oracles
<1> QED BY <1>2, <1>3, <1>4 DEF IsOwn

LEMMA DataWritten ==
    ASSUME MInv, LInv, PricedScripts, Register \/ AuthorizeLendingPool \/ SetOracleBorrowRates
    PROVE  LInv' /\ Shown' = Shown
<1>1. Active /\ AtStep /\ ~Throws /\ Proceed /\ UNCHANGED <<db, gateway>> /\ RunOK /\ step.op \notin Telling /\ IInv
    BY DEF Register, AuthorizeLendingPool, SetOracleBorrowRates, Takes, AtStep, Active, MInv, IInv, Telling
<1>2. Continues
    BY <1>1, Proceeds
<1>3. \E x, v : /\ SetsField(x, "data", v)
                /\ x \in DOMAIN contracts => contracts[x].kind \notin Oracles /\ contracts[x].kind # "LendingPool"
  <2>1. CASE Register
    <3> PICK x : x = Value(step.registry)
      OBVIOUS
    <3>1. step.op = "Register" /\ \E v : SetsField(x, "data", v)
      BY <2>1 DEF Register, Takes, SetsField
    <3>2. CASE IsOwn(step.registry, Done)
      <4>1. step.registry.from = "db" => step.registry.id \in Named \ Oracles
        BY <1>1, <3>1, StepIsPriced DEF Named, Oracles
      <4>2. x \in DOMAIN contracts => contracts[x].kind \in Named \ Oracles
        BY <1>1, <3>2, <4>1, NoOracle
      <4> QED BY <3>1, <4>2 DEF Named
    <3>3. CASE step.registry.from = "configuration" /\ step.registry.address \in ConfiguredRegistries
      <4>1. contracts[x].kind = "LendingPoolAddressesProviderRegistry"
        BY <3>3 DEF Value, MInv, AddressesOK
      <4> QED BY <3>1, <4>1 DEF Oracles
    <3> QED BY <1>1, <3>1, <3>2, <3>3, StepOrder
  <2>2. CASE AuthorizeLendingPool
    <3> PICK x : x = Value(step.gateway)
      OBVIOUS
    <3>1. step.op = "AuthorizeLendingPool" /\ \E v : SetsField(x, "data", v)
      BY <2>2 DEF AuthorizeLendingPool, Takes, SetsField
    <3>2. step.gateway.from = "db" => step.gateway.id \in Named \ Oracles
      BY <1>1, <3>1, StepIsPriced DEF Named, Oracles
    <3>3. x \in DOMAIN contracts => contracts[x].kind \in Named \ Oracles
      BY <1>1, <3>1, <3>2, NoOracle, StepOrder
    <3> QED BY <3>1, <3>3 DEF Named
  <2>3. CASE SetOracleBorrowRates
    <3> PICK x : x = RateOracle
      OBVIOUS
    <3>1. step.op = "SetOracleBorrowRates" /\ \E v : SetsField(x, "data", v)
      BY <2>3 DEF SetOracleBorrowRates, Takes, SetsField
    <3>2. contracts[x].kind = "LendingRateOracle"
      BY <1>1, <3>1, StepOrder, WhatIsDone DEF Deployed, Trusted, RateOracle
    <3> QED BY <3>1, <3>2 DEF Oracles
  <2> QED BY <2>1, <2>2, <2>3
<1>4. Calm
    BY <1>1, <1>3, CalmField
<1> QED BY <1>1, <1>2, <1>4, SaysNothing, CalmStep

LEMMA OwnerWritten ==
    ASSUME MInv, LInv, TransferRateOracle \/ SetOracleOwnership
    PROVE  LInv' /\ Shown' = Shown
<1>1. /\ AtStep /\ ~Throws /\ Proceed /\ UNCHANGED <<db, gateway>> /\ RunOK /\ Active /\ IInv
      /\ step.op \in {"TransferRateOracle", "SetOracleOwnership"} /\ step.op \notin Telling
      /\ \E v : SetsField(RateOracle, "owner", v)
    BY DEF TransferRateOracle, SetOracleOwnership, Takes, AtStep, Active, MInv, IInv, Telling, SetsField
<1>2. contracts[RateOracle].kind = "LendingRateOracle"
    BY <1>1, StepOrder, WhatIsDone DEF Deployed, Trusted, RateOracle
<1>3. Calm
    BY <1>1, <1>2, CalmField
<1> QED BY <1>1, <1>3, Proceeds, SaysNothing, CalmStep

LEMMA NothingWritten ==
    ASSUME MInv, LInv, Get \/ Collect \/ Revert \/ Throw \/ ReadAdmin
    PROVE  LInv' /\ Shown' = Shown
<1>1. AtStep /\ RunOK /\ Active /\ contracts' = contracts /\ UNCHANGED <<db, gateway>>
    BY DEF Get, Collect, Revert, Throw, ReadAdmin, Takes, MInv, IInv, AtStep, Active
<1>2. Calm
    BY <1>1 DEF Calm, Rooted
<1>3. Continues /\ (run'.pc = run.pc + 1 => step.op \notin Telling)
  <2>1. CASE Revert \/ Throw
    <3>1. \E v \in {"failed", "reverted"} : run' = [run EXCEPT !.status = v]
      BY <2>1 DEF Revert, Throw
    <3>2. Continues
      BY <1>1, <3>1, RunProceeds
    <3>3. run'.pc = run.pc /\ run.pc \in Nat
      BY <1>1, <3>1, Position DEF RunOK, RunFields
    <3>4. run.pc # run.pc + 1
      BY <3>3
    <3> QED BY <3>2, <3>3, <3>4
  <2>2. CASE Get
    BY <1>1, <2>2, Proceeds DEF Get, Takes, Telling
  <2>3. CASE Collect
    <3>1. step.op = "Collect" /\ ~Throws /\ \E v : run' = [run EXCEPT !.pc = @ + 1, !.todo = v]
      BY <2>3 DEF Collect, Takes
    <3> QED BY <1>1, <3>1, RunProceeds DEF Telling
  <2>4. CASE ReadAdmin
    <3>1. step.op = "ReadAdmin" /\ ~Throws /\ \E v : run' = [run EXCEPT !.pc = @ + 1, !.admin = v]
      BY <2>4 DEF ReadAdmin, Takes
    <3> QED BY <1>1, <3>1, RunProceeds DEF Telling
  <2> QED BY <2>1, <2>2, <2>3, <2>4
<1> QED BY <1>1, <1>2, <1>3, SaysNothing, CalmStep

LEMMA AdminWritten ==
    ASSUME MInv, LInv, GrantHelper \/ RestoreAdmin
    PROVE  LInv' /\ Shown' = Shown
<1>1. /\ AtStep /\ ~Throws /\ UNCHANGED <<db, gateway>> /\ step.op \in {"GrantHelper", "RestoreAdmin"}
      /\ RunOK /\ Active /\ IInv /\ step.op \notin Telling
      /\ Proceed \/ \E v : run' = [run EXCEPT !.pc = @ + 1, !.granted = v]
      /\ contracts' = contracts \/ \E v : SetsRef(Provider, "PoolAdmin", v)
    BY DEF GrantHelper, RestoreAdmin, Takes, MInv, IInv, AtStep, Active, Telling, SetsRef
<1>2. Continues
    BY <1>1, RunProceeds
<1>3. ProviderOK
    BY <1>1, StepOrder, WhatIsDone
<1>4. "PoolAdmin" \notin ProxyIds \union {"PriceOracle"}
    BY DEF ProxyIds
<1>5. Calm
  <2>1. CASE contracts' = contracts
    BY <2>1 DEF Calm, Rooted
  <2>2. ASSUME NEW v, SetsRef(Provider, "PoolAdmin", v) PROVE Calm
    BY <1>1, <1>3, <1>4, <2>2, CalmRef
  <2> QED BY <1>1, <2>1, <2>2
<1> QED BY <1>1, <1>2, <1>5, SaysNothing, CalmStep
-----------------------------------------------------------------------------
\* A step that goes on in the market of the job alone.
LEMMA MarketStep ==
    ASSUME MInv, LInv, AtStep, Continues, ProviderOK, NEW p, p = Provider, Rooted, UNCHANGED <<db, gateway>>,
           Markets' = Markets, OthersStay({p}), ProvidersOK', OraclesOK', KeepsPrices, OthersKeepOracle,
           contracts[p].ref["LendingPoolConfigurator"] # NoAddress =>
               contracts'[p].ref["LendingPoolConfigurator"] = contracts[p].ref["LendingPoolConfigurator"],
           PricedForJob => PricedForJob' \/ contracts'[p].ref["PriceOracle"] = contracts[p].ref["PriceOracle"],
           (DOMAIN Reserves(p))' \subseteq PricedAssets(p)', ListedFits(p)',
           run'.pc = run.pc + 1 => \A s : s = step => Leaves(s)'
    PROVE  /\ LInv' /\ p \in DOMAIN Shown
           /\ Shown' = [Shown EXCEPT ![p] = MarketOf(p)']
<1>1. SameProcess /\ Active /\ JobOK /\ StaysOK
    BY DEF SameProcess, Continues, LInv
<1>2. p \in Markets
    BY OwnProvider
<1>3. PricedOK'
    BY <1>1, <1>2, PricedKept DEF StaysOK
<1>4. ListedOK'
    BY <1>1, <1>2, ListedKept DEF JobOK
<1>5. \A s \in Done : Leaves(s)'
    BY <1>1, DoneLeaves DEF JobOK
<1>6. LInv'
    BY <1>3, <1>4, <1>5, AssembleLInv DEF StaysOK
<1>7. Shown' = [q \in Markets |-> MarketOf(q)'] /\ Shown = [q \in Markets |-> MarketOf(q)]
    BY DEF Shown
<1>8. \A q \in Markets : q # p => MarketOf(q)' = MarketOf(q)
    BY DEF OthersStay
<1> QED BY <1>2, <1>6, <1>7, <1>8

\* The record of a market, before and after a step.
HasPool(p) == Provided(p, "LendingPool") # NoAddress
IsPaused(p) == HasPool(p) /\ contracts[Provided(p, "LendingPool")].paused
Enabled(p) == {a \in DOMAIN Reserves(p) : Reserves(p)[a].threshold # 0}

\* A step that changes one field of a market.
SameBut(p, field) ==
    /\ field # "pool" => (HasPool(p) <=> HasPool(p)')
    /\ field # "priced" => PricedAssets(p)' = PricedAssets(p)
    /\ field # "listed" => (DOMAIN Reserves(p))' = DOMAIN Reserves(p)
    /\ field # "enabled" => Enabled(p)' = Enabled(p)
    /\ field # "paused" => (IsPaused(p) <=> IsPaused(p)')

LEMMA OneField ==
    ASSUME NEW p
    PROVE  /\ MarketOf(p).pool <=> HasPool(p)
           /\ MarketOf(p).priced = PricedAssets(p) /\ MarketOf(p).listed = DOMAIN Reserves(p)
           /\ MarketOf(p).enabled = Enabled(p)
           /\ MarketOf(p)'.priced = PricedAssets(p)' /\ MarketOf(p)'.listed = (DOMAIN Reserves(p))'
           /\ MarketOf(p)'.enabled = Enabled(p)'
           /\ SameBut(p, "pool") /\ HasPool(p)' => MarketOf(p)' = [MarketOf(p) EXCEPT !.pool = TRUE]
           /\ SameBut(p, "priced") => MarketOf(p)' = [MarketOf(p) EXCEPT !.priced = PricedAssets(p)']
           /\ SameBut(p, "listed") => MarketOf(p)' = [MarketOf(p) EXCEPT !.listed = (DOMAIN Reserves(p))']
           /\ SameBut(p, "enabled") => MarketOf(p)' = [MarketOf(p) EXCEPT !.enabled = Enabled(p)']
           /\ SameBut(p, "paused") /\ IsPaused(p)' => MarketOf(p)' = [MarketOf(p) EXCEPT !.paused = TRUE]
<1>1. MarketOf(p) =
         [pool |-> HasPool(p), priced |-> PricedAssets(p), listed |-> DOMAIN Reserves(p),
          enabled |-> Enabled(p), paused |-> IsPaused(p)]
    BY Zenon DEF MarketOf, HasPool, IsPaused, Enabled
<1>2. MarketOf(p)' =
         [pool |-> HasPool(p)', priced |-> PricedAssets(p)', listed |-> (DOMAIN Reserves(p))',
          enabled |-> Enabled(p)', paused |-> IsPaused(p)']
    BY Zenon DEF MarketOf, HasPool, IsPaused, Enabled
<1>3. /\ MarketOf(p).pool <=> HasPool(p)
      /\ MarketOf(p).priced = PricedAssets(p) /\ MarketOf(p).listed = DOMAIN Reserves(p)
      /\ MarketOf(p).enabled = Enabled(p)
      /\ MarketOf(p)'.priced = PricedAssets(p)' /\ MarketOf(p)'.listed = (DOMAIN Reserves(p))'
      /\ MarketOf(p)'.enabled = Enabled(p)'
    BY <1>1, <1>2
<1>4. ASSUME SameBut(p, "pool"), HasPool(p)'
      PROVE  MarketOf(p)' = [MarketOf(p) EXCEPT !.pool = TRUE]
  <2>1. /\ PricedAssets(p)' = PricedAssets(p) /\ (DOMAIN Reserves(p))' = DOMAIN Reserves(p)
        /\ Enabled(p)' = Enabled(p) /\ IsPaused(p)' = IsPaused(p)
    BY <1>4 DEF SameBut, HasPool, IsPaused
  <2>2. [[pool |-> HasPool(p), priced |-> PricedAssets(p), listed |-> DOMAIN Reserves(p),
          enabled |-> Enabled(p), paused |-> IsPaused(p)] EXCEPT !.pool = HasPool(p)']
         = [pool |-> HasPool(p)', priced |-> PricedAssets(p)', listed |-> (DOMAIN Reserves(p))',
          enabled |-> Enabled(p)', paused |-> IsPaused(p)']
    BY <2>1
  <2>3. HasPool(p)' = TRUE
    BY <1>4 DEF HasPool
  <2> QED BY <1>1, <1>2, <2>2, <2>3, Zenon
<1>5. ASSUME SameBut(p, "priced")
      PROVE  MarketOf(p)' = [MarketOf(p) EXCEPT !.priced = PricedAssets(p)']
  <2>1. HasPool(p)' = HasPool(p) /\ IsPaused(p)' = IsPaused(p)
    BY <1>5 DEF SameBut, HasPool, IsPaused
  <2>2. [[pool |-> HasPool(p), priced |-> PricedAssets(p), listed |-> DOMAIN Reserves(p),
          enabled |-> Enabled(p), paused |-> IsPaused(p)] EXCEPT !.priced = PricedAssets(p)']
         = [pool |-> HasPool(p)', priced |-> PricedAssets(p)', listed |-> (DOMAIN Reserves(p))',
          enabled |-> Enabled(p)', paused |-> IsPaused(p)']
    BY <1>5, <2>1 DEF SameBut
  <2> QED BY <1>1, <1>2, <2>2, Zenon
<1>6. ASSUME SameBut(p, "listed")
      PROVE  MarketOf(p)' = [MarketOf(p) EXCEPT !.listed = (DOMAIN Reserves(p))']
  <2>1. HasPool(p)' = HasPool(p) /\ IsPaused(p)' = IsPaused(p)
    BY <1>6 DEF SameBut, HasPool, IsPaused
  <2>2. [[pool |-> HasPool(p), priced |-> PricedAssets(p), listed |-> DOMAIN Reserves(p),
          enabled |-> Enabled(p), paused |-> IsPaused(p)] EXCEPT !.listed = (DOMAIN Reserves(p))']
         = [pool |-> HasPool(p)', priced |-> PricedAssets(p)', listed |-> (DOMAIN Reserves(p))',
          enabled |-> Enabled(p)', paused |-> IsPaused(p)']
    BY <1>6, <2>1 DEF SameBut
  <2> QED BY <1>1, <1>2, <2>2, Zenon
<1>7. ASSUME SameBut(p, "enabled")
      PROVE  MarketOf(p)' = [MarketOf(p) EXCEPT !.enabled = Enabled(p)']
  <2>1. HasPool(p)' = HasPool(p) /\ IsPaused(p)' = IsPaused(p)
    BY <1>7 DEF SameBut, HasPool, IsPaused
  <2>2. [[pool |-> HasPool(p), priced |-> PricedAssets(p), listed |-> DOMAIN Reserves(p),
          enabled |-> Enabled(p), paused |-> IsPaused(p)] EXCEPT !.enabled = Enabled(p)']
         = [pool |-> HasPool(p)', priced |-> PricedAssets(p)', listed |-> (DOMAIN Reserves(p))',
          enabled |-> Enabled(p)', paused |-> IsPaused(p)']
    BY <1>7, <2>1 DEF SameBut
  <2> QED BY <1>1, <1>2, <2>2, Zenon
<1>8. ASSUME SameBut(p, "paused"), IsPaused(p)'
      PROVE  MarketOf(p)' = [MarketOf(p) EXCEPT !.paused = TRUE]
  <2>1. /\ PricedAssets(p)' = PricedAssets(p) /\ (DOMAIN Reserves(p))' = DOMAIN Reserves(p)
        /\ Enabled(p)' = Enabled(p) /\ HasPool(p)' = HasPool(p)
    BY <1>8 DEF SameBut, HasPool, IsPaused
  <2>2. [[pool |-> HasPool(p), priced |-> PricedAssets(p), listed |-> DOMAIN Reserves(p),
          enabled |-> Enabled(p), paused |-> IsPaused(p)] EXCEPT !.paused = IsPaused(p)']
         = [pool |-> HasPool(p)', priced |-> PricedAssets(p)', listed |-> (DOMAIN Reserves(p))',
          enabled |-> Enabled(p)', paused |-> IsPaused(p)']
    BY <2>1
  <2>3. IsPaused(p)' = TRUE
    BY <1>8 DEF IsPaused
  <2> QED BY <1>1, <1>2, <2>2, <2>3, Zenon
<1> QED BY <1>3, <1>4, <1>5, <1>6, <1>7, <1>8, Zenon

LEMMA OracleGiven ==
    ASSUME MInv, LInv, PricedScripts, SetAddress, step.id = "PriceOracle"
    PROVE  LInv' /\ Lifecycle!Next
<1>1. /\ Active /\ AtStep /\ ~Throws /\ Proceed /\ UNCHANGED <<db, gateway>> /\ RunOK /\ step.op = "SetAddress"
      /\ AddressesOK /\ StaysOK /\ JobOK /\ IInv
    BY DEF SetAddress, Takes, AtStep, Active, MInv, IInv, LInv
<1>2. Continues /\ SameProcess
    BY <1>1, Proceeds DEF Continues, SameProcess
<1>3. ProviderOK
    BY <1>1, StepOrder, WhatIsDone
<1> PICK p : p = Provider
    OBVIOUS
<1> PICK v : v = Value(step.value)
    OBVIOUS
<1> PICK id : id = step.value.id
    OBVIOUS
<1>4. /\ step.value.from = "db" /\ id \in Oracles /\ HaveFor(Done, "Deploy", id)
      /\ Listings(job.tasks) \subseteq PricesLeft(Done, id)
    BY <1>1, StepIsPriced
<1>5. v = db[id]
    BY <1>4 DEF Value
<1>6. NamedOK(id) /\ OnlyProviderAsks(id)
  <2>1. PICK s \in Done : s.op = "Deploy" /\ s.id = id
    BY <1>4 DEF HaveFor
  <2>2. id \in Named /\ Leaves(s)
    BY <1>1, <1>4, <2>1 DEF Named, JobOK
  <2> QED BY <1>4, <2>1, <2>2 DEF Leaves
<1>7. Listings(job.tasks) \subseteq contracts[v].data
  <2>1. \A s \in Done : s.op = "Deploy" /\ s.id = id => s.data \subseteq contracts[v].data
    BY <1>1, <1>4, <1>5 DEF JobOK, Leaves, PricesSet
  <2>2. \A s \in Done : SetsPrices(s, id) => s.assets \subseteq contracts[v].data
    BY <1>1, <1>4, <1>5 DEF JobOK, Leaves, PricesSet
  <2>3. PricesLeft(Done, id) \subseteq contracts[v].data
    BY <2>1, <2>2 DEF PricesLeft
  <2> QED BY <1>4, <2>3
<1>8. v \in DOMAIN contracts /\ contracts[v].kind \in Oracles /\ v # NoAddress
    BY <1>1, <1>4, <1>5, <1>6, NoAddressIsExternal, ExternalIsNoContract DEF NamedOK, New
<1>9. /\ p \in Markets /\ p \in DOMAIN contracts /\ New(p) /\ contracts[p].kind = "LendingPoolAddressesProvider"
      /\ ProxyIds \union {"PriceOracle"} \subseteq DOMAIN contracts[p].ref
    BY <1>3, OwnProvider
<1>10. SetsRef(p, "PriceOracle", v)
    BY DEF SetAddress, SetsRef
<1>11. "LendingPool" \in ProxyIds /\ "LendingPoolConfigurator" \in ProxyIds /\ "PriceOracle" \notin ProxyIds
    BY DEF ProxyIds
<1>12. /\ DOMAIN contracts' = DOMAIN contracts
       /\ \A a \in DOMAIN contracts : a # p => contracts'[a] = contracts[a]
       /\ contracts'[p].kind = contracts[p].kind /\ contracts'[p].data = contracts[p].data
       /\ contracts'[p].ref["PriceOracle"] = v
       /\ \A i \in ProxyIds : contracts'[p].ref[i] = contracts[p].ref[i]
       /\ DOMAIN contracts'[p].ref = DOMAIN contracts[p].ref
  <2>1. \A i \in DOMAIN contracts[p].ref :
            contracts'[p].ref[i] = IF i = "PriceOracle" THEN v ELSE contracts[p].ref[i]
    BY <1>1, <1>9, <1>10, RefSet
  <2> QED BY <1>1, <1>9, <1>10, <1>11, <2>1, RefSet
<1>13. Rooted /\ KeepsPrices
    BY <1>9, <1>12 DEF Rooted, KeepsPrices, Oracles
<1>14. Markets' = Markets
    BY <1>12, <1>13, MarketIs, ZenonT(60) DEF Rooted
<1>15. KeepsRef("LendingPool") /\ KeepsRef("LendingPoolConfigurator")
    BY <1>11, <1>12, <1>14, MarketIs DEF KeepsRef
<1>16. \A q \in Markets : q # p => contracts'[q] = contracts[q]
    BY <1>12, MarketIs
<1>17. ProvidersOK'
  <2>1. \A q \in Markets' : "PriceOracle" \in DOMAIN contracts'[q].ref
    BY <1>1, <1>9, <1>12, <1>14, <1>16 DEF StaysOK, ProvidersOK
  <2>2. \A a \in DOMAIN contracts : IsPool(contracts[a]) => IsPool(contracts'[a])
    BY <1>9, <1>12 DEF IsPool
  <2> QED BY <1>1, <1>13, <1>15, <2>1, <2>2, ProvidersKept DEF StaysOK
<1>18. OraclesOK'
  <2>1. ASSUME NEW q \in Markets, q # p, NEW r \in Markets, contracts[q].ref["PriceOracle"] = contracts'[r].ref["PriceOracle"]
        PROVE  q = r \/ contracts[q].ref["PriceOracle"] = NoAddress
    BY <1>1, <1>5, <1>6, <1>12, <1>16, <2>1 DEF StaysOK, OraclesOK, OnlyProviderAsks
  <2>2. \A q, r \in Markets' : contracts'[q].ref["PriceOracle"] = contracts'[r].ref["PriceOracle"] =>
            q = r \/ contracts'[q].ref["PriceOracle"] = NoAddress
    BY <1>14, <1>16, <2>1
  <2>3. ASSUME NEW q \in Markets, NEW o, o = contracts'[q].ref["PriceOracle"], o # NoAddress
        PROVE  o \in DOMAIN contracts' /\ contracts'[o].kind \in Oracles
    <3>1. o \in DOMAIN contracts /\ contracts[o].kind \in Oracles
      BY <1>1, <1>8, <1>12, <1>16, <2>3 DEF StaysOK, OraclesOK, OracleFits
    <3> QED BY <1>13, <3>1 DEF Rooted
  <2>4. \A o \in DOMAIN contracts' : contracts'[o].kind \in Oracles => contracts'[o].data \subseteq Asset
    BY <1>1, <1>9, <1>12 DEF StaysOK, OraclesOK
  <2> QED BY <1>14, <2>2, <2>3, <2>4 DEF OraclesOK, OracleFits
<1>19. Reserves(p)' = Reserves(p) /\ PricedAssets(p)' = contracts[v].data
       /\ MarketOf(p)' = [MarketOf(p) EXCEPT !.priced = contracts[v].data]
  <2> PICK a : a = contracts[p].ref["LendingPool"]
    OBVIOUS
  <2>1. a # NoAddress => a \in DOMAIN contracts /\ contracts'[a] = contracts[a]
    BY <1>1, <1>9, <1>12 DEF StaysOK, ProvidersOK, PoolFits, IsPool
  <2>2. Provided(p, "LendingPool")' = a /\ Provided(p, "LendingPool") = a
    BY <1>11, <1>12 DEF Provided
  <2>3. Reserves(p)' = Reserves(p)
    BY <2>1, <2>2 DEF Reserves
  <2>4. PricedAssets(p)' = contracts[v].data
    BY <1>8, <1>9, <1>12 DEF PricedAssets, Provided, Oracles
  <2>5. (HasPool(p) <=> HasPool(p)') /\ (IsPaused(p) <=> IsPaused(p)') /\ Enabled(p)' = Enabled(p)
    BY <2>1, <2>2, <2>3 DEF HasPool, IsPaused, Enabled
  <2>6. SameBut(p, "priced")
    BY <2>3, <2>5 DEF SameBut
  <2>7. MarketOf(p)' = [MarketOf(p) EXCEPT !.priced = PricedAssets(p)']
    BY <2>6, OneField
  <2> QED BY <2>3, <2>4, <2>7
<1>20. OthersStay({p})
  <2>1. ASSUME NEW q \in Markets, q # p, NEW a \in DOMAIN contracts
        PROVE  /\ a = contracts[q].ref["LendingPool"] => SamePool(a)
               /\ a = contracts[q].ref["PriceOracle"] => SamePrices(a)
    <3>1. a # NoAddress
      BY <1>1, NoAddressIsExternal, ExternalIsNoContract
    <3>2. a = contracts[q].ref["LendingPool"] => a # p
      BY <1>1, <1>9, <2>1, <3>1 DEF StaysOK, ProvidersOK, PoolFits, IsPool
    <3>3. a = contracts[q].ref["PriceOracle"] => a # p
      BY <1>1, <1>9, <2>1, <3>1 DEF StaysOK, OraclesOK, OracleFits, Oracles
    <3> QED BY <1>12, <3>2, <3>3 DEF SamePool, SamePrices
  <2>2. ASSUME NEW q \in Markets, q # p
        PROVE  Reserves(q)' = Reserves(q) /\ PricedAssets(q)' = PricedAssets(q) /\ MarketOf(q)' = MarketOf(q)
    BY <1>1, <1>13, <1>16, <2>1, <2>2, MarketStays
  <2> QED BY <2>2 DEF OthersStay
<1>21. ListedFits(p) /\ ListedFits(p)' /\ (DOMAIN Reserves(p))' \subseteq PricedAssets(p)'
  <2>1. ListedFits(p)
    BY <1>1, <1>9 DEF JobOK, ListedOK
  <2>2. job' = job
    BY <1>2, GentleJob
  <2>3. \A a : Params(a)' = Params(a)
    BY <2>2 DEF Params
  <2> QED BY <1>7, <1>19, <2>1, <2>2, <2>3 DEF ListedFits
<1>22. OthersKeepOracle
    BY <1>3, <1>14, <1>16 DEF OthersKeepOracle
<1>23. PricedForJob'
  <2>1. ProviderOK' /\ Provider' = p
    BY <1>1, <1>2, <1>3, <1>13, ProviderStays DEF SameEntry, ProviderOK
  <2>2. job' = job
    BY <1>2, GentleJob
  <2> QED BY <1>7, <1>8, <1>12, <1>19, <2>1, <2>2 DEF PricedForJob, PricedAssets, Provided
<1>24. \A s : s = step => Leaves(s)'
    BY <1>1, <1>23 DEF Leaves, SetsPrices
<1>25. LInv' /\ p \in DOMAIN Shown /\ Shown' = [Shown EXCEPT ![p] = MarketOf(p)']
    BY <1>1, <1>2, <1>3, <1>11, <1>12, <1>13, <1>14, <1>17, <1>18, <1>20, <1>21, <1>22, <1>23, <1>24, MarketStep
<1>26. Lifecycle!Price(p)
  <2>1. Shown[p] = MarketOf(p) /\ Shown'[p] = MarketOf(p)'
    BY <1>9, <1>14 DEF Shown
  <2>2. MarketOf(p)'.priced = contracts[v].data /\ MarketOf(p).listed = DOMAIN Reserves(p)
    BY <1>19 DEF MarketOf
  <2>3. contracts[v].data \subseteq Asset
    BY <1>1, <1>8 DEF StaysOK, OraclesOK
  <2>4. DOMAIN Reserves(p) \subseteq contracts[v].data
    BY <1>19, <1>21
  <2> QED BY <1>19, <1>25, <2>1, <2>2, <2>3, <2>4 DEF Lifecycle!Price, Shown
<1> QED BY <1>25, <1>26 DEF Lifecycle!Next, Shown

\* The provider's other addresses are nothing that a market shows.
LEMMA AddressGiven ==
    ASSUME MInv, LInv, SetAddress, step.id # "PriceOracle"
    PROVE  LInv' /\ Shown' = Shown
<1>1. /\ Active /\ AtStep /\ ~Throws /\ Proceed /\ UNCHANGED <<db, gateway>> /\ RunOK /\ step.op = "SetAddress"
      /\ \E v : SetsRef(Provider, step.id, v)
    BY DEF SetAddress, Takes, AtStep, Active, MInv, IInv, SetsRef
<1>2. ProviderOK /\ step.id \notin ProxyIds
    BY <1>1, StepOrder, WhatIsDone, StepIsOrdered DEF SetsInOrder
<1>3. Calm
    BY <1>1, <1>2, CalmRef
<1>4. \A s : s = step => Leaves(s)'
    BY <1>1 DEF Leaves, SetsPrices
<1> QED BY <1>1, <1>3, <1>4, Proceeds, CalmStep
-----------------------------------------------------------------------------
\* A change to the pool of this job's market: no other market has it.
LEMMA PoolChange ==
    ASSUME MInv, LInv, ProviderOK, NEW p, p = Provider, NEW x, x = contracts[p].ref["LendingPool"], x # NoAddress,
           NEW f \in {"reserves", "paused"}, NEW v, SetsField(x, f, v),
           f = "reserves" => \A a \in DOMAIN v : "threshold" \in DOMAIN v[a]
    PROVE  /\ Rooted /\ Markets' = Markets /\ OthersStay({p}) /\ ProvidersOK' /\ OraclesOK'
           /\ KeepsPrices /\ OthersKeepOracle
           /\ contracts'[p] = contracts[p] /\ PricedAssets(p)' = PricedAssets(p)
           /\ x \in DOMAIN contracts /\ contracts[x].kind = "LendingPool"
           /\ Reserves(p) = contracts[x].reserves /\ Reserves(p)' = contracts'[x].reserves
           /\ HasPool(p) /\ HasPool(p)'
           /\ (IsPaused(p) <=> contracts[x].paused) /\ (IsPaused(p)' <=> contracts'[x].paused)
           /\ f = "reserves" => contracts'[x].reserves = v /\ contracts'[x].paused = contracts[x].paused
           /\ f = "paused" => contracts'[x].reserves = contracts[x].reserves
<1>1. StaysOK /\ IInv /\ AddressesOK
    BY DEF LInv, MInv
<1>2. p \in Markets /\ p \in DOMAIN contracts /\ contracts[p].kind = "LendingPoolAddressesProvider"
    BY OwnProvider
<1>3. PoolFits(p, x)
    BY <1>1, <1>2 DEF StaysOK, ProvidersOK
<1>4. /\ x \in DOMAIN contracts /\ contracts[x].kind = "LendingPool" /\ p # x
      /\ contracts[x].ref["provider"] = p
      /\ {"reserves", "paused", "kind", "ref", "data"} \subseteq DOMAIN contracts[x]
  <2>1. x \in DOMAIN contracts /\ contracts[x].kind = "LendingPool" /\ contracts[x].ref["provider"] = p
        /\ "paused" \in DOMAIN contracts[x]
    BY <1>3 DEF PoolFits, IsPool
  <2>2. "reserves" \in DOMAIN contracts[x]
    BY <1>1, <2>1 DEF IInv, IsNetwork, IsContract
  <2>3. {"kind", "owner", "ref", "data"} \subseteq DOMAIN contracts[x]
    BY <1>1, <2>1, FieldsOf
  <2> QED BY <1>2, <2>1, <2>2, <2>3
<1>5. /\ DOMAIN contracts' = DOMAIN contracts
      /\ \A a \in DOMAIN contracts : a # x => contracts'[a] = contracts[a]
      /\ DOMAIN contracts'[x] = DOMAIN contracts[x]
      /\ \A g \in DOMAIN contracts[x] : contracts'[x][g] = IF g = f THEN v ELSE contracts[x][g]
    BY <1>1, <1>4, FieldSet
<1>6. /\ contracts'[x].kind = contracts[x].kind /\ contracts'[x].ref = contracts[x].ref
      /\ contracts'[x].data = contracts[x].data
      /\ contracts'[x].reserves = (IF f = "reserves" THEN v ELSE contracts[x].reserves)
      /\ contracts'[x].paused = (IF f = "paused" THEN v ELSE contracts[x].paused)
    BY <1>4, <1>5
<1>7. Rooted /\ KeepsPrices
    BY <1>4, <1>5, <1>6 DEF Rooted, KeepsPrices, Oracles
<1>8. Markets' = Markets
  <2>1. \A a \in DOMAIN contracts : contracts'[a].kind = contracts[a].kind
    BY <1>7 DEF Rooted
  <2> QED BY <1>5, <2>1 DEF Markets, OfKind
<1>9. \A q \in Markets : contracts'[q] = contracts[q]
    BY <1>4, <1>5, MarketIs
<1>10. /\ \A id : KeepsRef(id)
       /\ OthersKeepOracle
    BY <1>8, <1>9 DEF KeepsRef, OthersKeepOracle
<1>11. ProvidersOK'
  <2>1. \A q \in Markets' : "PriceOracle" \in DOMAIN contracts'[q].ref
    BY <1>1, <1>8, <1>9 DEF StaysOK, ProvidersOK
  <2>2. IsPool(contracts'[x])
    BY <1>3, <1>5, <1>6 DEF PoolFits, IsPool
  <2>3. \A a \in DOMAIN contracts : IsPool(contracts[a]) => IsPool(contracts'[a])
    BY <1>5, <2>2
  <2> QED BY <1>1, <1>7, <1>10, <2>1, <2>3, ProvidersKept DEF StaysOK
<1>12. OraclesOK'
  <2>1. \A o \in DOMAIN contracts' : contracts'[o].kind \in Oracles => contracts'[o].data \subseteq Asset
    BY <1>1, <1>4, <1>5, <1>6 DEF StaysOK, OraclesOK
  <2> QED BY <1>1, <1>7, <1>10, <2>1, OraclesKept DEF StaysOK
<1>13. \A q \in Markets, a \in DOMAIN contracts : a = contracts[q].ref["PriceOracle"] => SamePrices(a)
    BY <1>5, <1>6 DEF SamePrices
<1>14. OthersStay({p})
  <2>1. ASSUME NEW q \in Markets, q # p, NEW a \in DOMAIN contracts, a = contracts[q].ref["LendingPool"]
        PROVE  SamePool(a)
    <3>1. a # NoAddress
      BY <1>1, NoAddressIsExternal, ExternalIsNoContract
    <3>2. contracts[a].ref["provider"] = q
      BY <1>1, <2>1, <3>1 DEF StaysOK, ProvidersOK, PoolFits
    <3>3. a # x
      BY <1>4, <2>1, <3>2
    <3> QED BY <1>5, <3>3 DEF SamePool
  <2>2. ASSUME NEW q \in Markets, q # p
        PROVE  Reserves(q)' = Reserves(q) /\ PricedAssets(q)' = PricedAssets(q) /\ MarketOf(q)' = MarketOf(q)
    BY <1>1, <1>7, <1>9, <1>13, <2>1, <2>2, MarketStays
  <2> QED BY <2>2 DEF OthersStay
<1>15. PricedAssets(p)' = PricedAssets(p)
  <2> PICK o : o = contracts[p].ref["PriceOracle"]
    OBVIOUS
  <2>1. o # NoAddress => o \in DOMAIN contracts /\ contracts'[o].data = contracts[o].data
    BY <1>1, <1>2, <1>13 DEF StaysOK, OraclesOK, OracleFits, SamePrices
  <2> QED BY <1>2, <1>9, <2>1 DEF PricedAssets, Provided
<1>16. contracts'[p] = contracts[p]
    BY <1>2, <1>9
<1>17. Provided(p, "LendingPool") = x /\ Provided(p, "LendingPool")' = x
    BY <1>16 DEF Provided
<1>18. /\ Reserves(p) = contracts[x].reserves /\ Reserves(p)' = contracts'[x].reserves
       /\ HasPool(p) /\ HasPool(p)'
       /\ (IsPaused(p) <=> contracts[x].paused) /\ (IsPaused(p)' <=> contracts'[x].paused)
    BY <1>17 DEF Reserves, HasPool, IsPaused
<1> QED BY <1>4, <1>6, <1>7, <1>8, <1>10, <1>11, <1>12, <1>14, <1>15, <1>16, <1>18

LEMMA PoolStep ==
    ASSUME MInv, LInv, AtStep, Continues, UNCHANGED <<db, gateway>>, step.op \notin Telling,
           ProviderOK, NEW p, p = Provider, NEW x, x = contracts[p].ref["LendingPool"], x # NoAddress,
           NEW f \in {"reserves", "paused"}, NEW v, SetsField(x, f, v),
           f = "reserves" => \A a \in DOMAIN v : "threshold" \in DOMAIN v[a],
           (DOMAIN Reserves(p))' \subseteq PricedAssets(p), ListedFits(p)'
    PROVE  /\ LInv' /\ p \in DOMAIN Shown
           /\ Shown' = [Shown EXCEPT ![p] = MarketOf(p)']
<1>1. /\ Rooted /\ Markets' = Markets /\ OthersStay({p}) /\ ProvidersOK' /\ OraclesOK'
      /\ KeepsPrices /\ OthersKeepOracle
      /\ contracts'[p] = contracts[p] /\ PricedAssets(p)' = PricedAssets(p)
    BY PoolChange
<1>2. \A s : s = step => Leaves(s)'
    BY SaysNothing
<1> QED BY <1>1, <1>2, MarketStep

\* The pool of the configurator that is saved.
LEMMA SavedPool ==
    ASSUME MInv, LInv, RunOK, AtStep, step.op \in {"SetPoolPause", "InitReserve"}, NEW p, p = Provider
    PROVE  /\ ProviderOK
           /\ PoolOf(db["LendingPoolConfigurator"]) = contracts[p].ref["LendingPool"]
           /\ contracts[p].ref["LendingPool"] # NoAddress
<1>1. Active /\ JobOK /\ StaysOK
    BY DEF AtStep, Active, LInv
<1>2. ConfiguratorSaved
    BY <1>1, StepOrder DEF JobOK, Leaves, HaveFor
<1>3. p \in Markets
    BY <1>2, OwnProvider DEF ConfiguratorSaved
<1>4. ConfiguratorFits(p, db["LendingPoolConfigurator"])
    BY <1>1, <1>2, <1>3 DEF ConfiguratorSaved, StaysOK, ProvidersOK
<1> QED BY <1>2, <1>4 DEF ConfiguratorSaved, ConfiguratorFits

LEMMA PoolPaused ==
    ASSUME MInv, LInv, SetPoolPause
    PROVE  LInv' /\ Lifecycle!Next
<1>1. /\ Active /\ AtStep /\ ~Throws /\ Proceed /\ UNCHANGED <<db, gateway>> /\ RunOK /\ step.op = "SetPoolPause"
      /\ step.op \notin Telling /\ StaysOK /\ JobOK
    BY DEF SetPoolPause, Takes, AtStep, Active, MInv, IInv, Telling, LInv
<1>2. Continues /\ SameProcess
    BY <1>1, Proceeds DEF Continues, SameProcess
<1> PICK p : p = Provider
    OBVIOUS
<1> PICK x : x = contracts[p].ref["LendingPool"]
    OBVIOUS
<1>3. ProviderOK /\ x = PoolOf(db["LendingPoolConfigurator"]) /\ x # NoAddress
    BY <1>1, SavedPool
<1>4. contracts' = [contracts EXCEPT ![x].paused = TRUE]
    BY <1>3 DEF SetPoolPause
<1> PICK v : SetsField(x, "paused", v)
    BY <1>4 DEF SetsField
<1> PICK f : f = "paused"
    OBVIOUS
<1>5. /\ PricedAssets(p)' = PricedAssets(p) /\ Reserves(p)' = Reserves(p)
      /\ HasPool(p) /\ HasPool(p)' /\ IsPaused(p)'
  <2>1. f \in {"reserves", "paused"} /\ f # "reserves" /\ SetsField(x, f, v)
    OBVIOUS
  <2>2. /\ PricedAssets(p)' = PricedAssets(p)
        /\ Reserves(p) = contracts[x].reserves /\ Reserves(p)' = contracts'[x].reserves
    BY <1>3, <2>1, PoolChange
  <2>5. f = "paused" => contracts'[x].reserves = contracts[x].reserves
    BY <1>3, <2>1, PoolChange
  <2>3. HasPool(p) /\ HasPool(p)' /\ (IsPaused(p)' <=> contracts'[x].paused)
    BY <1>3, <2>1, PoolChange
  <2>4. contracts'[x].paused
    <3>1. IsContract(contracts[x]) /\ x \in DOMAIN contracts /\ "paused" \in DOMAIN contracts[x]
      <4>1. p \in Markets
        BY <1>3, OwnProvider
      <4>2. PoolFits(p, x)
        BY <1>1, <1>3, <4>1 DEF StaysOK, ProvidersOK
      <4> QED BY <4>2 DEF PoolFits, IsPool, MInv, IInv, IsNetwork
    <3> QED BY <1>4, <3>1 DEF IsContract
  <2> QED BY <2>1, <2>2, <2>3, <2>4, <2>5
<1>6. p \in Markets /\ New(p)
    BY <1>3, OwnProvider
<1>7. DOMAIN Reserves(p) \subseteq PricedAssets(p) /\ ListedFits(p)
    BY <1>1, <1>6 DEF StaysOK, PricedOK, JobOK, ListedOK
<1>8. ListedFits(p)'
  <2>1. job' = job
    BY <1>2, GentleJob
  <2>2. \A a : Params(a)' = Params(a)
    BY <2>1 DEF Params
  <2> QED BY <1>5, <1>7, <2>1, <2>2 DEF ListedFits
<1>9. LInv' /\ p \in DOMAIN Shown /\ Shown' = [Shown EXCEPT ![p] = MarketOf(p)']
  <2>1. f \in {"reserves", "paused"} /\ f # "reserves" /\ SetsField(x, f, v)
    OBVIOUS
  <2>2. (DOMAIN Reserves(p))' \subseteq PricedAssets(p)
    BY <1>5, <1>7
  <2> QED BY <1>1, <1>2, <1>3, <1>8, <2>1, <2>2, PoolStep
<1>10. SameBut(p, "paused")
    BY <1>5 DEF SameBut, Enabled
<1>11. MarketOf(p)' = [MarketOf(p) EXCEPT !.paused = TRUE] /\ (MarketOf(p).pool <=> HasPool(p))
    BY <1>5, <1>10, OneField
<1>12. Shown[p] = MarketOf(p)
    BY <1>6 DEF Shown
<1>13. Shown[p].pool /\ Shown' = [Shown EXCEPT ![p].paused = TRUE]
    BY <1>5, <1>9, <1>11, <1>12
<1>14. Lifecycle!Pause(p)
    BY <1>13 DEF Lifecycle!Pause, Shown
<1> QED BY <1>9, <1>14 DEF Lifecycle!Next, Shown

\* The reserves of its pool.
LEMMA ReservesChange ==
    ASSUME MInv, LInv, ProviderOK, NEW p, p = Provider, NEW x, x = contracts[p].ref["LendingPool"], x # NoAddress,
           NEW v, SetsField(x, "reserves", v), \A a \in DOMAIN v : "threshold" \in DOMAIN v[a]
    PROVE  /\ PricedAssets(p)' = PricedAssets(p)
           /\ Reserves(p) = contracts[x].reserves /\ Reserves(p)' = v
           /\ HasPool(p) /\ HasPool(p)' /\ (IsPaused(p) <=> IsPaused(p)')
<1> PICK f : f = "reserves"
    OBVIOUS
<1>1. f \in {"reserves", "paused"} /\ SetsField(x, f, v)
    OBVIOUS
<1>2. /\ PricedAssets(p)' = PricedAssets(p)
      /\ Reserves(p) = contracts[x].reserves /\ Reserves(p)' = contracts'[x].reserves
  <2>1. f = "reserves" => \A a \in DOMAIN v : "threshold" \in DOMAIN v[a]
    OBVIOUS
  <2>2. PricedAssets(p)' = PricedAssets(p)
    BY ONLY MInv, LInv, ProviderOK, p = Provider, x = contracts[p].ref["LendingPool"], x # NoAddress, <1>1, <2>1,
            PoolChange, ZenonT(180)
  <2>3. Reserves(p) = contracts[x].reserves
    BY ONLY MInv, LInv, ProviderOK, p = Provider, x = contracts[p].ref["LendingPool"], x # NoAddress, <1>1, <2>1,
            PoolChange, ZenonT(180)
  <2>4. Reserves(p)' = contracts'[x].reserves
    BY ONLY MInv, LInv, ProviderOK, p = Provider, x = contracts[p].ref["LendingPool"], x # NoAddress, <1>1, <2>1,
            PoolChange, ZenonT(180)
  <2> QED BY <2>2, <2>3, <2>4
<1>3. HasPool(p) /\ HasPool(p)' /\ contracts'[p] = contracts[p]
    BY <1>1, PoolChange
<1>4. contracts'[x].reserves = v /\ contracts'[x].paused = contracts[x].paused
  <2>1. x \in DOMAIN contracts /\ contracts[x].kind = "LendingPool"
    BY <1>1, PoolChange
  <2>2. PoolFits(p, x)
    BY OwnProvider DEF LInv, StaysOK, ProvidersOK
  <2>3. IInv
    BY DEF MInv
  <2>4. "reserves" \in DOMAIN contracts[x]
    BY <2>1, <2>3 DEF IInv, IsNetwork, IsContract
  <2>5. "paused" \in DOMAIN contracts[x]
    BY <2>2 DEF PoolFits, IsPool
  <2> QED BY <2>1, <2>3, <2>4, <2>5, FieldSet
<1>5. IsPaused(p) <=> IsPaused(p)'
  <2>1. Provided(p, "LendingPool") = x /\ Provided(p, "LendingPool")' = x
    BY <1>3 DEF Provided
  <2>2. IsPaused(p) <=> contracts[x].paused
    BY <2>1 DEF IsPaused, HasPool
  <2>3. IsPaused(p)' <=> contracts'[x].paused
    BY <2>1 DEF IsPaused, HasPool
  <2> QED BY <1>4, <2>2, <2>3
<1> QED BY <1>2, <1>3, <1>4, <1>5

\* A reserve that is listed is not enabled, and has a price.
LEMMA ReserveListed ==
    ASSUME MInv, LInv, PricedScripts, InitReserve
    PROVE  LInv' /\ Lifecycle!Next
<1>1. /\ Active /\ AtStep /\ ~Throws /\ Proceed /\ UNCHANGED <<db, gateway>> /\ RunOK /\ step.op = "InitReserve"
      /\ step.op \notin Telling /\ StaysOK /\ JobOK /\ Accepts
    BY DEF InitReserve, Takes, AtStep, Active, MInv, IInv, Telling, LInv
<1>2. Continues /\ SameProcess
    BY <1>1, Proceeds DEF Continues, SameProcess
<1> PICK p : p = Provider
    OBVIOUS
<1> PICK x : x = contracts[p].ref["LendingPool"]
    OBVIOUS
<1> PICK r : r = step.reserve
    OBVIOUS
<1> PICK u : u = UnconfiguredReserve(db[step.strategy])
    OBVIOUS
<1> PICK v : v = Extend(contracts[x].reserves, r, u)
    OBVIOUS
<1> PICK f : f = "reserves"
    OBVIOUS
<1>3. ProviderOK /\ x = PoolOf(db["LendingPoolConfigurator"]) /\ x # NoAddress
    BY <1>1, SavedPool
<1>4. SetsField(x, f, v) /\ f \in {"reserves", "paused"}
    BY <1>3 DEF InitReserve, SetsField
<1>5. p \in Markets /\ New(p)
    BY <1>3, OwnProvider
<1>6. PoolFits(p, x)
    BY <1>1, <1>3, <1>5 DEF StaysOK, ProvidersOK
<1>7. "threshold" \in DOMAIN u /\ u.threshold = 0
    BY DEF UnconfiguredReserve
<1>8. /\ DOMAIN v = DOMAIN contracts[x].reserves \union {r} /\ v[r] = u
      /\ \A a \in DOMAIN contracts[x].reserves : a # r => v[a] = contracts[x].reserves[a]
    BY DEF Extend
<1>9. \A a \in DOMAIN v : "threshold" \in DOMAIN v[a]
    BY <1>6, <1>7, <1>8, SMTT(30) DEF PoolFits, IsPool
<1>10. /\ PricedAssets(p)' = PricedAssets(p)
       /\ Reserves(p) = contracts[x].reserves /\ Reserves(p)' = v
       /\ HasPool(p) /\ HasPool(p)' /\ (IsPaused(p) <=> IsPaused(p)')
    BY <1>3, <1>4, <1>9, ReservesChange
<1>11. r \in Listings(job.tasks) /\ r \notin DOMAIN Reserves(p)
    BY <1>1, <1>3, <1>10, StepIsListing DEF Accepts
<1>12. r \in PricedAssets(p)
  <2>1. HaveFor(Done, "SetAddress", "PriceOracle")
    BY <1>1, StepIsPriced
  <2>2. PricedForJob
    BY <1>1, <2>1 DEF HaveFor, JobOK, Leaves
  <2> QED BY <1>11, <2>2 DEF PricedForJob
<1>13. DOMAIN Reserves(p) \subseteq PricedAssets(p) /\ ListedFits(p)
    BY <1>1, <1>5 DEF StaysOK, PricedOK, JobOK, ListedOK
<1>14. ListedFits(p)'
  <2>1. job' = job
    BY <1>2, GentleJob
  <2>2. \A a : Params(a)' = Params(a)
    BY <2>1 DEF Params
  <2>3. ASSUME NEW a \in DOMAIN v
        PROVE  a \in Listings(job.tasks) /\ v[a].threshold \in {0, Params(a).liquidationThreshold}
    BY <1>7, <1>8, <1>10, <1>11, <1>13 DEF ListedFits
  <2> QED BY <1>10, <2>1, <2>2, <2>3 DEF ListedFits
<1>15. (DOMAIN Reserves(p))' = DOMAIN Reserves(p) \union {r}
    BY <1>8, <1>10
<1>16. LInv' /\ p \in DOMAIN Shown /\ Shown' = [Shown EXCEPT ![p] = MarketOf(p)']
  <2>1. (DOMAIN Reserves(p))' \subseteq PricedAssets(p)
    BY <1>12, <1>13, <1>15
  <2> QED BY <1>1, <1>2, <1>3, <1>4, <1>9, <1>14, <2>1, PoolStep
<1>17. Enabled(p)' = Enabled(p)
    BY <1>7, <1>8, <1>10, <1>11, ZenonT(60) DEF Enabled
<1>18. SameBut(p, "listed")
    BY <1>10, <1>17 DEF SameBut
<1>19. /\ MarketOf(p)' = [MarketOf(p) EXCEPT !.listed = DOMAIN Reserves(p) \union {r}]
       /\ MarketOf(p).pool /\ MarketOf(p).priced = PricedAssets(p) /\ MarketOf(p).listed = DOMAIN Reserves(p)
    BY <1>10, <1>15, <1>18, OneField
<1>20. Shown[p] = MarketOf(p)
    BY <1>5 DEF Shown
<1>21. Shown[p].pool /\ r \in Shown[p].priced \ Shown[p].listed
       /\ Shown' = [Shown EXCEPT ![p].listed = @ \union {r}]
    BY <1>11, <1>12, <1>16, <1>19, <1>20
<1>22. Lifecycle!List(p)
    BY <1>21 DEF Lifecycle!List, Shown
<1> QED BY <1>16, <1>22 DEF Lifecycle!Next, Shown

\* Configuring a reserve leaves it enabled.
LEMMA Configured1 ==
    ASSUME NEW r, "threshold" \in DOMAIN r, NEW q
    PROVE  "threshold" \in DOMAIN Configure(r, q) /\ Configure(r, q).threshold = q.liquidationThreshold
BY DEF Configure

LEMMA ReservesEnabled ==
    ASSUME MInv, LInv, ConfigureReserves
    PROVE  LInv' /\ (Lifecycle!Next \/ Shown' = Shown)
<1>1. /\ Active /\ AtStep /\ ~Throws /\ UNCHANGED <<db, gateway>> /\ RunOK /\ step.op = "ConfigureReserves"
      /\ step.op \notin Telling /\ StaysOK /\ JobOK
      /\ \E v, w : w \in {run.pc, run.pc + 1} /\ run' = [run EXCEPT !.todo = v, !.pc = w]
    BY DEF ConfigureReserves, Takes, AtStep, Active, MInv, IInv, Telling, LInv
<1>2. Continues /\ SameProcess
    BY <1>1, RunProceeds DEF Continues, SameProcess
<1>3. CASE run.todo = << >>
  <2>1. Calm
    BY <1>3 DEF ConfigureReserves, Calm, Rooted
  <2> QED BY <1>1, <1>2, <2>1, SaysNothing, CalmStep
<1>4. CASE run.todo # << >>
  <2> PICK p : p = Provider
    OBVIOUS
  <2> PICK x : x = contracts[p].ref["LendingPool"]
    OBVIOUS
  <2> PICK chosen : chosen = {Chunk[i] : i \in DOMAIN Chunk}
    OBVIOUS
  <2> PICK R : R = contracts[x].reserves
    OBVIOUS
  <2> PICK v : v = [a \in DOMAIN R |-> IF a \in chosen THEN Configure(R[a], Params(a)) ELSE R[a]]
    OBVIOUS
  <2> PICK f : f = "reserves"
    OBVIOUS
  <2>1. ProviderOK /\ x = PoolOf(contracts[ReservesHelper].ref["configurator"]) /\ x # NoAddress
    <3>1. HelperOK
      BY <1>1, StepOrder, WhatIsDone DEF Deployed
    <3> PICK c : c = contracts[p].ref["LendingPoolConfigurator"]
      OBVIOUS
    <3>2. ProviderOK /\ contracts[ReservesHelper].ref["configurator"] = c /\ c # NoAddress
      BY <3>1, NoAddressIsExternal, ExternalIsNoContract DEF HelperOK, IsWired, New, MInv
    <3>3. p \in Markets
      BY <3>2, OwnProvider
    <3>4. ConfiguratorFits(p, c)
      BY <1>1, <3>2, <3>3 DEF StaysOK, ProvidersOK
    <3> QED BY <3>2, <3>4 DEF ConfiguratorFits
  <2>2. SetsField(x, f, v) /\ f \in {"reserves", "paused"}
    BY <1>4, <2>1 DEF ConfigureReserves, SetsField
  <2>3. p \in Markets /\ New(p)
    BY <2>1, OwnProvider
  <2>4. PoolFits(p, x)
    BY <1>1, <2>1, <2>3 DEF StaysOK, ProvidersOK
  <2>5. \A a \in DOMAIN R : "threshold" \in DOMAIN R[a]
    BY <2>4 DEF PoolFits, IsPool
  <2>6. /\ DOMAIN v = DOMAIN R
        /\ \A a \in DOMAIN R : /\ "threshold" \in DOMAIN v[a]
                               /\ v[a].threshold \in {R[a].threshold, Params(a).liquidationThreshold}
    <3>1. DOMAIN v = DOMAIN R
      OBVIOUS
    <3>2. ASSUME NEW a \in DOMAIN R
          PROVE  /\ "threshold" \in DOMAIN v[a]
                 /\ v[a].threshold \in {R[a].threshold, Params(a).liquidationThreshold}
      <4>1. v[a] = R[a] \/ v[a] = Configure(R[a], Params(a))
        OBVIOUS
      <4>2. "threshold" \in DOMAIN R[a]
        BY <2>5
      <4> QED BY <4>1, <4>2, Configured1
    <3> QED BY <3>1, <3>2
  <2>7. /\ PricedAssets(p)' = PricedAssets(p)
        /\ Reserves(p) = R /\ Reserves(p)' = v
        /\ HasPool(p) /\ HasPool(p)' /\ (IsPaused(p) <=> IsPaused(p)')
    <3>1. SetsField(x, "reserves", v) /\ \A a \in DOMAIN v : "threshold" \in DOMAIN v[a]
      BY <2>2, <2>6
    <3> QED BY <2>1, <3>1, ReservesChange
  <2>8. DOMAIN Reserves(p) \subseteq PricedAssets(p) /\ ListedFits(p)
    BY <1>1, <2>3 DEF StaysOK, PricedOK, JobOK, ListedOK
  <2>9. ListedFits(p)'
    <3>1. job' = job
      BY <1>2, GentleJob
    <3>2. \A a : Params(a)' = Params(a)
      BY <3>1 DEF Params
    <3> QED BY <2>6, <2>7, <2>8, <3>1, <3>2 DEF ListedFits
  <2>10. LInv' /\ p \in DOMAIN Shown /\ Shown' = [Shown EXCEPT ![p] = MarketOf(p)']
    <3>1. (DOMAIN Reserves(p))' \subseteq PricedAssets(p)
      BY <2>6, <2>7, <2>8
    <3> QED BY <1>1, <1>2, <2>1, <2>2, <2>6, <2>9, <3>1, PoolStep
  <2>11. Enabled(p) \subseteq Enabled(p)' /\ Enabled(p)' \subseteq DOMAIN Reserves(p)
    <3>1. ASSUME NEW a \in DOMAIN R, R[a].threshold # 0
          PROVE  v[a].threshold # 0
      <4>1. R[a].threshold \in {0, Params(a).liquidationThreshold}
        BY <2>7, <2>8 DEF ListedFits
      <4> QED BY <2>6, <3>1, <4>1
    <3> QED BY <2>6, <2>7, <3>1 DEF Enabled
  <2>12. SameBut(p, "enabled")
    BY <2>6, <2>7 DEF SameBut
  <2>13. /\ MarketOf(p)' = [MarketOf(p) EXCEPT !.enabled = Enabled(p)'] /\ MarketOf(p)'.enabled = Enabled(p)'
         /\ MarketOf(p).enabled = Enabled(p) /\ MarketOf(p).listed = DOMAIN Reserves(p)
    BY <2>12, OneField
  <2>14. Shown[p] = MarketOf(p) /\ Shown'[p] = MarketOf(p)'
    BY <2>3, <2>10 DEF Shown
  <2>15. /\ Shown' = [Shown EXCEPT ![p].enabled = Shown'[p].enabled]
         /\ Shown[p].enabled \subseteq Shown'[p].enabled /\ Shown'[p].enabled \subseteq Shown[p].listed
    <3>1. Shown'[p].enabled = Enabled(p)'
      BY <2>13, <2>14
    <3>2. Shown[p].enabled = Enabled(p) /\ Shown[p].listed = DOMAIN Reserves(p)
      BY <2>13, <2>14
    <3> PICK E : E = Enabled(p)'
      OBVIOUS
    <3>3. Shown' = [Shown EXCEPT ![p].enabled = E]
      BY <2>10, <2>13, <2>14, Zenon
    <3> QED BY <2>11, <3>1, <3>2, <3>3
  <2>16. Lifecycle!Enable(p)
    BY <2>15 DEF Lifecycle!Enable, Shown
  <2> QED BY <2>10, <2>16 DEF Lifecycle!Next, Shown
<1> QED BY <1>3, <1>4

\* An oracle's prices: only this job's market asks that oracle.
LEMMA OraclePriced ==
    ASSUME MInv, LInv, PricedScripts, SetPrices
    PROVE  LInv' /\ Lifecycle!Next
<1>1. /\ Active /\ AtStep /\ ~Throws /\ Proceed /\ UNCHANGED <<db, gateway>> /\ RunOK /\ step.op = "SetPrices"
      /\ AddressesOK /\ StaysOK /\ JobOK /\ IInv
    BY DEF SetPrices, Takes, AtStep, Active, MInv, IInv, LInv
<1>2. Continues /\ SameProcess
    BY <1>1, Proceeds DEF Continues, SameProcess
<1> PICK p : p = Provider
    OBVIOUS
<1> PICK o : o = Value(step.oracle)
    OBVIOUS
<1> PICK id : id = step.oracle.id
    OBVIOUS
<1> PICK added : added = step.assets
    OBVIOUS
<1> PICK v : v = contracts[o].data \union added
    OBVIOUS
<1>3. step.oracle.from = "db" /\ id \in Oracles /\ added \subseteq Asset /\ o = db[id]
    BY <1>1, StepIsPriced DEF Value
<1>4. HaveFor(Done, "Deploy", id)
    BY <1>1, <1>3, StepOrder DEF IsOwn
<1>5. NamedOK(id) /\ OnlyProviderAsks(id)
  <2>1. PICK s \in Done : s.op = "Deploy" /\ s.id = id
    BY <1>4 DEF HaveFor
  <2>2. id \in Named /\ Leaves(s)
    BY <1>1, <1>3, <2>1 DEF Named, JobOK
  <2> QED BY <1>3, <2>1, <2>2 DEF Leaves
<1>6. o \in DOMAIN contracts /\ contracts[o].kind = id /\ o # NoAddress
    BY <1>1, <1>3, <1>5, NoAddressIsExternal, ExternalIsNoContract DEF NamedOK, New
<1>7. ProviderOK
    BY <1>5 DEF OnlyProviderAsks
<1>8. /\ p \in Markets /\ p \in DOMAIN contracts /\ New(p) /\ contracts[p].kind = "LendingPoolAddressesProvider"
      /\ p # o
    BY <1>3, <1>6, <1>7, OwnProvider DEF Oracles
<1>9. SetsField(o, "data", v)
    BY <1>6 DEF SetPrices, SetsField
<1>10. /\ DOMAIN contracts' = DOMAIN contracts
       /\ \A a \in DOMAIN contracts : a # o => contracts'[a] = contracts[a]
       /\ contracts'[o].kind = contracts[o].kind /\ contracts'[o].ref = contracts[o].ref
       /\ contracts'[o].data = v
  <2>1. {"kind", "ref", "data"} \subseteq DOMAIN contracts[o]
    BY <1>1, <1>6, FieldsOf
  <2> QED BY <1>1, <1>6, <1>9, <2>1, FieldSet
<1>11. Rooted /\ KeepsPrices
    BY <1>10 DEF Rooted, KeepsPrices
<1>12. Markets' = Markets
    BY <1>10, <1>11, MarketIs DEF Rooted
<1>13. \A q \in Markets : contracts'[q] = contracts[q]
    BY <1>3, <1>6, <1>10, MarketIs DEF Oracles
<1>14. /\ \A i : KeepsRef(i)
       /\ OthersKeepOracle
    BY <1>12, <1>13 DEF KeepsRef, OthersKeepOracle
<1>15. ProvidersOK'
  <2>1. \A q \in Markets' : "PriceOracle" \in DOMAIN contracts'[q].ref
    BY <1>1, <1>12, <1>13 DEF StaysOK, ProvidersOK
  <2>2. \A a \in DOMAIN contracts : IsPool(contracts[a]) => IsPool(contracts'[a])
    BY <1>3, <1>6, <1>10 DEF IsPool, Oracles
  <2> QED BY <1>1, <1>11, <1>14, <2>1, <2>2, ProvidersKept DEF StaysOK
<1>16. OraclesOK'
  <2>1. \A a \in DOMAIN contracts' : contracts'[a].kind \in Oracles => contracts'[a].data \subseteq Asset
    BY <1>1, <1>3, <1>6, <1>10 DEF StaysOK, OraclesOK
  <2> QED BY <1>1, <1>11, <1>14, <2>1, OraclesKept DEF StaysOK
<1>17. ASSUME NEW q \in Markets, NEW a, a = contracts[q].ref["LendingPool"], a # NoAddress
       PROVE  a \in DOMAIN contracts /\ contracts'[a] = contracts[a]
  <2>1. a \in DOMAIN contracts /\ contracts[a].kind = "LendingPool"
    BY <1>1, <1>17 DEF StaysOK, ProvidersOK, PoolFits, IsPool
  <2> QED BY <1>3, <1>6, <1>10, <2>1 DEF Oracles
<1>18. OthersStay({p})
  <2>1. ASSUME NEW q \in Markets, q # p, NEW a \in DOMAIN contracts
        PROVE  /\ a = contracts[q].ref["LendingPool"] => SamePool(a)
               /\ a = contracts[q].ref["PriceOracle"] => SamePrices(a)
    <3>1. a # NoAddress
      BY <1>1, NoAddressIsExternal, ExternalIsNoContract
    <3>2. a = contracts[q].ref["LendingPool"] => SamePool(a)
      BY <1>17, <3>1 DEF SamePool
    <3>3. a = contracts[q].ref["PriceOracle"] => a # o
      BY <1>3, <1>5, <2>1 DEF OnlyProviderAsks
    <3> QED BY <1>10, <3>2, <3>3 DEF SamePrices
  <2>2. ASSUME NEW q \in Markets, q # p
        PROVE  Reserves(q)' = Reserves(q) /\ PricedAssets(q)' = PricedAssets(q) /\ MarketOf(q)' = MarketOf(q)
    BY <1>1, <1>11, <1>13, <2>1, <2>2, MarketStays
  <2> QED BY <2>2 DEF OthersStay
<1>19. Reserves(p)' = Reserves(p) /\ SameBut(p, "priced")
  <2> PICK a : a = contracts[p].ref["LendingPool"]
    OBVIOUS
  <2>1. a # NoAddress => contracts'[a] = contracts[a]
    BY <1>8, <1>17
  <2>2. Provided(p, "LendingPool")' = a /\ Provided(p, "LendingPool") = a
    BY <1>8, <1>13 DEF Provided
  <2>3. Reserves(p)' = Reserves(p)
    BY <2>1, <2>2 DEF Reserves
  <2>4. (HasPool(p) <=> HasPool(p)') /\ (IsPaused(p) <=> IsPaused(p)') /\ Enabled(p)' = Enabled(p)
    BY <2>1, <2>2, <2>3 DEF HasPool, IsPaused, Enabled
  <2> QED BY <2>3, <2>4 DEF SameBut
<1>20. PricedAssets(p) \subseteq PricedAssets(p)' /\ PricedAssets(p)' \subseteq Asset
  <2> PICK a : a = contracts[p].ref["PriceOracle"]
    OBVIOUS
  <2>1. a # NoAddress => a \in DOMAIN contracts /\ contracts[a].kind \in Oracles
    BY <1>1, <1>8 DEF StaysOK, OraclesOK, OracleFits
  <2>2. a # NoAddress => contracts[a].data \subseteq contracts'[a].data /\ contracts'[a].data \subseteq Asset
    BY <1>10, <1>11, <1>16, <2>1 DEF KeepsPrices, Rooted, OraclesOK
  <2> QED BY <1>8, <1>13, <2>2 DEF PricedAssets, Provided
<1>21. ListedFits(p)' /\ (DOMAIN Reserves(p))' \subseteq PricedAssets(p)' /\ DOMAIN Reserves(p) \subseteq PricedAssets(p)'
  <2>1. ListedFits(p) /\ DOMAIN Reserves(p) \subseteq PricedAssets(p)
    BY <1>1, <1>8 DEF JobOK, ListedOK, StaysOK, PricedOK
  <2>2. job' = job
    BY <1>2, GentleJob
  <2>3. \A a : Params(a)' = Params(a)
    BY <2>2 DEF Params
  <2> QED BY <1>19, <1>20, <2>1, <2>2, <2>3 DEF ListedFits
<1>22. \A s : s = step => Leaves(s)'
  <2>1. NamedOK(id)'
    BY <1>1, <1>2, <1>5, <1>11, NamedKept DEF SameEntry, NamedOK
  <2>2. PricesSet(id, added)'
    BY <1>1, <1>3, <1>10, <2>1 DEF PricesSet
  <2> QED BY <1>1, <2>2 DEF Leaves, SetsPrices
<1>23. contracts'[p] = contracts[p]
    BY <1>8, <1>13
<1>24. LInv' /\ p \in DOMAIN Shown /\ Shown' = [Shown EXCEPT ![p] = MarketOf(p)']
    BY <1>1, <1>2, <1>7, <1>11, <1>12, <1>14, <1>15, <1>16, <1>18, <1>21, <1>22, <1>23, MarketStep
<1>25. Lifecycle!Price(p)
  <2>1. Shown[p] = MarketOf(p) /\ Shown'[p] = MarketOf(p)'
    BY <1>8, <1>12 DEF Shown
  <2>2. /\ MarketOf(p)' = [MarketOf(p) EXCEPT !.priced = PricedAssets(p)']
        /\ MarketOf(p)'.priced = PricedAssets(p)' /\ MarketOf(p).listed = DOMAIN Reserves(p)
    BY <1>19, OneField
  <2> PICK P : P = PricedAssets(p)'
    OBVIOUS
  <2>3. Shown' = [Shown EXCEPT ![p].priced = P]
    BY <1>24, <2>1, <2>2
  <2>4. Shown'[p].priced = P /\ Shown[p].listed = DOMAIN Reserves(p)
    BY <2>1, <2>2
  <2>5. /\ Shown' = [Shown EXCEPT ![p].priced = Shown'[p].priced]
        /\ Shown[p].listed \subseteq Shown'[p].priced /\ Shown'[p].priced \subseteq Asset
    BY <1>20, <1>21, <2>3, <2>4
  <2> QED BY <2>5 DEF Lifecycle!Price, Shown
<1> QED BY <1>24, <1>25 DEF Lifecycle!Next, Shown
-----------------------------------------------------------------------------
\* The proxy that a transaction creates, and all else it leaves as it is.
ProxyCode(p, id) ==
    IF id = "LendingPool" THEN LendingPoolProxy(p, Value(step.value))
    ELSE Contract(id, p, [provider |-> p, impl |-> Value(step.value), pool |-> contracts[p].ref["LendingPool"]], {})

LEMMA ProxySet ==
    ASSUME MInv, LInv, SetImpl, NEW p, p = Provider, NEW id, id = step.id, NEW n, n = NewAddress(id)
    PROVE  /\ id \in ProxyIds /\ ProviderOK /\ p \in DOMAIN contracts /\ n \notin DOMAIN contracts /\ n # NoAddress
           /\ contracts[p].ref[id] = NoAddress /\ contracts'[p].ref[id] = n
           /\ DOMAIN contracts' = DOMAIN contracts \union {n}
           /\ \A a \in DOMAIN contracts : a # p => contracts'[a] = contracts[a]
           /\ contracts'[p].kind = contracts[p].kind /\ contracts'[p].data = contracts[p].data
           /\ DOMAIN contracts'[p].ref = DOMAIN contracts[p].ref
           /\ \A i \in ProxyIds \union {"PriceOracle"} : i # id => contracts'[p].ref[i] = contracts[p].ref[i]
           /\ contracts'[n] = ProxyCode(p, id) /\ contracts'[n].kind = id
<1>1. AtStep /\ step.op = "SetImpl" /\ RunOK /\ Active /\ Accepts /\ IInv
    BY DEF SetImpl, Takes, MInv, IInv, AtStep, Active
<1> PICK c : c = ProxyCode(p, id)
    OBVIOUS
<1> PICK C : C = Extend(contracts, n, c)
    OBVIOUS
<1>3. contracts' = [C EXCEPT ![p].ref[id] = n]
    BY DEF SetImpl, ProxyCode
<1>4. id \in ProxyIds /\ contracts[p].ref[id] = NoAddress
    BY <1>1, StepIsOrdered DEF Accepts, CanInitialize
<1>5. ProviderOK
    BY <1>1, StepOrder, WhatIsDone
<1>6. IsContract(c) /\ c.kind = id
    BY <1>4 DEF IsContract, ProxyCode, LendingPoolProxy, Contract, Fields, ProxyIds
<1>7. /\ p \in DOMAIN contracts /\ contracts[p].kind = "LendingPoolAddressesProvider"
      /\ ProxyIds \union {"PriceOracle"} \subseteq DOMAIN contracts[p].ref
    BY <1>5, OwnProvider
<1>8. /\ n \notin DOMAIN contracts /\ n # NoAddress
      /\ DOMAIN C = DOMAIN contracts \union {n} /\ C[n] = c /\ C = [a \in DOMAIN C |-> C[a]]
      /\ \A a \in DOMAIN contracts : C[a] = contracts[a]
    BY <1>6, Deploying
<1> DEFINE b == contracts[p]
           r == [b.ref EXCEPT ![id] = n]
           d == [b EXCEPT !.ref = r]
<1>9. contracts' = [C EXCEPT ![p] = d]
    BY <1>3, <1>7, <1>8
<1>10. IsContract(b)
    BY <1>7 DEF MInv, IInv, IsNetwork
<1>11. DOMAIN r = DOMAIN b.ref /\ \A i \in DOMAIN b.ref : r[i] = IF i = id THEN n ELSE b.ref[i]
    BY <1>10 DEF IsContract
<1> HIDE DEF r
<1>12. d.ref = r /\ d.kind = b.kind /\ d.data = b.data
    BY <1>10 DEF IsContract, Fields
<1> HIDE DEF d
<1>13. /\ DOMAIN contracts' = DOMAIN contracts \union {n} /\ contracts'[p] = d /\ contracts'[n] = c
       /\ \A a \in DOMAIN contracts : a # p => contracts'[a] = contracts[a]
    BY <1>7, <1>8, <1>9
<1>14. /\ contracts'[p].ref[id] = n /\ DOMAIN contracts'[p].ref = DOMAIN contracts[p].ref
       /\ \A i \in ProxyIds \union {"PriceOracle"} : i # id => contracts'[p].ref[i] = contracts[p].ref[i]
    BY <1>4, <1>7, <1>11, <1>12, <1>13
<1>15. contracts'[p].kind = contracts[p].kind /\ contracts'[p].data = contracts[p].data
    BY <1>12, <1>13
<1> QED BY <1>4, <1>5, <1>6, <1>7, <1>8, <1>13, <1>14, <1>15

LEMMA OnlyProviderChanges ==
    ASSUME MInv, LInv, SetImpl
    PROVE  \A a \in DOMAIN contracts : a # Provider => contracts'[a] = contracts[a]
<1> PICK p : p = Provider
    OBVIOUS
<1> PICK id : id = step.id
    OBVIOUS
<1> PICK n : n = NewAddress(id)
    OBVIOUS
<1>1. /\ id \in ProxyIds /\ ProviderOK /\ p \in DOMAIN contracts /\ n \notin DOMAIN contracts
      /\ DOMAIN contracts' = DOMAIN contracts \union {n}
      /\ \A a \in DOMAIN contracts : a # p => contracts'[a] = contracts[a]
    BY ProxySet
<1> QED BY <1>1

LEMMA OthersKeepAll ==
    ASSUME MInv, LInv, SetImpl, NEW p, p = Provider
    PROVE  /\ Rooted /\ Markets' = Markets /\ OthersStay({p}) /\ OraclesOK' /\ KeepsPrices /\ OthersKeepOracle
           /\ contracts'[p].ref["PriceOracle"] = contracts[p].ref["PriceOracle"]
           /\ PricedAssets(p)' = PricedAssets(p)
           /\ \A a \in DOMAIN contracts : IsPool(contracts[a]) => contracts'[a] = contracts[a]
<1>1. StaysOK /\ AddressesOK
    BY DEF LInv, MInv
<1> PICK id : id = step.id
    OBVIOUS
<1> PICK n : n = NewAddress(id)
    OBVIOUS
<1>2. /\ id \in ProxyIds /\ ProviderOK /\ p \in DOMAIN contracts /\ n \notin DOMAIN contracts
      /\ DOMAIN contracts' = DOMAIN contracts \union {n}
      /\ \A a \in DOMAIN contracts : a # p => contracts'[a] = contracts[a]
      /\ contracts'[p].kind = contracts[p].kind /\ contracts'[p].data = contracts[p].data
      /\ \A i \in ProxyIds \union {"PriceOracle"} : i # id => contracts'[p].ref[i] = contracts[p].ref[i]
      /\ contracts'[n].kind = id
    BY ProxySet
<1>3. contracts'[p].ref["PriceOracle"] = contracts[p].ref["PriceOracle"]
    BY <1>2 DEF ProxyIds
<1>4. p \in Markets /\ contracts[p].kind = "LendingPoolAddressesProvider"
    BY <1>2, OwnProvider
<1>5. Rooted /\ KeepsPrices
  <2>1. \A a \in DOMAIN contracts : a = p \/ contracts'[a] = contracts[a]
    BY <1>2
  <2>2. \A a \in DOMAIN contracts : contracts'[a].kind = contracts[a].kind /\ contracts'[a].data = contracts[a].data
    BY <1>2, <2>1
  <2>3. \A a \in DOMAIN contracts :
            contracts[a].kind # "LendingPoolAddressesProvider" => contracts'[a].ref = contracts[a].ref
    BY <1>4, <2>1
  <2>4. KeepsPrices
    BY <2>2 DEF KeepsPrices
  <2> QED BY <1>2, <2>2, <2>3, <2>4 DEF Rooted
<1>6. Markets' = Markets
  <2>1. contracts'[n].kind # "LendingPoolAddressesProvider"
    BY <1>2 DEF ProxyIds
  <2>2. \A a \in DOMAIN contracts : contracts'[a].kind = contracts[a].kind
    BY <1>5 DEF Rooted
  <2> QED BY <1>2, <2>1, <2>2 DEF Markets, OfKind
<1>7. \A q \in Markets : q # p => contracts'[q] = contracts[q]
    BY <1>2, MarketIs
<1>8. KeepsRef("PriceOracle") /\ OthersKeepOracle
    BY <1>3, <1>6, <1>7 DEF KeepsRef, OthersKeepOracle
<1>9. OraclesOK'
  <2>1. \A a \in DOMAIN contracts' : contracts'[a].kind \in Oracles => contracts'[a].data \subseteq Asset
    BY <1>1, <1>2, <1>4 DEF StaysOK, OraclesOK, Oracles, ProxyIds
  <2> QED BY <1>1, <1>5, <1>8, <2>1, OraclesKept DEF StaysOK
<1>10. \A a \in DOMAIN contracts : IsPool(contracts[a]) => contracts'[a] = contracts[a]
    BY <1>2, <1>4 DEF IsPool
<1>11. OthersStay({p})
  <2>1. ASSUME NEW q \in Markets, q # p, NEW a \in DOMAIN contracts
        PROVE  /\ a = contracts[q].ref["LendingPool"] => SamePool(a)
               /\ a = contracts[q].ref["PriceOracle"] => SamePrices(a)
    <3>1. a # NoAddress
      BY <1>1, NoAddressIsExternal, ExternalIsNoContract
    <3>2. a = contracts[q].ref["LendingPool"] => SamePool(a)
      BY <1>1, <1>10, <2>1, <3>1 DEF StaysOK, ProvidersOK, PoolFits, SamePool
    <3>3. a = contracts[q].ref["PriceOracle"] => SamePrices(a)
      BY <1>1, <1>2, <1>4, <2>1, <3>1 DEF StaysOK, OraclesOK, OracleFits, Oracles, SamePrices
    <3> QED BY <3>2, <3>3
  <2>2. ASSUME NEW q \in Markets, q # p
        PROVE  Reserves(q)' = Reserves(q) /\ PricedAssets(q)' = PricedAssets(q) /\ MarketOf(q)' = MarketOf(q)
    BY <1>1, <1>5, <1>7, <2>1, <2>2, MarketStays
  <2> QED BY <2>2 DEF OthersStay
<1>12. PricedAssets(p)' = PricedAssets(p)
  <2> PICK o : o = contracts[p].ref["PriceOracle"]
    OBVIOUS
  <2>1. o # NoAddress => o \in DOMAIN contracts /\ contracts[o].kind \in Oracles
    BY <1>1, <1>4 DEF StaysOK, OraclesOK, OracleFits
  <2>2. o # NoAddress => contracts'[o].data = contracts[o].data
    BY <1>2, <1>4, <2>1
  <2> QED BY <1>3, <2>2 DEF PricedAssets, Provided
<1> QED BY <1>3, <1>5, <1>6, <1>8, <1>9, <1>10, <1>11, <1>12

\* What the other providers have fits them as before.
LEMMA OthersFit ==
    ASSUME MInv, LInv, SetImpl, NEW p, p = Provider, NEW q \in Markets, q # p
    PROVE  /\ "PriceOracle" \in DOMAIN contracts'[q].ref
           /\ contracts'[q].ref["LendingPool"] # NoAddress => PoolFits(q, contracts[q].ref["LendingPool"])'
           /\ contracts'[q].ref["LendingPoolConfigurator"] # NoAddress =>
                  ConfiguratorFits(q, contracts[q].ref["LendingPoolConfigurator"])'
<1>1. ProvidersOK
    BY DEF LInv, StaysOK
<1> PICK a : a = contracts[q].ref["LendingPool"]
    OBVIOUS
<1> PICK c : c = contracts[q].ref["LendingPoolConfigurator"]
    OBVIOUS
<1>2. Rooted /\ contracts'[q] = contracts[q]
  <2>1. Rooted
    BY OthersKeepAll
  <2>2. q \in DOMAIN contracts
    BY MarketIs
  <2> QED BY <2>1, <2>2, OnlyProviderChanges
<1>3. \A x \in DOMAIN contracts : IsPool(contracts[x]) => contracts'[x] = contracts[x]
    BY OthersKeepAll
<1>4. a # NoAddress => PoolFits(q, a)'
  <2>1. a # NoAddress => PoolFits(q, a)
    BY <1>1 DEF ProvidersOK
  <2>2. PoolFits(q, a) => a \in DOMAIN contracts /\ IsPool(contracts[a])
    BY DEF PoolFits
  <2>3. PoolFits(q, a) => IsPool(contracts'[a])
    BY <1>3, <2>2 DEF IsPool
  <2> QED BY <1>2, <2>1, <2>3, PoolKept
<1>5. c # NoAddress => ConfiguratorFits(q, c)'
    BY <1>1, <1>2, ConfiguratorKept DEF ProvidersOK
<1> QED BY <1>1, <1>2, <1>4, <1>5 DEF ProvidersOK, PoolFits, ConfiguratorFits, PoolOf

\* The market gets its pool, which has no configurator yet.
LEMMA PoolCreated ==
    ASSUME MInv, LInv, SetImpl, step.id = "LendingPool"
    PROVE  LInv' /\ Lifecycle!Next
<1>1. /\ Active /\ AtStep /\ ~Throws /\ Proceed /\ UNCHANGED <<db, gateway>> /\ RunOK /\ step.op = "SetImpl"
      /\ step.op \notin Telling /\ StaysOK /\ JobOK
    BY DEF SetImpl, Takes, AtStep, Active, MInv, IInv, Telling, LInv
<1>2. Continues /\ SameProcess
    BY <1>1, Proceeds DEF Continues, SameProcess
<1> PICK p : p = Provider
    OBVIOUS
<1> PICK id : id = step.id
    OBVIOUS
<1> PICK n : n = NewAddress(id)
    OBVIOUS
<1>3. /\ id \in ProxyIds /\ ProviderOK /\ p \in DOMAIN contracts /\ n \notin DOMAIN contracts /\ n # NoAddress
      /\ contracts[p].ref[id] = NoAddress /\ contracts'[p].ref[id] = n
      /\ DOMAIN contracts' = DOMAIN contracts \union {n}
      /\ DOMAIN contracts'[p].ref = DOMAIN contracts[p].ref
      /\ \A i \in ProxyIds \union {"PriceOracle"} : i # id => contracts'[p].ref[i] = contracts[p].ref[i]
      /\ contracts'[n] = ProxyCode(p, id) /\ contracts'[n].kind = id
    BY ProxySet
<1>4. id = "LendingPool" /\ "LendingPoolConfigurator" \in ProxyIds /\ "PriceOracle" \notin ProxyIds
    BY DEF ProxyIds
<1>5. p \in Markets /\ New(p) /\ "PriceOracle" \in DOMAIN contracts[p].ref
    BY <1>3, OwnProvider
<1>6. contracts[p].ref["LendingPoolConfigurator"] = NoAddress
    BY <1>1, <1>3, <1>4, <1>5 DEF StaysOK, ProvidersOK, ConfiguratorFits
<1>7. contracts'[p].ref["LendingPoolConfigurator"] = NoAddress /\ "PriceOracle" \in DOMAIN contracts'[p].ref
    BY <1>3, <1>4, <1>5, <1>6
<1>8. /\ contracts'[n].ref["provider"] = p /\ contracts'[n].reserves = << >>
      /\ "paused" \in DOMAIN contracts'[n] /\ contracts'[n].kind = "LendingPool"
    BY <1>3, <1>4 DEF ProxyCode, LendingPoolProxy
<1>9. ~contracts'[n].paused
    BY <1>3, <1>4 DEF ProxyCode, LendingPoolProxy
<1>10. PoolFits(p, n)'
  <2>1. IsPool(contracts'[n])
    BY <1>8 DEF IsPool
  <2> QED BY <1>3, <1>8, <2>1 DEF PoolFits
<1>11. /\ Rooted /\ Markets' = Markets /\ OthersStay({p}) /\ OraclesOK' /\ KeepsPrices /\ OthersKeepOracle
       /\ contracts'[p].ref["PriceOracle"] = contracts[p].ref["PriceOracle"]
       /\ PricedAssets(p)' = PricedAssets(p)
    BY OthersKeepAll
<1>12. ProvidersOK'
  <2>1. ASSUME NEW q \in Markets
        PROVE  /\ "PriceOracle" \in DOMAIN contracts'[q].ref
               /\ contracts'[q].ref["LendingPool"] # NoAddress => PoolFits(q, contracts[q].ref["LendingPool"])'
               /\ contracts'[q].ref["LendingPoolConfigurator"] # NoAddress =>
                      ConfiguratorFits(q, contracts[q].ref["LendingPoolConfigurator"])'
    <3>1. CASE q # p
      BY <3>1, OthersFit
    <3>2. CASE q = p
      BY <1>3, <1>4, <1>7, <1>10, <3>2 DEF PoolFits
    <3> QED BY <3>1, <3>2
  <2> QED BY <1>11, <2>1 DEF ProvidersOK
<1>13. Reserves(p) = << >> /\ Reserves(p)' = << >>
    BY <1>3, <1>4, <1>8 DEF Reserves, Provided
<1>14. ~IsPaused(p) /\ ~IsPaused(p)' /\ HasPool(p)' /\ ~HasPool(p)
    BY <1>3, <1>4, <1>9 DEF IsPaused, HasPool, Provided
<1>15. ListedFits(p)' /\ (DOMAIN Reserves(p))' \subseteq PricedAssets(p)'
    BY <1>13 DEF ListedFits
<1>16. \A s : s = step => Leaves(s)'
    BY <1>1, SaysNothing
<1>17. LInv' /\ p \in DOMAIN Shown /\ Shown' = [Shown EXCEPT ![p] = MarketOf(p)']
    BY <1>1, <1>2, <1>3, <1>6, <1>11, <1>12, <1>15, <1>16, MarketStep
<1>18. SameBut(p, "pool")
    BY <1>11, <1>13, <1>14 DEF SameBut, Enabled
<1>19. MarketOf(p)' = [MarketOf(p) EXCEPT !.pool = TRUE] /\ ~MarketOf(p).pool
  <2>1. MarketOf(p)' = [MarketOf(p) EXCEPT !.pool = TRUE]
    BY <1>14, <1>18, OneField
  <2>2. MarketOf(p).pool <=> HasPool(p)
    BY OneField
  <2> QED BY <1>14, <2>1, <2>2
<1>20. Shown[p] = MarketOf(p)
    BY <1>5 DEF Shown
<1>21. ~Shown[p].pool /\ Shown' = [Shown EXCEPT ![p].pool = TRUE]
    BY <1>17, <1>19, <1>20
<1>22. Lifecycle!CreatePool(p)
    BY <1>21 DEF Lifecycle!CreatePool, Shown
<1> QED BY <1>17, <1>22 DEF Lifecycle!Next, Shown

\* The configurator it gets later is of that pool, and nothing that the market shows.
LEMMA ConfiguratorCreated ==
    ASSUME MInv, LInv, SetImpl, step.id # "LendingPool"
    PROVE  LInv' /\ Shown' = Shown
<1>1. /\ Active /\ AtStep /\ ~Throws /\ Proceed /\ UNCHANGED <<db, gateway>> /\ RunOK /\ step.op = "SetImpl"
      /\ step.op \notin Telling /\ StaysOK /\ JobOK /\ AddressesOK
    BY DEF SetImpl, Takes, AtStep, Active, MInv, IInv, Telling, LInv
<1>2. Continues /\ SameProcess
    BY <1>1, Proceeds DEF Continues, SameProcess
<1> PICK p : p = Provider
    OBVIOUS
<1> PICK id : id = step.id
    OBVIOUS
<1> PICK n : n = NewAddress(id)
    OBVIOUS
<1>3. /\ id \in ProxyIds /\ ProviderOK /\ p \in DOMAIN contracts /\ n \notin DOMAIN contracts /\ n # NoAddress
      /\ contracts[p].ref[id] = NoAddress /\ contracts'[p].ref[id] = n
      /\ DOMAIN contracts' = DOMAIN contracts \union {n}
      /\ DOMAIN contracts'[p].ref = DOMAIN contracts[p].ref
      /\ \A i \in ProxyIds \union {"PriceOracle"} : i # id => contracts'[p].ref[i] = contracts[p].ref[i]
      /\ contracts'[n] = ProxyCode(p, id) /\ contracts'[n].kind = id
    BY ProxySet
<1>4. id = "LendingPoolConfigurator" /\ "LendingPool" \in ProxyIds /\ "PriceOracle" \notin ProxyIds
    BY <1>3 DEF ProxyIds
<1>5. p \in Markets /\ New(p) /\ "PriceOracle" \in DOMAIN contracts[p].ref
    BY <1>3, OwnProvider
<1> PICK pool : pool = contracts[p].ref["LendingPool"]
    OBVIOUS
<1>6. pool # NoAddress
  <2>1. Created("LendingPool")
    BY <1>1, <1>4, StepOrder, WhatIsDone
  <2>2. New(pool)
    BY <2>1 DEF Created
  <2> QED BY <1>1, <2>2, NoAddressIsExternal, ExternalIsNoContract DEF New
<1>7. contracts'[p].ref["LendingPool"] = pool /\ "PriceOracle" \in DOMAIN contracts'[p].ref
    BY <1>3, <1>4, <1>5
<1>8. contracts'[n].ref["provider"] = p /\ contracts'[n].ref["pool"] = pool
    BY <1>3, <1>4 DEF ProxyCode, Contract
<1>9. ConfiguratorFits(p, n)'
    BY <1>3, <1>4, <1>6, <1>7, <1>8 DEF ConfiguratorFits, PoolOf
<1>10. /\ Rooted /\ Markets' = Markets /\ OthersStay({p}) /\ OraclesOK' /\ KeepsPrices /\ OthersKeepOracle
       /\ contracts'[p].ref["PriceOracle"] = contracts[p].ref["PriceOracle"]
       /\ PricedAssets(p)' = PricedAssets(p)
    BY OthersKeepAll
<1>11. pool \in DOMAIN contracts /\ IsPool(contracts[pool]) /\ contracts'[pool] = contracts[pool]
  <2>1. PoolFits(p, pool)
    BY <1>1, <1>5, <1>6 DEF StaysOK, ProvidersOK
  <2>2. \A a \in DOMAIN contracts : IsPool(contracts[a]) => contracts'[a] = contracts[a]
    BY OthersKeepAll
  <2> QED BY <2>1, <2>2 DEF PoolFits
<1>12. PoolFits(p, pool)'
  <2>1. PoolFits(p, pool) /\ IsPool(contracts'[pool])
    BY <1>1, <1>5, <1>6, <1>11 DEF StaysOK, ProvidersOK, IsPool
  <2> QED BY <1>10, <2>1, PoolKept
<1>13. ProvidersOK'
  <2>1. ASSUME NEW q \in Markets
        PROVE  /\ "PriceOracle" \in DOMAIN contracts'[q].ref
               /\ contracts'[q].ref["LendingPool"] # NoAddress => PoolFits(q, contracts[q].ref["LendingPool"])'
               /\ contracts'[q].ref["LendingPoolConfigurator"] # NoAddress =>
                      ConfiguratorFits(q, contracts[q].ref["LendingPoolConfigurator"])'
    <3>1. CASE q # p
      BY <3>1, OthersFit
    <3>2. CASE q = p
      BY <1>3, <1>4, <1>7, <1>9, <1>12, <3>2 DEF PoolFits, ConfiguratorFits, PoolOf
    <3> QED BY <3>1, <3>2
  <2> QED BY <1>10, <2>1 DEF ProvidersOK
<1>14. Provided(p, "LendingPool") = pool /\ Provided(p, "LendingPool")' = pool
    BY <1>7 DEF Provided
<1>15. Reserves(p)' = Reserves(p)
    BY <1>11, <1>14 DEF Reserves
<1>16. ListedFits(p)' /\ (DOMAIN Reserves(p))' \subseteq PricedAssets(p)'
  <2>1. ListedFits(p) /\ DOMAIN Reserves(p) \subseteq PricedAssets(p)
    BY <1>1, <1>5 DEF JobOK, ListedOK, StaysOK, PricedOK
  <2>2. job' = job
    BY <1>2, GentleJob
  <2>3. \A a : Params(a)' = Params(a)
    BY <2>2 DEF Params
  <2> QED BY <1>10, <1>15, <2>1, <2>2, <2>3 DEF ListedFits
<1>17. \A s : s = step => Leaves(s)'
    BY <1>1, SaysNothing
<1>18. LInv' /\ p \in DOMAIN Shown /\ Shown' = [Shown EXCEPT ![p] = MarketOf(p)']
    BY <1>1, <1>2, <1>3, <1>4, <1>10, <1>13, <1>16, <1>17, MarketStep
<1>19. MarketOf(p)' = MarketOf(p)
  <2>1. (HasPool(p) <=> HasPool(p)') /\ (IsPaused(p) <=> IsPaused(p)') /\ Enabled(p)' = Enabled(p)
    BY <1>11, <1>14, <1>15 DEF HasPool, IsPaused, Enabled
  <2>2. SameBut(p, "priced")
    BY <1>15, <2>1 DEF SameBut
  <2>3. MarketOf(p)' = [MarketOf(p) EXCEPT !.priced = PricedAssets(p)'] /\ MarketOf(p).priced = PricedAssets(p)
    BY <2>2, OneField
  <2>4. MarketOf(p) = [MarketOf(p) EXCEPT !.priced = MarketOf(p).priced]
    BY DEF MarketOf
  <2> QED BY <1>10, <2>3, <2>4
<1> QED BY <1>5, <1>18, <1>19 DEF Shown
-----------------------------------------------------------------------------
\* A contract that is deployed: what was there stays, and a provider has nothing yet.
LEMMA DeployIs ==
    ASSUME MInv, LInv, PricedScripts, Deploy, NEW kind, kind = step.kind, NEW n, n = NewAddress(kind)
    PROVE  /\ n \notin DOMAIN contracts /\ n # NoAddress /\ New(n)'
           /\ DOMAIN contracts' = DOMAIN contracts \union {n}
           /\ \A a \in DOMAIN contracts : contracts'[a] = contracts[a]
           /\ contracts'[n].kind = kind /\ contracts'[n].data = step.data
           /\ kind \notin ProxyIds
           /\ kind = "LendingPoolAddressesProvider" =>
                  /\ "PriceOracle" \in DOMAIN contracts'[n].ref
                  /\ \A i \in ProxyIds \union {"PriceOracle"} : contracts'[n].ref[i] = NoAddress
<1>1. /\ AtStep /\ ~Throws /\ Proceed /\ step.op = "Deploy" /\ RunOK /\ Active /\ AddressesOK
    BY DEF Deploy, Takes, MInv, IInv, AtStep, Active
<1>2. Continues
    BY <1>1, Proceeds
<1>3. DeploysInOrder(step, Done)
    BY <1>1, StepIsOrdered
<1>4. /\ kind \notin ProxyIds
      /\ kind = "LendingPoolAddressesProvider" =>
             "PriceOracle" \in DOMAIN step.ref /\ step.ref["PriceOracle"] = step.ref["LendingPool"]
    BY <1>1, StepIsPriced
<1> PICK ref : ref = [r \in DOMAIN step.ref |-> Value(step.ref[r])]
    OBVIOUS
<1> PICK c : c = Contract(kind, job.signer, ref, step.data)
    OBVIOUS
<1>5. contracts' = Extend(contracts, n, c)
    BY DEF Deploy
<1>6. c.kind = kind /\ c.ref = ref /\ c.data = step.data
    BY DEF Contract
<1>7. IsContract(c)
  <2>1. kind # "LendingPool" /\ (kind = "LendingPoolAddressesProvider" => Entries \subseteq DOMAIN step.ref)
    BY <1>3 DEF DeploysInOrder
  <2> QED BY <2>1 DEF IsContract, Contract, Fields
<1>8. /\ n \notin DOMAIN contracts /\ n # NoAddress
      /\ DOMAIN contracts' = DOMAIN contracts \union {n} /\ contracts'[n] = c
      /\ \A a \in DOMAIN contracts : contracts'[a] = contracts[a]
    BY <1>5, <1>6, <1>7, Deploying
<1>9. New(n)'
    BY <1>1, <1>2, <1>8 DEF New, Continues, AddressesOK
<1>10. ASSUME kind = "LendingPoolAddressesProvider"
       PROVE  /\ "PriceOracle" \in DOMAIN ref
              /\ \A i \in ProxyIds \union {"PriceOracle"} : ref[i] = NoAddress
  <2>1. \A i \in ProxyIds : i \in DOMAIN step.ref /\ step.ref[i].from = "configuration" /\ step.ref[i].address = NoAddress
    BY <1>3, <1>10 DEF DeploysInOrder, Entries
  <2>2. \A i \in ProxyIds : ref[i] = NoAddress
    BY <2>1 DEF Value
  <2>3. ref["PriceOracle"] = ref["LendingPool"]
    BY <1>4, <1>10, <2>1 DEF ProxyIds
  <2> QED BY <1>4, <1>10, <2>2, <2>3 DEF ProxyIds
<1> QED BY <1>4, <1>6, <1>8, <1>9, <1>10

LEMMA DeployStays ==
    ASSUME MInv, LInv, PricedScripts, Deploy
    PROVE  /\ StaysOK' /\ ListedOK' /\ Rooted /\ KeepsPrices /\ OthersKeepOracle /\ OthersStay({})
           /\ KeepsRef("PriceOracle")
<1>1. /\ AtStep /\ ~Throws /\ Proceed /\ step.op = "Deploy" /\ RunOK /\ Active /\ AddressesOK /\ StaysOK /\ JobOK
    BY DEF Deploy, Takes, MInv, IInv, AtStep, Active, LInv
<1>2. SameProcess
    BY <1>1, Proceeds DEF Continues, SameProcess
<1> PICK kind : kind = step.kind
    OBVIOUS
<1> PICK n : n = NewAddress(kind)
    OBVIOUS
<1>3. /\ n \notin DOMAIN contracts /\ n # NoAddress
      /\ DOMAIN contracts' = DOMAIN contracts \union {n}
      /\ \A a \in DOMAIN contracts : contracts'[a] = contracts[a]
      /\ contracts'[n].kind = kind /\ contracts'[n].data = step.data
      /\ kind \notin ProxyIds
      /\ kind = "LendingPoolAddressesProvider" =>
             /\ "PriceOracle" \in DOMAIN contracts'[n].ref
             /\ \A i \in ProxyIds \union {"PriceOracle"} : contracts'[n].ref[i] = NoAddress
    BY DeployIs
<1>4. Rooted /\ KeepsPrices
    BY <1>3 DEF Rooted, KeepsPrices
<1>5. \A p \in Markets' : \/ p \in Markets /\ contracts'[p] = contracts[p]
                          \/ p = n /\ p \notin Markets /\ kind = "LendingPoolAddressesProvider"
    BY <1>3, MarketIs
<1>6. \A i \in ProxyIds \union {"PriceOracle"} : KeepsRef(i)
    BY <1>3, <1>5 DEF KeepsRef
<1>7. KeepsRef("LendingPool") /\ KeepsRef("LendingPoolConfigurator") /\ KeepsRef("PriceOracle")
    BY <1>6 DEF ProxyIds
<1>8. OthersKeepOracle
    BY <1>7 DEF KeepsRef, OthersKeepOracle
<1>9. ProvidersOK'
  <2>1. \A p \in Markets' : "PriceOracle" \in DOMAIN contracts'[p].ref
    BY <1>1, <1>3, <1>5 DEF StaysOK, ProvidersOK
  <2>2. \A a \in DOMAIN contracts : IsPool(contracts[a]) => IsPool(contracts'[a])
    BY <1>3
  <2> QED BY <1>1, <1>4, <1>7, <2>1, <2>2, ProvidersKept DEF StaysOK
<1>10. OraclesOK'
  <2>1. kind \in Oracles => step.data \subseteq Asset
    BY <1>1, StepIsPriced DEF Named
  <2>2. \A o \in DOMAIN contracts' : contracts'[o].kind \in Oracles => contracts'[o].data \subseteq Asset
    BY <1>1, <1>3, <2>1 DEF StaysOK, OraclesOK
  <2> QED BY <1>1, <1>4, <1>7, <2>2, OraclesKept DEF StaysOK
<1>11. OthersStay({})
  <2>1. ASSUME NEW p \in Markets
        PROVE  Reserves(p)' = Reserves(p) /\ PricedAssets(p)' = PricedAssets(p) /\ MarketOf(p)' = MarketOf(p)
    <3>1. contracts'[p] = contracts[p] /\ \A a \in DOMAIN contracts : SamePool(a) /\ SamePrices(a)
      BY <1>3, MarketIs DEF SamePool, SamePrices
    <3> QED BY <1>1, <1>4, <3>1, MarketStays
  <2> QED BY <2>1 DEF OthersStay
<1>12. ASSUME NEW p \in Markets', p \notin Markets
       PROVE  Reserves(p)' = << >>
  <2>1. contracts'[p].ref["LendingPool"] = NoAddress
    BY <1>3, <1>5, <1>12 DEF ProxyIds
  <2> QED BY <2>1 DEF Reserves, Provided
<1>13. PricedOK'
    BY <1>1, <1>11, <1>12, PricedKept DEF StaysOK
<1>14. ListedOK'
  <2>1. \A p \in Markets' : p \in {} \/ p \notin Markets => ListedFits(p)'
    BY <1>12 DEF ListedFits
  <2> QED BY <1>1, <1>2, <1>4, <1>11, <2>1, ListedKept DEF JobOK
<1> QED BY <1>4, <1>7, <1>8, <1>9, <1>10, <1>11, <1>13, <1>14 DEF StaysOK

\* The names and prices that were left before stay, and the new contract has its own.
LEMMA DeployLeaves ==
    ASSUME MInv, LInv, PricedScripts, Deploy
    PROVE  (\A s \in Done : Leaves(s)') /\ (\A s : s = step => Leaves(s)')
<1>1. /\ AtStep /\ ~Throws /\ Proceed /\ step.op = "Deploy" /\ RunOK /\ Active /\ AddressesOK /\ StaysOK /\ JobOK
      /\ gateway' = gateway
    BY DEF Deploy, Takes, MInv, IInv, AtStep, Active, LInv
<1>2. SameProcess
    BY <1>1, Proceeds DEF Continues, SameProcess
<1>3. Rooted /\ KeepsPrices /\ OthersKeepOracle /\ KeepsRef("PriceOracle")
    BY DeployStays
<1> PICK kind : kind = step.kind
    OBVIOUS
<1> PICK id : id = step.id
    OBVIOUS
<1> PICK data : data = step.data
    OBVIOUS
<1> PICK n : n = NewAddress(kind)
    OBVIOUS
<1>4. /\ n \notin DOMAIN contracts /\ n # NoAddress /\ New(n)'
      /\ \A a \in DOMAIN contracts : contracts'[a] = contracts[a]
      /\ contracts'[n].kind = kind /\ contracts'[n].data = data
    BY DeployIs
<1>5. db' = Extend(db, id, n)
    BY DEF Deploy
<1>6. id \in DOMAIN db' /\ db'[id] = n /\ \A i \in DOMAIN db : i # id => SameEntry(i)
    BY <1>5 DEF Extend, SameEntry
<1>7. DeploysInOrder(step, Done)
    BY <1>1, StepIsOrdered
<1>8. /\ id \in Named => kind = id
      /\ id = "LendingPoolAddressesProvider" => \A o \in Oracles : ~HaveFor(Done, "Deploy", o)
      /\ id \in Oracles => /\ HaveFor(Done, "Deploy", "LendingPoolAddressesProvider")
                           /\ ~HaveFor(Done, "Deploy", id)
                           /\ \A e \in Done : ~SetsPrices(e, id)
    BY <1>1, StepIsPriced
<1>9. id \in Named => NamedOK(id)'
    BY <1>4, <1>6, <1>8 DEF NamedOK, New
<1>10. ProviderOK /\ id # "LendingPoolAddressesProvider" => SameEntry("LendingPoolAddressesProvider")
    BY <1>6 DEF ProviderOK
<1>11. ASSUME id \in Oracles
       PROVE  PricesSet(id, data)' /\ OnlyProviderAsks(id)'
  <2>1. NamedOK(id)'
    BY <1>9, <1>11 DEF Named
  <2>2. ProviderOK
    BY <1>1, <1>8, <1>11, WhatIsDone
  <2>3. id # "LendingPoolAddressesProvider"
    BY <1>11 DEF Oracles
  <2>4. ProviderOK'
    BY <1>2, <1>3, <1>10, <2>2, <2>3, ProviderStays
  <2>5. ASSUME NEW p \in Markets', contracts'[p].ref["PriceOracle"] = n
        PROVE  FALSE
    <3>1. p \in Markets /\ contracts[p].ref["PriceOracle"] = n
      BY <1>3, <1>4, <2>5 DEF KeepsRef
    <3> QED BY <1>1, <1>4, <3>1 DEF StaysOK, OraclesOK, OracleFits
  <2>6. OnlyProviderAsks(id)'
    BY <1>6, <2>4, <2>5 DEF OnlyProviderAsks
  <2>7. NamedOK(id)' /\ data \subseteq contracts'[db'[id]].data
    BY <1>4, <1>6, <2>1
  <2> QED BY <2>6, <2>7 DEF PricesSet
<1>12. ASSUME NEW s, s = step PROVE Leaves(s)'
  <2>1. s.op = "Deploy" /\ s.id = id /\ s.data = data
    BY <1>1, <1>12
  <2>2. s.id \in Oracles => PricesSet(s.id, s.data)' /\ OnlyProviderAsks(s.id)'
    BY <1>11, <2>1
  <2> QED BY <1>9, <2>1, <2>2 DEF Leaves, SetsPrices
<1>13. ASSUME NEW s \in Done PROVE Leaves(s)'
  <2>1. Leaves(s)
    BY <1>1 DEF JobOK
  <2>2. CASE s.op = "Deploy" /\ s.id = id
    <3>1. id \notin Oracles
      BY <1>8, <2>2 DEF HaveFor
    <3> QED BY <1>9, <2>2, <3>1 DEF Leaves, SetsPrices
  <2>3. CASE ~(s.op = "Deploy" /\ s.id = id)
    <3>1. s.op = "Deploy" /\ s.id \in Named => SameEntry(s.id)
      BY <1>6, <2>1, <2>3 DEF Leaves, NamedOK
    <3>2. ASSUME NEW o \in Oracles, SetsPrices(s, o) PROVE SameEntry(o)
      <4>1. o # id /\ NamedOK(o)
        BY <1>8, <2>1, <3>2 DEF Leaves, PricesSet
      <4> QED BY <1>6, <4>1 DEF NamedOK
    <3>3. s.op # "Deploy" \/ s.id \in Oracles => id # "LendingPoolAddressesProvider"
      BY <1>7, <1>8 DEF DeploysInOrder, HaveFor
    <3>4. s.op = "Insert" /\ s.id = "LendingPoolConfigurator" => SameEntry("LendingPoolConfigurator")
      <4>1. ASSUME s.op = "Insert", s.id = "LendingPoolConfigurator" PROVE id # "LendingPoolConfigurator"
        BY <1>7, <4>1 DEF DeploysInOrder, HaveFor, ProxyIds
      <4>2. s.op = "Insert" /\ s.id = "LendingPoolConfigurator" => "LendingPoolConfigurator" \in DOMAIN db
        BY <2>1 DEF Leaves, ConfiguratorSaved
      <4> QED BY <1>6, <4>1, <4>2
    <3>5. ProviderOK => contracts'[Provider] = contracts[Provider]
      BY <1>4 DEF ProviderOK, New
    <3>6. PricedForJob => ProviderOK
      BY DEF PricedForJob
    <3> QED BY <1>1, <1>2, <1>3, <1>10, <2>1, <3>1, <3>2, <3>3, <3>4, <3>5, <3>6, LeavesKept
  <2> QED BY <2>2, <2>3
<1> QED BY <1>12, <1>13

\* A provider that is deployed is a market with nothing in it.
LEMMA MarketCreated ==
    ASSUME MInv, LInv, PricedScripts, Deploy, step.kind = "LendingPoolAddressesProvider"
    PROVE  Lifecycle!Create
<1> PICK kind : kind = step.kind
    OBVIOUS
<1> PICK n : n = NewAddress(kind)
    OBVIOUS
<1>1. /\ n \notin DOMAIN contracts
      /\ DOMAIN contracts' = DOMAIN contracts \union {n}
      /\ \A a \in DOMAIN contracts : contracts'[a] = contracts[a]
      /\ contracts'[n].kind = kind
      /\ kind = "LendingPoolAddressesProvider" =>
             \A i \in ProxyIds \union {"PriceOracle"} : contracts'[n].ref[i] = NoAddress
    BY DeployIs
<1>2. OthersStay({})
    BY DeployStays
<1>3. contracts'[n].ref["LendingPool"] = NoAddress /\ contracts'[n].ref["PriceOracle"] = NoAddress
    BY <1>1 DEF ProxyIds
<1>4. Markets' = Markets \union {n} /\ n \notin Markets
    BY <1>1 DEF Markets, OfKind
<1>5. Reserves(n)' = << >> /\ PricedAssets(n)' = {} /\ ~HasPool(n)' /\ ~IsPaused(n)'
    BY <1>3 DEF Reserves, PricedAssets, HasPool, IsPaused, Provided
<1>6. MarketOf(n)' = Lifecycle!NewMarket
  <2>1. MarketOf(n)' =
           [pool |-> HasPool(n)', priced |-> PricedAssets(n)', listed |-> (DOMAIN Reserves(n))',
            enabled |-> Enabled(n)', paused |-> IsPaused(n)']
    BY Zenon DEF MarketOf, HasPool, IsPaused, Enabled
  <2>2. (DOMAIN Reserves(n))' = {} /\ Enabled(n)' = {}
    BY <1>5 DEF Enabled
  <2>3. HasPool(n)' = FALSE /\ IsPaused(n)' = FALSE
    BY <1>5 DEF HasPool, IsPaused
  <2> QED BY <1>5, <2>1, <2>2, <2>3, Zenon DEF Lifecycle!NewMarket
<1>7. Shown = [q \in Markets |-> MarketOf(q)] /\ Shown' = [q \in Markets' |-> MarketOf(q)']
    BY DEF Shown
<1>8. Shown' = [q \in Markets \union {n} |-> IF q = n THEN Lifecycle!NewMarket ELSE Shown[q]]
  <2>1. \A q \in Markets : MarketOf(q)' = MarketOf(q)
    BY <1>2 DEF OthersStay
  <2> QED BY <1>4, <1>6, <1>7, <2>1
<1>9. DOMAIN Shown = Markets /\ DOMAIN Shown' = Markets'
    BY DEF Shown
<1>10. n \in DOMAIN Shown' \ DOMAIN Shown
       /\ Shown' = [q \in DOMAIN Shown \union {n} |-> IF q = n THEN Lifecycle!NewMarket ELSE Shown[q]]
    BY <1>4, <1>8, <1>9
<1> QED BY <1>10 DEF Lifecycle!Create, Shown

LEMMA MarketDeployed ==
    ASSUME MInv, LInv, PricedScripts, Deploy
    PROVE  LInv' /\ (Lifecycle!Next \/ Shown' = Shown)
<1>1. AtStep /\ ~Throws /\ Proceed /\ RunOK
    BY DEF Deploy, Takes, MInv, IInv
<1>2. Continues
    BY <1>1, Proceeds
<1>3. LInv'
    BY <1>1, <1>2, DeployStays, DeployLeaves, AssembleLInv
<1>4. CASE step.kind = "LendingPoolAddressesProvider"
  <2>1. Lifecycle!Create
    BY <1>4, MarketCreated
  <2> QED BY <1>3, <2>1 DEF Lifecycle!Next
<1>5. CASE step.kind # "LendingPoolAddressesProvider"
  <2> PICK kind : kind = step.kind
    OBVIOUS
  <2> PICK n : n = NewAddress(kind)
    OBVIOUS
  <2>1. /\ n \notin DOMAIN contracts
        /\ DOMAIN contracts' = DOMAIN contracts \union {n}
        /\ \A a \in DOMAIN contracts : contracts'[a] = contracts[a]
        /\ contracts'[n].kind = kind
    BY DeployIs
  <2>2. Markets' = Markets
    BY <1>5, <2>1 DEF Markets, OfKind
  <2>3. \A p \in Markets : MarketOf(p)' = MarketOf(p)
    BY DeployStays DEF OthersStay
  <2> QED BY <1>3, <2>2, <2>3 DEF Shown
<1> QED BY <1>4, <1>5
-----------------------------------------------------------------------------
\* The proxies in the database, and the gateway in the configuration.
LEMMA ContractsSame ==
    ASSUME StaysOK, AddressesOK, UNCHANGED contracts
    PROVE  /\ Calm /\ Rooted /\ KeepsPrices /\ OthersKeepOracle /\ OthersStay({})
           /\ StaysOK' /\ Markets' = Markets /\ Shown' = Shown
<1>1. Calm /\ Rooted /\ KeepsPrices
    BY DEF Calm, Rooted, KeepsPrices
<1>2. StaysOK' /\ OthersStay({}) /\ Markets' = Markets
    BY <1>1, CalmStays
<1>3. OthersKeepOracle
    BY <1>2 DEF OthersKeepOracle
<1>4. Shown' = Shown
    BY <1>2 DEF OthersStay, Shown
<1> QED BY <1>1, <1>2, <1>3, <1>4

LEMMA AddressSaved ==
    ASSUME MInv, LInv, Insert \/ EditGateway
    PROVE  LInv' /\ Shown' = Shown
<1>1. AtStep /\ ~Throws /\ Proceed /\ UNCHANGED contracts /\ step.op \in {"Insert", "EditGateway"} /\ RunOK
      /\ Active /\ AddressesOK /\ StaysOK /\ JobOK
    BY DEF Insert, EditGateway, Takes, MInv, IInv, AtStep, Active, LInv
<1>2. Continues /\ SameProcess
    BY <1>1, Proceeds DEF Continues, SameProcess
<1>3. /\ Rooted /\ KeepsPrices /\ OthersKeepOracle /\ OthersStay({})
      /\ StaysOK' /\ Markets' = Markets /\ Shown' = Shown
    BY <1>1, ContractsSame
<1>4. ListedOK'
    BY <1>1, <1>2, <1>3, ListedKept DEF JobOK
<1> PICK id : id = step.id
    OBVIOUS
<1>5. \/ /\ step.op = "Insert" /\ id \in ProxyIds /\ Created(id) /\ ProviderOK /\ UNCHANGED gateway
         /\ db' = Extend(db, id, contracts[Provider].ref[id])
      \/ /\ step.op = "EditGateway" /\ HaveFor(Done, "Deploy", "WETHGateway") /\ UNCHANGED db
         /\ gateway' = db["WETHGateway"]
    BY <1>1, StepOrder, WhatIsDone DEF Insert, EditGateway, Takes
<1>6. \A i \in DOMAIN db : (i \notin ProxyIds \/ step.op # "Insert" \/ i # id) => SameEntry(i)
    BY <1>5 DEF SameEntry, Extend
<1>7. ProviderOK => SameEntry("LendingPoolAddressesProvider")
    BY <1>6 DEF ProviderOK, ProxyIds
<1>8. step.op = "Insert" /\ id = "LendingPoolConfigurator" => ConfiguratorSaved'
  <2> SUFFICES ASSUME step.op = "Insert", id = "LendingPoolConfigurator" PROVE ConfiguratorSaved'
    OBVIOUS
  <2> PICK p : p = Provider
    OBVIOUS
  <2> PICK a : a = contracts[p].ref[id]
    OBVIOUS
  <2>1. New(a)
    BY <1>5 DEF Created
  <2>2. a # NoAddress
    BY <1>1, <2>1, NoAddressIsExternal, ExternalIsNoContract DEF New
  <2>3. ProviderOK' /\ Provider' = p
    BY <1>2, <1>3, <1>5, <1>7, ProviderStays
  <2>4. id \in DOMAIN db' /\ db'[id] = a
    BY <1>5 DEF Extend
  <2> QED BY <1>1, <2>2, <2>3, <2>4 DEF ConfiguratorSaved
<1>9. step.op = "EditGateway" => New(gateway)' /\ contracts'[gateway'].kind = "WETHGateway"
  <2> SUFFICES ASSUME step.op = "EditGateway" PROVE New(gateway)' /\ contracts'[gateway'].kind = "WETHGateway"
    OBVIOUS
  <2> PICK g : g = gateway'
    OBVIOUS
  <2>1. NamedOK("WETHGateway")
    BY <1>1, <1>5 DEF HaveFor, JobOK, Leaves, Named
  <2>2. g = db["WETHGateway"]
    BY <1>5
  <2>3. g \in DOMAIN contracts /\ g \notin run.before /\ contracts[g].kind = "WETHGateway"
    BY <2>1, <2>2 DEF NamedOK, New
  <2> QED BY <1>1, <1>2, <2>3 DEF New, SameProcess
<1>10. \A s : s = step => Leaves(s)'
    BY <1>1, <1>8, <1>9 DEF Leaves, SetsPrices
<1>11. ASSUME NEW s \in Done PROVE Leaves(s)'
  <2>1. Leaves(s)
    BY <1>1 DEF JobOK
  <2>2. CASE s.op = step.op /\ (s.op = "Insert" => s.id = id)
    <3>1. s.op = "Insert" /\ s.id = "LendingPoolConfigurator" => ConfiguratorSaved'
      BY <1>8, <2>2
    <3>2. s.op = "EditGateway" => New(gateway)' /\ contracts'[gateway'].kind = "WETHGateway"
      BY <1>9, <2>2
    <3> QED BY <1>1, <2>2, <3>1, <3>2 DEF Leaves, SetsPrices
  <2>3. CASE ~(s.op = step.op /\ (s.op = "Insert" => s.id = id))
    <3>1. s.op = "Deploy" /\ s.id \in Named => SameEntry(s.id)
      BY <1>6, <2>1 DEF Leaves, NamedOK, Named, Oracles, ProxyIds
    <3>2. \A o \in Oracles : SetsPrices(s, o) => SameEntry(o)
      BY <1>6, <2>1 DEF Leaves, PricesSet, NamedOK, Oracles, ProxyIds
    <3>3. s.op = "Insert" /\ s.id = "LendingPoolConfigurator" => SameEntry("LendingPoolConfigurator")
      BY <1>6, <2>1, <2>3 DEF Leaves, ConfiguratorSaved
    <3>4. s.op = "EditGateway" => gateway' = gateway
      BY <1>5, <2>3
    <3>5. contracts'[Provider] = contracts[Provider]
      BY <1>1
    <3> QED BY <1>1, <1>2, <1>3, <1>7, <2>1, <3>1, <3>2, <3>3, <3>4, <3>5, LeavesKept
  <2> QED BY <2>2, <2>3
<1> QED BY <1>1, <1>2, <1>3, <1>4, <1>10, <1>11, AssembleLInv
-----------------------------------------------------------------------------
\* Between the steps: tasks that end, and what the operator does.
LEMMA PriceProcessGoesOn ==
    ASSUME MInv, LInv, Active, UNCHANGED <<contracts, db, gateway>>,
           run'.jobs = run.jobs, run'.before = run.before, Done' \subseteq Done
    PROVE  LInv' /\ Shown' = Shown
<1>1. SameProcess /\ AddressesOK /\ StaysOK /\ JobOK
    BY DEF SameProcess, MInv, LInv
<1>2. /\ Rooted /\ KeepsPrices /\ OthersKeepOracle /\ OthersStay({})
      /\ StaysOK' /\ Markets' = Markets /\ Shown' = Shown
    BY <1>1, ContractsSame
<1>3. ListedOK'
    BY <1>1, <1>2, ListedKept DEF JobOK
<1>4. contracts'[Provider] = contracts[Provider]
    OBVIOUS
<1>5. ASSUME NEW s \in Done' PROVE Leaves(s)'
  <2>1. Leaves(s)
    BY <1>1, <1>5 DEF JobOK
  <2> QED BY <1>1, <1>2, <1>4, <2>1, DoneLeaves
<1> QED BY <1>2, <1>3, <1>5 DEF LInv, JobOK

LEMMA OperatorActs ==
    ASSUME MInv, LInv, NextTask \/ Stop \/ StartOver \/ Resume \/ NextMarket
    PROVE  LInv' /\ Shown' = Shown
<1>1. RunOK /\ AddressesOK /\ StaysOK
    BY DEF MInv, IInv, LInv
<1>2. UNCHANGED <<contracts, db, gateway>>
    BY DEF NextTask, Stop, StartOver, Resume, NextMarket
<1>3. StaysOK' /\ Shown' = Shown
    BY <1>1, <1>2, ContractsSame
<1>4. CASE NextTask \/ Stop \/ Resume
  <2>1. Active /\ run'.jobs = run.jobs /\ run'.before = run.before /\ Done' \subseteq Done
    BY <1>1, <1>4, TaskEnds, Stopped, Resumed
  <2> QED BY <1>2, <2>1, PriceProcessGoesOn
<1>5. CASE StartOver
  <2>1. Done' = {} /\ run'.before = DOMAIN contracts
    BY <1>1, <1>5, StartedOver
  <2>2. \A p \in Markets' : ~New(p)'
    BY <1>2, <2>1, MarketIs DEF New
  <2> QED BY <1>3, <2>1, <2>2 DEF LInv, JobOK, ListedOK
<1>6. CASE NextMarket
  <2>1. ~Active'
    BY <1>1, <1>6, NextStarts
  <2> QED BY <1>3, <2>1 DEF LInv
<1> QED BY <1>4, <1>5, <1>6
-----------------------------------------------------------------------------
LEMMA InitLInv ==
    ASSUME Init
    PROVE  LInv /\ Lifecycle!Init
<1>1. /\ ~Active
      /\ \A a \in DOMAIN contracts : contracts[a].kind = "LendingPoolAddressesProviderRegistry"
    BY DEF Init, Contract, Active
<1>2. Markets = {}
    BY <1>1, MarketIs
<1>3. StaysOK
    BY <1>1, <1>2 DEF StaysOK, ProvidersOK, OraclesOK, PricedOK, Oracles
<1>4. Shown = << >>
    BY <1>2 DEF Shown
<1> QED BY <1>1, <1>3, <1>4 DEF LInv, Lifecycle!Init, Shown

LEMMA StepLInv ==
    ASSUME MInv, LInv, PricedScripts, [Next]_vars
    PROVE  LInv' /\ [Lifecycle!Next]_Shown
<1>1. CASE UNCHANGED vars
  <2>1. UNCHANGED <<contracts, db, gateway>> /\ run' = run /\ AddressesOK /\ StaysOK
    BY <1>1 DEF vars, MInv, LInv
  <2>2. CASE Active
    <3>1. Done' = Done
      BY <2>1 DEF Done, job
    <3> QED BY <2>1, <2>2, <3>1, PriceProcessGoesOn
  <2>3. CASE ~Active
    <3>1. StaysOK' /\ Shown' = Shown /\ ~Active'
      BY <2>1, <2>3, ContractsSame DEF Active
    <3> QED BY <3>1 DEF LInv
  <2> QED BY <2>2, <2>3
<1>2. CASE ScriptStep
  <2>1. CASE Get \/ Collect \/ Revert \/ Throw \/ ReadAdmin
    BY <2>1, NothingWritten
  <2>2. CASE Deploy
    BY <2>2, MarketDeployed
  <2>3. CASE SetAddress
    BY <2>3, OracleGiven, AddressGiven
  <2>4. CASE SetImpl
    BY <2>4, PoolCreated, ConfiguratorCreated
  <2>5. CASE Insert \/ EditGateway
    BY <2>5, AddressSaved
  <2>6. CASE Register \/ AuthorizeLendingPool \/ SetOracleBorrowRates
    BY <2>6, DataWritten
  <2>7. CASE TransferRateOracle \/ SetOracleOwnership
    BY <2>7, OwnerWritten
  <2>8. CASE GrantHelper \/ RestoreAdmin
    BY <2>8, AdminWritten
  <2>9. CASE SetPoolPause \/ SetPrices
    BY <2>9, PoolPaused, OraclePriced
  <2>10. CASE InitReserve \/ ConfigureReserves
    BY <2>10, ReserveListed, ReservesEnabled
  <2>11. CASE NextTask
    BY <2>11, OperatorActs
  <2> QED BY <1>2, <2>1, <2>2, <2>3, <2>4, <2>5, <2>6, <2>7, <2>8, <2>9, <2>10, <2>11 DEF ScriptStep
<1>3. CASE Stop \/ StartOver \/ Resume \/ NextMarket
    BY <1>3, OperatorActs
<1> QED BY <1>1, <1>2, <1>3 DEF Next

\* For all scripts that give an oracle the prices of what they list before a provider has
\* it: whatever the operator stops, resumes and starts over, and however many markets he
\* deploys on a network, each step of the scripts is one step of one market of
\* MarketLifecycle, or changes nothing of any.  A market is created empty, its pool is made
\* once, an asset is listed after it has a price, is enabled as collateral after it is
\* listed, and none of it is undone.
THEOREM ScriptsFollowLifecycle ==
    ASSUME PricedScripts
    PROVE  Spec => MarketsFollowLifecycle
<1>1. Init => MInv /\ LInv /\ Lifecycle!Init
    BY InitMInv, InitLInv
<1>2. MInv /\ LInv /\ [Next]_vars => MInv' /\ LInv' /\ [Lifecycle!Next]_Shown
    BY StepMInv, StepLInv
<1> QED BY <1>1, <1>2, PTL DEF Spec, MarketsFollowLifecycle, Lifecycle!Spec, Shown

\* For the same scripts, at every moment: every reserve that is listed has a price, and every
\* reserve that is collateral is listed.
THEOREM ListingsHavePrices ==
    ASSUME PricedScripts
    PROVE  Spec => []ListedReservesArePriced
<1>1. Init => MInv /\ LInv
    BY InitMInv, InitLInv
<1>2. MInv /\ LInv /\ [Next]_vars => MInv' /\ LInv'
    BY StepMInv, StepLInv
<1>3. LInv => ListedReservesArePriced
    BY DEF LInv, StaysOK, PricedOK, MarketOf, ListedReservesArePriced, Lifecycle!ListedArePriced
<1> QED BY <1>1, <1>2, <1>3, PTL DEF Spec
=============================================================================
