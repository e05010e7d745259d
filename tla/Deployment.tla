----------------------------- MODULE Deployment -----------------------------
(***************************************************************************)
(* Deploying markets with the scripts of tasks/: an operator runs the      *)
(* tasks of a market in order, a run may be stopped between any two steps  *)
(* (a dropped connection, a transaction that never confirms, an            *)
(* interrupted process), and is started over or resumed at the task that   *)
(* did not finish.  The state is the chain (contracts), the JSON database  *)
(* of addresses the scripts share (getDb, one entry for each contract id   *)
(* and network), the gateway in the edited market configuration, and the   *)
(* running process.                                                        *)
(***************************************************************************)
EXTENDS MarketConfiguration, FiniteSets

CONSTANTS
    Jobs,       \* by name: [market, signer, poolAdmin, emergencyAdmin, paused, tasks]
    Scenarios,  \* the sequences of jobs an operator may run on one network
    MaxStarts   \* how many times he starts a script in a scenario

VARIABLES
    contracts,  \* address |-> contract, of everything deployed
    db,         \* contract id |-> address
    gateway,    \* the WETHGateway an operator put in the configuration
    run         \* the process: see Init

vars == <<contracts, db, gateway, run>>

job == Jobs[run.jobs[1]]
task == job.tasks[run.task]
step == task[run.pc]

(* A contract: its kind, the Ownable owner, the addresses it refers to and *)
(* the assets, pools, markets or rates it knows.                           *)
Contract(kind, owner, ref, data) == [kind |-> kind, owner |-> owner, ref |-> ref, data |-> data]

(* What a LendingPool proxy keeps: the reserves that are listed.           *)
LendingPoolProxy(provider, impl) ==
    [kind |-> "LendingPool", owner |-> provider, ref |-> [provider |-> provider, impl |-> impl],
     data |-> {}, paused |-> FALSE, reserves |-> << >>]

UnconfiguredReserve(strategy) ==
    [strategy |-> strategy, ltv |-> 0, threshold |-> 0, bonus |-> 0, factor |-> 0,
     borrowing |-> FALSE, stable |-> FALSE]

(* What the provider is the upgradeable proxy's admin of.                  *)
ProxyIds == {"LendingPool", "LendingPoolConfigurator"}

OfKind(kind) == {a \in DOMAIN contracts : contracts[a].kind = kind}
NewAddress(kind) == <<"script", kind, Cardinality(OfKind(kind)) + 1>>

Extend(f, key, value) == [x \in DOMAIN f \union {key} |-> IF x = key THEN value ELSE f[x]]

Provider == db["LendingPoolAddressesProvider"]

Value(e) ==
    CASE e.from = "db" -> db[e.id]
      [] e.from = "configuration" -> e.address
      [] e.from = "provider" -> contracts[Provider].ref[e.id]
      [] e.from = "admin" -> run.admin
      [] e.from = "gateway" -> gateway

Params(asset) ==
    LET rs == job.market.ReservesConfig
    IN rs[CHOOSE i \in DOMAIN rs : rs[i].asset = asset].params
----------------------------------------------------------------------------
(* What the contracts require of a transaction.                            *)
OnlyOwner(address) == contracts[address].owner = job.signer

PoolAdminOf(configurator) == contracts[contracts[configurator].ref.provider].ref["PoolAdmin"]
EmergencyAdminOf(configurator) == contracts[contracts[configurator].ref.provider].ref["EmergencyAdmin"]
PoolOf(configurator) == contracts[configurator].ref["pool"]
IsConfigurator(address) ==
    /\ contracts[address].kind = "LendingPoolConfigurator"
    /\ contracts[contracts[address].ref.provider].ref["LendingPoolConfigurator"] = address

(* LendingPoolConfigurator.configureReserveAsCollateral, setReserveFactor. *)
ValidParams(p) ==
    /\ p.baseLTVAsCollateral <= p.liquidationThreshold
    /\ IF p.liquidationThreshold = 0
       THEN p.liquidationBonus = 0
       ELSE /\ p.liquidationBonus > 10000
            /\ (p.liquidationThreshold * p.liquidationBonus + 5000) \div 10000 <= 10000
    /\ p.reserveFactor <= 10000

RateOracle == db["LendingRateOracle"]
RatesHelper == db["StableAndVariableTokensHelper"]
ReservesHelper == db["ATokensAndRatesHelper"]

(* configureReservesByHelper configures 20 reserves in a transaction.      *)
EnableChunks == 20
Chunk == SubSeq(run.todo, 1, IF Len(run.todo) < EnableChunks THEN Len(run.todo) ELSE EnableChunks)

\* Mutant: the next chunk begins one reserve late.
Rest_skipsOne == SubSeq(run.todo, Len(Chunk) + 2, Len(run.todo))

Rest == SubSeq(run.todo, Len(Chunk) + 1, Len(run.todo))

\* Mutant: a proxy is created again when a provider has one.
CanInitialize_always(id) == TRUE

(* _updateImpl creates a proxy only the first time; it upgrades a proxy it *)
(* has and initialises it again, which reverts at the same revision.       *)
CanInitialize(id) == contracts[Provider].ref[id] = NoAddress

Accepts ==
    CASE step.op = "SetAddress" -> OnlyOwner(Provider)
      [] step.op = "SetImpl" -> OnlyOwner(Provider) /\ CanInitialize(step.id)
      [] step.op = "Register" -> OnlyOwner(Value(step.registry))
      [] step.op = "SetPoolPause" ->
            LET c == db["LendingPoolConfigurator"]
            IN IsConfigurator(c) /\ EmergencyAdminOf(c) = job.emergencyAdmin
      [] step.op = "SetPrices" ->
            contracts[Value(step.oracle)].kind = "AaveOracle" => OnlyOwner(Value(step.oracle))
      [] step.op = "TransferRateOracle" -> OnlyOwner(RateOracle)
      [] step.op \in {"SetOracleBorrowRates", "SetOracleOwnership"} ->
            OnlyOwner(RatesHelper) /\ contracts[RateOracle].owner = RatesHelper
      [] step.op = "InitReserve" ->
            LET c == db["LendingPoolConfigurator"]
            IN /\ IsConfigurator(c)
               /\ PoolAdminOf(c) = job.signer
               /\ step.reserve \notin DOMAIN contracts[PoolOf(c)].reserves
      [] step.op = "GrantHelper" -> run.todo # << >> => OnlyOwner(Provider)
      [] step.op = "ConfigureReserves" ->
            LET c == contracts[ReservesHelper].ref["configurator"]
            IN run.todo # << >> =>
                   /\ OnlyOwner(ReservesHelper)
                   /\ PoolAdminOf(c) = ReservesHelper
                   /\ \A i \in DOMAIN Chunk : ValidParams(Params(Chunk[i]))
      [] step.op = "RestoreAdmin" -> run.granted => OnlyOwner(Provider)
      [] step.op = "AuthorizeLendingPool" -> OnlyOwner(Value(step.gateway))
      [] OTHER -> TRUE

(* What a script throws at: a contract missing from the database, a token  *)
(* without an aggregator, a name that is not in the configuration, a       *)
(* registry of another owner.                                              *)
Throws ==
    \/ step.op = "Throw"
    \/ step.op = "Get" /\ step.id \notin DOMAIN db
    \/ step.op = "Register" /\ ~Accepts
----------------------------------------------------------------------------
(* The process.                                                            *)
AtStep == run.status = "running" /\ run.pc \in DOMAIN task
Takes(op) == AtStep /\ step.op = op /\ ~Throws /\ Accepts
Proceed == run' = [run EXCEPT !.pc = @ + 1]

Get == Takes("Get") /\ Proceed /\ UNCHANGED <<contracts, db, gateway>>

\* Mutant: the address of an earlier deployment is kept.
Deploy_keepsEntry ==
    /\ Takes("Deploy")
    /\ LET address == NewAddress(step.kind)
           ref == [r \in DOMAIN step.ref |-> Value(step.ref[r])]
       IN /\ contracts' = Extend(contracts, address, Contract(step.kind, job.signer, ref, step.data))
          /\ db' = IF step.id \in DOMAIN db THEN db ELSE Extend(db, step.id, address)
    /\ Proceed
    /\ UNCHANGED gateway

(* registerContractInJsonDb saves what was deployed.                       *)
Deploy ==
    /\ Takes("Deploy")
    /\ LET address == NewAddress(step.kind)
           ref == [r \in DOMAIN step.ref |-> Value(step.ref[r])]
       IN /\ contracts' = Extend(contracts, address, Contract(step.kind, job.signer, ref, step.data))
          /\ db' = Extend(db, step.id, address)
    /\ Proceed
    /\ UNCHANGED gateway

(* LendingPoolAddressesProvider: setPoolAdmin, setEmergencyAdmin,          *)
(* setPriceOracle, setLendingRateOracle, setLendingPoolCollateralManager   *)
(* and setAddress.                                                         *)
SetAddress ==
    /\ Takes("SetAddress")
    /\ contracts' = [contracts EXCEPT ![Provider].ref[step.id] = Value(step.value)]
    /\ Proceed
    /\ UNCHANGED <<db, gateway>>

(* setLendingPoolImpl, setLendingPoolConfiguratorImpl: the proxy is        *)
(* created and initialised with the provider.                              *)
SetImpl ==
    /\ Takes("SetImpl")
    /\ LET proxy == NewAddress(step.id)
           impl == Value(step.value)
           code == IF step.id = "LendingPool"
                   THEN LendingPoolProxy(Provider, impl)
                   ELSE Contract(step.id, Provider,
                                 [provider |-> Provider, impl |-> impl,
                                  pool |-> contracts[Provider].ref["LendingPool"]], {})
       IN contracts' = [Extend(contracts, proxy, code) EXCEPT ![Provider].ref[step.id] = proxy]
    /\ Proceed
    /\ UNCHANGED <<db, gateway>>

\* Mutant: the proxy is not saved, and its implementation stays in the database.
Insert_forgotten == Takes("Insert") /\ Proceed /\ UNCHANGED <<contracts, db, gateway>>

(* insertContractAddressInDb of the proxy the provider has.                *)
Insert ==
    /\ Takes("Insert")
    /\ db' = Extend(db, step.id, contracts[Provider].ref[step.id])
    /\ Proceed
    /\ UNCHANGED <<contracts, gateway>>

ReadAdmin ==
    /\ Takes("ReadAdmin")
    /\ run' = [run EXCEPT !.pc = @ + 1, !.admin = contracts[Provider].ref["PoolAdmin"]]
    /\ UNCHANGED <<contracts, db, gateway>>

Register ==
    /\ Takes("Register")
    /\ contracts' = [contracts EXCEPT ![Value(step.registry)].data = @ \union {<<Provider, step.providerId>>}]
    /\ Proceed
    /\ UNCHANGED <<db, gateway>>

SetPoolPause ==
    /\ Takes("SetPoolPause")
    /\ contracts' = [contracts EXCEPT ![PoolOf(db["LendingPoolConfigurator"])].paused = TRUE]
    /\ Proceed
    /\ UNCHANGED <<db, gateway>>

\* Mutant: the sources replace those of all other assets.
SetPrices_replaces ==
    /\ Takes("SetPrices")
    /\ contracts' = [contracts EXCEPT ![Value(step.oracle)].data = step.assets]
    /\ Proceed
    /\ UNCHANGED <<db, gateway>>

(* setAssetSources of AaveOracle, setAssetPrice of the PriceOracle mock.   *)
SetPrices ==
    /\ Takes("SetPrices")
    /\ contracts' = [contracts EXCEPT ![Value(step.oracle)].data = @ \union step.assets]
    /\ Proceed
    /\ UNCHANGED <<db, gateway>>

\* Mutant: the rate oracle is handed to the helper of the reserves.
TransferRateOracle_wrongHelper ==
    /\ Takes("TransferRateOracle")
    /\ contracts' = [contracts EXCEPT ![RateOracle].owner = ReservesHelper]
    /\ Proceed
    /\ UNCHANGED <<db, gateway>>

TransferRateOracle ==
    /\ Takes("TransferRateOracle")
    /\ contracts' = [contracts EXCEPT ![RateOracle].owner = RatesHelper]
    /\ Proceed
    /\ UNCHANGED <<db, gateway>>

SetOracleBorrowRates ==
    /\ Takes("SetOracleBorrowRates")
    /\ contracts' = [contracts EXCEPT ![RateOracle].data = @ \union step.assets]
    /\ Proceed
    /\ UNCHANGED <<db, gateway>>

SetOracleOwnership ==
    /\ Takes("SetOracleOwnership")
    /\ contracts' = [contracts EXCEPT ![RateOracle].owner = Value(step.admin)]
    /\ Proceed
    /\ UNCHANGED <<db, gateway>>
----------------------------------------------------------------------------
(* batchInitReserve of one reserve.                                        *)
InitReserve ==
    /\ Takes("InitReserve")
    /\ contracts' = [contracts EXCEPT ![PoolOf(db["LendingPoolConfigurator"])].reserves =
                         Extend(@, step.reserve, UnconfiguredReserve(db[step.strategy]))]
    /\ Proceed
    /\ UNCHANGED <<db, gateway>>

(* configureReservesByHelper asks the data provider which reserves are not *)
(* enabled as collateral (a liquidation threshold) yet.                    *)
EnabledAsCollateral(asset) ==
    LET reserves == contracts[contracts[contracts[db["AaveProtocolDataProvider"]].ref["provider"]]
                                  .ref["LendingPool"]].reserves
    IN asset \in DOMAIN reserves /\ reserves[asset].threshold # 0

Collect ==
    /\ Takes("Collect")
    /\ run' = [run EXCEPT !.pc = @ + 1,
                          !.todo = SelectSeq([i \in DOMAIN step.reserves |-> step.reserves[i].asset],
                                             LAMBDA asset : ~EnabledAsCollateral(asset))]
    /\ UNCHANGED <<contracts, db, gateway>>

GrantHelper ==
    /\ Takes("GrantHelper")
    /\ run' = [run EXCEPT !.pc = @ + 1, !.granted = run.todo # << >>]
    /\ contracts' = IF run.todo = << >> THEN contracts
                    ELSE [contracts EXCEPT ![Provider].ref["PoolAdmin"] = ReservesHelper]
    /\ UNCHANGED <<db, gateway>>

(* ATokensAndRatesHelper.configureReserves: borrowing stays as it is when  *)
(* it is not to be enabled.                                                *)
Configure(reserve, p) ==
    [reserve EXCEPT !.ltv = p.baseLTVAsCollateral, !.threshold = p.liquidationThreshold,
                    !.bonus = p.liquidationBonus, !.factor = p.reserveFactor,
                    !.borrowing = @ \/ p.borrowingEnabled,
                    !.stable = IF p.borrowingEnabled THEN p.stableBorrowRateEnabled ELSE @]

ConfigureReserves ==
    /\ Takes("ConfigureReserves")
    /\ LET pool == PoolOf(contracts[ReservesHelper].ref["configurator"])
           chosen == {Chunk[i] : i \in DOMAIN Chunk}
       IN contracts' =
            IF run.todo = << >> THEN contracts
            ELSE [contracts EXCEPT ![pool].reserves =
                      [a \in DOMAIN @ |-> IF a \in chosen THEN Configure(@[a], Params(a)) ELSE @[a]]]
    /\ run' = [run EXCEPT !.todo = Rest, !.pc = IF Rest = << >> THEN @ + 1 ELSE @]
    /\ UNCHANGED <<db, gateway>>

RestoreAdmin ==
    /\ Takes("RestoreAdmin")
    /\ contracts' = IF run.granted THEN [contracts EXCEPT ![Provider].ref["PoolAdmin"] = run.admin]
                    ELSE contracts
    /\ Proceed
    /\ UNCHANGED <<db, gateway>>

(* WETHGateway.authorizeLendingPool.                                       *)
AuthorizeLendingPool ==
    /\ Takes("AuthorizeLendingPool")
    /\ contracts' = [contracts EXCEPT ![Value(step.gateway)].data =
                         @ \union {contracts[Provider].ref["LendingPool"]}]
    /\ Proceed
    /\ UNCHANGED <<db, gateway>>

(* The operator puts the gateway of the last task in the configuration     *)
(* (deployment.md, step 5 of the main network).                            *)
EditGateway ==
    /\ Takes("EditGateway")
    /\ gateway' = db["WETHGateway"]
    /\ Proceed
    /\ UNCHANGED <<contracts, db>>
----------------------------------------------------------------------------
(* A task that ends is followed by the next one, in a process of its own:  *)
(* what a task read is forgotten.                                          *)
NextTask ==
    /\ run.status = "running"
    /\ run.pc \notin DOMAIN task
    /\ run' = IF run.task = Len(job.tasks)
              THEN [run EXCEPT !.status = "done"]
              ELSE [run EXCEPT !.task = @ + 1, !.pc = 1, !.admin = NoAddress, !.granted = FALSE]
    /\ UNCHANGED <<contracts, db, gateway>>

Revert ==
    /\ AtStep /\ ~Throws /\ ~Accepts
    /\ run' = [run EXCEPT !.status = "reverted"]
    /\ UNCHANGED <<contracts, db, gateway>>

Throw ==
    /\ AtStep /\ Throws
    /\ run' = [run EXCEPT !.status = "failed"]
    /\ UNCHANGED <<contracts, db, gateway>>

Stop ==
    /\ run.status = "running"
    /\ run.starts < MaxStarts    \* bound: a last start is not stopped
    /\ run' = [run EXCEPT !.status = "stopped"]
    /\ UNCHANGED <<contracts, db, gateway>>

Started(first, whole) ==
    [run EXCEPT !.status = "running", !.task = first, !.pc = 1, !.whole = whole, !.admin = NoAddress,
                !.todo = << >>, !.granted = FALSE, !.starts = @ + 1,
                !.before = IF whole THEN DOMAIN contracts ELSE @]

(* Every task of the market, from the first.                               *)
StartOver ==
    /\ run.status \in {"idle", "stopped", "failed", "reverted"}
    /\ run.starts < MaxStarts
    /\ run' = Started(1, TRUE)
    /\ UNCHANGED <<contracts, db, gateway>>

(* From the task that did not end.                                         *)
Resume ==
    /\ run.status \in {"stopped", "failed", "reverted"}
    /\ run.starts < MaxStarts
    /\ run' = Started(run.task, FALSE)
    /\ UNCHANGED <<contracts, db, gateway>>

NextMarket ==
    /\ run.status = "done" /\ Len(run.jobs) > 1
    /\ run' = [run EXCEPT !.status = "idle", !.jobs = Tail(@)]
    /\ UNCHANGED <<contracts, db, gateway>>

(* The registries that configurations name exist, and are the operator's.  *)
ConfiguredRegistries ==
    LET markets == UNION {{Jobs[s[i]].market : i \in DOMAIN s} : s \in Scenarios}
    IN {Configured(m.name, "ProviderRegistry") : m \in {n \in markets : HasConfigured(n, "ProviderRegistry")}}

(* Addresses that are no contract of the model, and those of them that can *)
(* sign.                                                                   *)
External(address) == address[1] # "script" /\ address \notin ConfiguredRegistries
IsAccount(address) == External(address) /\ address # NoAddress

(* The steps before the k-th of the t-th task.                             *)
Earlier(tasks, t, k) ==
    (UNION {{tasks[i][j] : j \in DOMAIN tasks[i]} : i \in 1..(t - 1)}) \union {tasks[t][j] : j \in 1..(k - 1)}

Have(steps, op) == \E s \in steps : s.op = op
HaveFor(steps, op, id) == \E s \in steps : s.op = op /\ s.id = id

(* An address of this job's own, or one outside the model.                 *)
IsOwn(e, done) ==
    \/ e.from = "configuration" /\ External(e.address)
    \/ e.from = "db" /\ e.id \notin ProxyIds /\ HaveFor(done, "Deploy", e.id)
    \/ e.from = "gateway" /\ Have(done, "EditGateway")

(* What the scripts deploy under its own name and trust to be that.        *)
Trusted == {"LendingPoolAddressesProvider", "LendingRateOracle", "StableAndVariableTokensHelper",
            "ATokensAndRatesHelper"}

(* What a provider has an entry for from the start, and what may be zero.  *)
Entries == ProxyIds \union {"PoolAdmin", "LendingRateOracle"}

(* What is asked of the order of the scripts: whatever a step writes to    *)
(* comes from an earlier step of the same job.  The provider is deployed   *)
(* before all that needs one; its proxies are created with setLendingPool- *)
(* Impl and setLendingPoolConfiguratorImpl alone, the pool first; the      *)
(* helper of the reserves is deployed for the provider's configurator; the *)
(* pool administrator is an account; and the rate oracle is given to an    *)
(* account, read in the same task while no task made the helper            *)
(* administrator yet.  Nothing is asked of steps that follow a Throw.      *)
DeploysInOrder(s, done) ==
    /\ s.kind # "LendingPool"
    /\ s.id \in Trusted => s.kind = s.id
    /\ s.id \in ProxyIds => ~HaveFor(done, "Insert", s.id)
    /\ s.kind = "LendingPoolAddressesProvider" =>
           \A id \in Entries :
               id \in DOMAIN s.ref /\ s.ref[id].from = "configuration" /\ s.ref[id].address = NoAddress
    /\ s.id = "LendingPoolAddressesProvider" =>
           \A d \in done : d.op = "Deploy" /\ d.id # "ATokensAndRatesHelper"
    /\ s.id = "ATokensAndRatesHelper" =>
           /\ HaveFor(done, "Deploy", "LendingPoolAddressesProvider")
           /\ HaveFor(done, "SetImpl", "LendingPoolConfigurator")
           /\ "configurator" \in DOMAIN s.ref
           /\ s.ref["configurator"].from = "provider" /\ s.ref["configurator"].id = "LendingPoolConfigurator"

SetsInOrder(s, done) ==
    /\ s.id \notin ProxyIds
    /\ s.id = "PoolAdmin" => s.value.from = "configuration" /\ IsAccount(s.value.address)
    /\ s.id = "LendingRateOracle" =>
           /\ IsOwn(s.value, done)
           /\ s.value.from \in {"configuration", "db"}
           /\ s.value.from = "db" => s.value.id = "LendingRateOracle"

WellFormedStep(tasks, t, k) ==
    LET s == tasks[t][k]
        done == Earlier(tasks, t, k)
        inTask == {tasks[t][j] : j \in 1..(k - 1)}
        deployed(id) == HaveFor(done, "Deploy", id)
    IN \/ Have(done, "Throw")
       \/ /\ s.op \in {"SetAddress", "SetImpl", "Insert", "ReadAdmin", "GrantHelper", "RestoreAdmin"} =>
                  deployed("LendingPoolAddressesProvider")
          /\ s.op = "Deploy" => DeploysInOrder(s, done)
          /\ s.op = "SetAddress" => SetsInOrder(s, done)
          /\ s.op = "SetImpl" => /\ s.id \in ProxyIds
                                 /\ s.id = "LendingPoolConfigurator" => HaveFor(done, "SetImpl", "LendingPool")
          /\ s.op = "Insert" => s.id \in ProxyIds /\ HaveFor(done, "SetImpl", s.id)
          /\ s.op = "ReadAdmin" => HaveFor(done, "SetAddress", "PoolAdmin")
          /\ s.op = "Register" => \/ IsOwn(s.registry, done)
                                  \/ /\ s.registry.from = "configuration"
                                     /\ s.registry.address \in ConfiguredRegistries
          /\ s.op \in {"SetPoolPause", "InitReserve"} => HaveFor(done, "Insert", "LendingPoolConfigurator")
          /\ s.op = "SetPrices" => IsOwn(s.oracle, done)
          /\ s.op \in {"TransferRateOracle", "SetOracleBorrowRates", "SetOracleOwnership"} =>
                  deployed("LendingRateOracle")
          /\ s.op = "TransferRateOracle" => deployed("StableAndVariableTokensHelper")
          /\ s.op = "SetOracleOwnership" =>
                  \/ s.admin.from = "configuration" /\ IsAccount(s.admin.address)
                  \/ s.admin.from = "admin" /\ Have(inTask, "ReadAdmin") /\ ~Have(Earlier(tasks, t + 1, 1), "GrantHelper")
          /\ s.op \in {"GrantHelper", "ConfigureReserves"} => deployed("ATokensAndRatesHelper")
          /\ s.op = "RestoreAdmin" => Have(done, "GrantHelper")
          /\ s.op = "AuthorizeLendingPool" => IsOwn(s.gateway, done)
          /\ s.op = "EditGateway" => deployed("WETHGateway")

ASSUME ScriptAssumption ==
    /\ IsFiniteSet(ConfiguredRegistries) /\ NoAddress \notin ConfiguredRegistries
    /\ Scenarios \subseteq Seq(STRING) \ {<< >>}
    /\ \A s \in Scenarios : \A i \in DOMAIN s :
           LET tasks == Jobs[s[i]].tasks
           IN /\ IsAccount(Jobs[s[i]].signer)
              /\ Len(tasks) \in Nat \ {0} /\ DOMAIN tasks = 1..Len(tasks)
              /\ \A t \in DOMAIN tasks :
                     /\ Len(tasks[t]) \in Nat /\ DOMAIN tasks[t] = 1..Len(tasks[t])
                     /\ \A k \in DOMAIN tasks[t] : WellFormedStep(tasks, t, k)

Init ==
    /\ contracts = [a \in ConfiguredRegistries |->
                        Contract("LendingPoolAddressesProviderRegistry", Signer(0), << >>, {})]
    /\ db = << >>
    /\ gateway = NoAddress
    /\ run \in [jobs : Scenarios, task : {1}, pc : {1}, status : {"idle"}, whole : {FALSE},
                admin : {NoAddress}, todo : {<< >>}, granted : {FALSE}, starts : {0}, before : {{}}]

ScriptStep ==
    \/ Get \/ Deploy \/ SetAddress \/ SetImpl \/ Insert \/ ReadAdmin \/ Register \/ SetPoolPause
    \/ SetPrices \/ TransferRateOracle \/ SetOracleBorrowRates \/ SetOracleOwnership
    \/ InitReserve \/ Collect \/ GrantHelper \/ ConfigureReserves \/ RestoreAdmin
    \/ AuthorizeLendingPool \/ EditGateway \/ NextTask \/ Revert \/ Throw

Next == ScriptStep \/ Stop \/ StartOver \/ Resume \/ NextMarket

(* A script that runs goes on; that the operator starts it is not assumed. *)
Spec == Init /\ [][Next]_vars /\ WF_vars(ScriptStep)
=============================================================================
