# A verification project for the Xave lending market

This directory holds TLA+ models of the contracts of this repository (an Aave V2
lending pool with its own rewards controller, price feeds and treasury), of the scripts that
deploy its markets and of what its test suite expects of the pool, the TLC
instances that check them, and theorems about them that TLAPS checks for every
value of the constants. Paths of contracts below are relative to `src/contracts`, all
others to `src`.

## 1. Inventory

### Components, their state and operations

| Component | State | Operations |
|---|---|---|
| **LendingPool** (`protocol/lendingpool/LendingPool.sol`) | per reserve: indexes, rates, timestamp, configuration, token addresses; per user: two bits per reserve; paused | deposit, withdraw, borrow, repay, swapBorrowRateMode, rebalanceStableBorrowRate, setUserUseReserveAsCollateral, finalizeTransfer (called by aTokens), flashLoan, and the setters the configurator calls |
| **LendingPoolCollateralManager** | none: delegate-called by the pool | liquidationCall |
| **LendingPoolConfigurator** | none: writes the reserves of the pool | initReserve, enable/disable borrowing, stable rate, activation, freezing, collateral parameters, reserve factor, strategy, pause, token upgrades |
| **AToken**, **VariableDebtToken** (on `IncentivizedERC20`) | scaled balances and supply, allowances | mint, burn, transfer, transferOnLiquidation, mintToTreasury, approveDelegation |
| **StableDebtToken** | principal, rate and timestamp per user; total, average rate and its timestamp | mint, burn |
| **ReserveLogic, GenericLogic, ValidationLogic** | none (libraries) | accrual, rates, health factors, the guards of every operation |
| **DefaultReserveInterestRateStrategy** | immutable parameters | calculateInterestRates |
| **WadRayMath, PercentageMath, MathUtils** | none | rounding multiplication, division, linear and compounded interest |
| **RnbwIncentivesController, RnbwDistributionManager** (`incentives/`) | per token: emission, index, timestamp, index of each user; unclaimed rewards per user | configureAssets, handleAction (the hook of the tokens), claimRewards |
| AaveOracle, FXEthBasePriceFeedOracle, FXLPEthPriceFeedOracle | sources and fallback | getAssetPrice, setAssetSources |
| WETHGateway | none | depositETH, withdrawETH, repayETH, borrowETH |
| Treasury (`buyback/Treasury.sol`) | whitelist of assets, reward token | buyback |
| Swap, repay and liquidation adapters (`adapters/`) | none | executeOperation and the swaps behind it |
| LendingPoolAddressesProvider, proxies, registry | addresses, revision numbers | upgrades and initialisation |
| Data providers (`misc/Ui*`, `AaveProtocolDataProvider`) | none | views |
| **Deployment scripts** (`tasks/`, `helpers/`, `deployments/*.sol`) | the JSON database of addresses, the edited configuration, the running process; on chain: who owns and administers what | the tasks of 12 deployments: deploy, initialise, set administrators and oracles, list and configure reserves |
| **Market configurations** (`markets/`) | constants | reserves, parameters and addresses per network |
| **Test suites** (`test-suites/test-aave`) | – | `calculations.ts` computes reserve and user after every action from what the data provider showed before it |

### How they interact

The pool is the hub. Each user operation is one transaction: validate, bring the
reserve up to date (`updateState`: commit indexes, mint the treasury's fee), mint or
burn tokens, compute new rates for the funds that are *about* to move
(`updateInterestRates`), move the funds. aTokens call back `finalizeTransfer` after a
transfer. The tokens call the incentives controller in every mint, burn and transfer.
The configurator writes the configuration of a reserve under the feet of open
positions. The health factor reads all reserves the user has flags for, and the price
of each from an oracle that changes at will.

### Behaviours that are hard

* **Callbacks.** `flashLoan` calls a receiver while the liquidity is out and the
  rates are those of before; the receiver may call the pool again, a flash loan among
  the calls. All else is atomic: interleaving is an order of whole transactions.
* **Accrual apart.** Balances shown are computed at the current time from rates stored
  earlier; what is committed is computed by other code, under conditions. The stable
  debt has a total that accrues with an average rate, and balances that accrue
  with their own. Rounding is half up everywhere.
* **Hidden state.** Only the two flags per reserve tie debts and collateral to the
  health factor. Several operations set, clear or rely on them.
* **Order of calls within one operation**: rates before or after the transfer, token
  before or after reserve, balance before or after the burn.
* **Reconfiguration** of a reserve with open positions, deactivation, pause.
* **Dependence on arguments**: the hook of the tokens and the controller must agree on
  what is a balance and what a supply.
* **Scripts that stop.** A deployment is some hundred transactions of one process. What
  it knows is lost when it stops; what it did stays on the chain, and what it wrote in the
  database, which has one address per contract and network whatever the market. Roles are
  lent to helper contracts and given back. The operator resumes at the task that
  did not end, or runs all of them again.

The contracts themselves neither crash nor lose messages: a revert leaves no trace, and is a
step that is not enabled.

### What makes each component correct

* Arithmetic: a round trip through scaled tokens is exact; approximated compound
  interest lies between linear and exact compound interest.
* Strategy: rates stay on the curve, rise with utilization; depositors are promised no
  more than borrowers pay.
* Tokens: supplies are sums of balances; debts grow with an authorisation.
* Reserve: accrual never reverts, indexes never fall, rates belong to the state.
* Pool: claims are covered, debts are flagged, healthy positions stay healthy, whoever
  wants to leave in full can.
* Collateral manager: an unhealthy position can be liquidated, not by more than the
  close factor, and not for more than debt and bonus.
* Configurator: deactivation only of empty reserves; the bonus is covered; a frozen
  reserve takes nothing new.
* Deployment: a script that ends leaves a complete market, configured as its files say;
  wherever it stops, roles are with their owner; one market's scripts never touch
  another's contracts; a pool, once created, is never replaced; a reserve is listed only with
  a price; running everything from the first task ends.
* Incentives: claims conserve what was earned, configuring an emission gives nobody anything, time
  pays the emission, moving tokens pays nothing (which the code does not keep, section 4), the hook
  never reverts.

## 2. The modules

`WadRayMath` ← `Accounts` ← `ScaledToken` are at the bottom, and each module extends
the one it builds on:

| Module | Models | State and actions |
|---|---|---|
| `WadRayMath` | WadRayMath, PercentageMath, MathUtils | operators at a symbolic scale (WAD, RAY, PERCENTAGE_FACTOR, SECONDS_PER_YEAR are constants) |
| `DefaultReserveInterestRateStrategy` | the strategy | operators over a `Strategy` record, the market rate of the lending rate oracle included |
| `ScaledToken`, `StableDebtToken` | token storage | operators from one token record to the next; `...Accepted` is the condition under which the Solidity function does not revert |
| `ReserveLogic` | ReserveLogic, ReserveConfiguration, ReserveData | one `Reserve` record with its configuration, its three tokens and the liquidity the aToken holds |
| `LendingPoolStorage` | LendingPoolStorage | VARIABLES `reserves`, `reservesList`, `usersConfig`, `paused`, `borrowAllowance` (the debt tokens'), `wallet` (underlying of the accounts), `price`, `now`, `flashLoans` (the stack of flash loans in progress) |
| `GenericLogic`, `ValidationLogic` | the two libraries | operators on that state |
| `LendingPool` | LendingPool, debt tokens' delegation | one action per external function |
| `LendingPoolCollateralManager` | liquidationCall | `LiquidationCall` |
| `FlashLoan` | flashLoan | `FlashLoanBegin`, `FlashLoanLend` (per leg), `FlashLoanReturn`, `FlashLoanSettle` (per leg): the one operation that is not atomic |
| `LendingPoolConfigurator` | the configurator | one action per function |
| `LendingProtocol` | all of it composed, with the clock and the prices | `Init`, `Next`, `Spec` |
| `LendingProtocolProperties` | – | the properties of the composed system |
| `RnbwDistributionManager` | RnbwDistributionManager | operators over one distribution, `AssetData` |
| `RnbwIncentivesController` | the controller and `_mint`, `_burn`, `_transfer` of IncentivizedERC20 with their hook | VARIABLES `tokens`, `assets`, `usersUnclaimedRewards`, `rewardHeld`, `rewardPaid`, `now`; actions `Mint`, `Burn`, `Transfer`, `ConfigureAssets`, `ClaimRewards`, `Tick` |
| `ExpectedData` | `calculations.ts`, the checks of `actions.ts`, `getReserveData` and `getUserData` of the test suite | operators from the data shown before an operation to the data expected after it, and the action property that compares |
| `MarketConfiguration` | `helpers/types.ts`, `configuration.ts`, `constants.ts` | what a market, a reserve, an address is |
| `MarketsAave`, `MarketsHalo` | `markets/*` | the nine markets, on the networks they are deployed to |
| `DeploymentTasks` | `helpers/*-deployments.ts`, `contracts-getters.ts`, `init-helpers.ts`, `oracles-helpers.ts`, `tasks/full`, `tasks/deployments` | a task as the sequence of its steps: transactions, reads of and writes to the database |
| `MarketTasks` | the other directories of `tasks/` | the tasks of each market, and the migrations that run them in order |
| `Deployment` | the process, the database and the contracts it acts on | VARIABLES `contracts`, `db`, `gateway`, `run`; one action per kind of step, and `Stop`, `StartOver`, `Resume`, `NextMarket` of the operator |
| `MarketLifecycle` | what a deployment promises of one market | `market`; `Create`, `CreatePool`, `Price`, `List`, `Enable`, `Pause` |
| `DeploymentProperties` | – | the properties of a deployment, and the refinement mapping to `MarketLifecycle` |
| `MCLendingProtocol`, `MCArithmetic`, `MCDeployment` | – | instances for TLC |
| `ArithmeticProofs`, `ReserveProofs`, `LendingProtocolProofs`, `OperationProofs`, `RnbwProofs`, `DeploymentProofs`, `LifecycleProofs`, `CurveProofs` | – | theorems |

`RnbwIncentivesController` is composed with the tokens and not with the pool: what the
pool moves and why does not matter to the rewards, so tokens move at will there.

### The deployment model

A contract is a record of its kind, its owner, the addresses it refers to and the data a
deployment puts in it (assets of an oracle, markets of a registry, pools of a gateway); the
proxy of a pool has its reserves and the pause as well. The process, `run`, is the job
(which market, who signs), the task and step it is at, its status, and the local variables of
a task that matter: the administrator read from the provider, the reserves still to
configure, whether the helper was made administrator. They are forgotten when a task starts.

* `Accepts` is what the contracts require of the transaction of a step; a step they
  refuse makes the script stop as `reverted`. `Throws` is what a script stumbles on by itself:
  a contract missing in the database, a token without aggregator, a misspelt name.
* A deployment of a contract and its entry in the database are one step, market rates are
  set in one step instead of chunks of 20, reserves are listed one by one and configured in
  chunks of 20 as the code does. Treasury and incentives of a reserve are left out.
* `SetImpl` creates the proxy of the pool or the configurator. On an existing proxy it
  would upgrade and initialise again, which `VersionedInitializable` refuses at the same
  revision: `CanInitialize`.
* Assumed: a registry named in a configuration is the operator's (`Signer(0)`); a market
  rate oracle named in a configuration (matic) is someone else's contract; the first account of a hardware wallet
  is the one the getters use; the addresses that `markets/halo/commons.ts` says are to be
  removed for `halo:dev` are removed; on test networks nothing of the configuration is
  deployed. The order of the tasks of Halo and Xave is that of `deployment.md`.

### The test suite's account

`calculations.ts` is a second description of the pool, from the point of view of those who
look at it: no scaled debt pipeline, no order of calls, but the balances and rates that must
be seen afterwards. The suite compares it with the contracts for the fixed sequences of its scenarios;
`OperationsMeetExpectations` compares it with the model in every state the runs
reach, with the suite's tolerance of three units. It takes over what the suite takes for
granted, and names what the suite misstates, in cases its scenarios do not have:

* after a deposit the principal of the stable debt is expected to be the variable debt
  (`calculations.ts:81`), after a repayment of variable debt principal and current stable debt
  change places (`:729`): these fields are not compared there;
* a new variable debt is expected to be all the variable debt of the reserve, and a
  rebalanced debtor to have the average rate: compared only for a sole debtor;
* a repayment of more than the debt, other than `type(uint256).max`, is not capped: left out;
* rates are averaged with amounts that are not converted to rays. The smaller the stable
  debt, the further this may be off: `almostEqual` widens the tolerance of the
  three rates that depend on it by two units divided by the debt in tokens.

### Conventions

* A function that reverts is an action that is not enabled. The checks are conjuncts
  in the order of the code; a SafeMath subtraction that may revert is a conjunct too.
  Overflow beyond 2^256 or a uint128 is left out.
* One transaction is one step, but for a flash loan. A flash loan whose transaction
  reverts is a behaviour that stops inside: the steps before it are of a world that is
  undone, and their safety is checked all the same (which is stricter than needed).
* While a flash loan is in its callback only its receiver calls the pool; the clock,
  the prices and the admins wait for the end of the transaction.
* Fields packed in bits are records or sets of reserves. A withdrawal and a borrowing
  deliver to the caller.
* The definitions named `..._suffix` under a comment "Mutant:" are plausible errors of
  the code. None is used by the specifications: each one is put in the place of the
  definition it is named after, to see that the property it is meant for is violated.

## 3. The runs

All runs of `MCLendingProtocol` start with the same legal prefix, which lists and
configures two reserves and makes two deposits, then opens the positions of one of the
run's `Scenarios`, and then takes up to `MaxSteps` steps in any order. That puts the
bound where the cases are: three or four free steps from a position with debt reach
what would be fifteen from nothing. `CHECK_DEADLOCK FALSE` is set as behaviours end at that
bound and a flash loan that cannot be settled stops (it reverts). In the scenario of the
flash loan `MaxSteps` bounds the calls of the receiver, and the behaviour ends with the
loan.

| Run | cfg | Question | Properties |
|---|---|---|---|
| variable | MCVariable | deposits, transfers, withdrawals and variable debt: do the books stay consistent, is everybody able to leave in full? | ScaledSupplyIsSumOfBalances, RatesFollowUtilization, Solvent, WithdrawInFullAccepted, RepayInFullAccepted, IndexesNeverDecrease, HealthyStaysHealthy, OperationsMeetExpectations |
| stable | MCStable | stable and variable debt of one reserve, swaps, delegation, and rebalancing in a reserve with almost no liquidity | DebtImpliesBorrowingFlag, UpdateStateNeverReverts, RepayInFullAccepted, OperationsMeetExpectations |
| liquidation | MCLiquidation | moving prices and liquidation of mixed debts, for aTokens or for funds | UnhealthyCanBeLiquidated, SeizureIsPaidFor, CloseFactorRespected |
| flashloan | MCFlashLoan | a flash loan of up to two legs, of one or two reserves, repaid or turned into debt, on behalf of oneself or of another who gave an allowance, with up to three calls of the receiver: it borrows, repays, revokes the allowance it gave, takes another flash loan | DebtImpliesBorrowingFlag, Solvent, IndexesNeverDecrease, DebtIsAuthorised, HealthyStaysHealthy |
| admin | MCAdmin | every reconfiguration in any order between the operations of users | TypeOK, BonusIsCovered, FrozenReserveTakesNothingNew, DisabledReserveIsEmpty |
| rewards | MCRewards | two rewarded tokens, two holders, emissions set (with the supply as the total stake, or with 0 as the market configuration does) and ending, partial claims, a fund that runs dry | TypeOK, UserIndexNotAhead, EarnedIsConserved, TimePaysEmission |
| arithmetic | MCArithmetic | rounding and compounding against exact arithmetic on a grid of inputs, and the rate curve for every mix of liquidity and debts, across its kink | RoundTripIsExact, CompoundedIsExactUpToThree, CompoundedNeverOvercharges, CompoundedCoversLinear, RatesRiseWithUtilization, DepositorsEarnWhatBorrowersPay |
| deployment | MCDeployment | every market deployed by its scripts, alone or two on one network, stopped anywhere and taken up again: is what ends complete, is what stops harmless? | CompletedMarketIsSound, AdministratorsBelongToTheMarket, EarlierContractsUntouched, WiringIsPermanent, WholeRunCompletes, MarketsFollowLifecycle |
| full_reserve_factor | MCFullReserveFactor | violated: RepayInFullAccepted | see 4 |
| disabled_reserve | MCDisabledReserve | violated: NoLiquidityIsDeposited | see 4 |
| stable_supply | MCStableSupply | violated: StableSupplyIsSumOfBalances | see 4 |
| rewards_hook | MCRewardsHook | violated: MovingTokensPaysNothing | see 4 |

### Bounds, and why they are enough

* **Scale.** The runs of the protocol use WAD = 100, RAY = 10000, percentages of 100 and
  one second a year: TLC has 32-bit integers, and coarse scales make rounding *more*
  visible. Interest of 2% to 40% in one unit of time makes every accrual move every
  amount. UINT_MAX is 1000000, above every amount.
* **Accounts and assets.** Two users and the treasury, two reserves, suffice for each role
  in each relation: collateral and debt in one reserve or in two, someone else's debt,
  liquidator and borrower, a transfer to oneself.
* **Amounts.** One partial amount and "everything" per operation: the branches depend on
  that, on zero scaled tokens, and on the health factor, and the scenarios place the
  health factor near its threshold.
* **Allowance.** In the flashloan run one holder has allowed the other just what a leg turned into
  debt needs, before the loan begins; its receiver may borrow at its expense or revoke it, and
  the settlement finds what is left.
* **Time.** Three to five units from the beginning: accrual before, between and after
  the free steps, and the boundaries 0, 1, 2 and 3 of the compounding.
* **Dust.** Some properties allow 3 units (6 with prices that move): rounding half up
  of an amount, a rate and an index each lose up to half a unit. The values are a
  hundredth of the deposits, and a missing or doubled interest exceeds them.
* **UnhealthyCanBeLiquidated** asks that the part of the debt that the close factor allows is at
  least `debtRounding` (half a scaled token and a unit), and that the collateral is worth one unit more than
  that, with the bonus: below, the code may refuse, as the burned amount rounds to zero. The
  instance has positions above the bound with enough collateral for the part allowed, and with less.

* **Arithmetic.** The exact power of the growth factor must fit 32 bits: it is computed
  at a scale of 20 units to a ray, where rounding weighs most; the curve at 10000.
* **Deployment.** Thirteen scenarios: eleven markets alone, and two pairs on one network (Aave
  and AMM on main, Matic's Aave and Halo), which share the database; the pairs are where
  entries collide. `MaxStarts` = 2 starts of a script in a scenario: one that is stopped, fails or
  reverts at any step, and one that resumes or starts over, before every step of which
  the first may have stopped. A third would repeat what the second finds, as what
  is kept between starts is only the chain and the database. The development market of
  Arbitrum is left out: its reserves are the tokens of the configuration, its prices those of the mock
  tokens in the database (`tasks/halo-arb-dev`), and whether these are the same addresses is
  up to the operator; the model names an asset by its symbol, and would take them for the same.

### Fairness and liveness

The specifications of the contracts have none. All actors act at will and nobody is obliged
to: the contracts have no scheduler, and a property of the form "the debt is
eventually repaid" would rest on an assumption about people. What users depend on is
that a call is not refused, and that is stated as a state predicate on the enabling
condition of the call: RepayInFullAccepted, WithdrawInFullAccepted,
UnhealthyCanBeLiquidated, UpdateStateNeverReverts.

A deployment does have a scheduler: the process of the script. `Deployment!Spec` assumes
`WF_vars(ScriptStep)`, that a script that is running goes on to its next transaction as long as
it can (its only waits are for transactions to be mined). It is not assumed that the operator starts or resumes
anything, and he may stop it. Under it `WholeRunCompletes` says that running every task of a
market from the first ends with `done`, unless it is stopped, whatever an earlier run
left on the chain and in the database; it fails, for instance, if the proxies
are not saved. It is stated of the `Deployable` jobs: three markets have scripts that cannot end
(section 4). That *resuming* a task completes is not stated, as it is not true:
a task that was stopped between two listings lists the first reserve again and reverts.

### Refinement

`DeploymentProperties` maps each address provider on the chain to a market of
`MarketLifecycle` (`Lifecycle == INSTANCE MarketLifecycle WITH market <- ...`): has it a
pool, what has its current oracle a source for, what is listed, what is collateral, is it
paused. `MarketsFollowLifecycle == Lifecycle!Spec` is checked by the run: every step of every
script, and every combination of stopped and resumed scripts, is a step of at most one
market, which never loses a pool, a listing, a configuration or the price of what is listed. It
is proved for every set of scripts that set prices before they list (section 5).

## 4. Where code and documentation disagree

* **Reserve factor of 100%** (`ReserveLogic.sol:347`). Indexes are committed only while
  depositors earn something; the shown debt grows regardless. `repay` with
  `type(uint256).max` then asks for more scaled debt than there is, and reverts.
* **What stands for "no deposits"** (`LendingPoolConfigurator.sol:435`). With the same factor
  `_checkNoLiquidity` takes a reserve with all it holds lent out for one without
  deposits, and lets it be disabled as collateral, or deactivated, with them. The
  comment (`:278`) says that it ensures that no liquidity is deposited.
* **StableDebtToken.burn** (`:205-257`) resets the total supply to zero when the average rate
  cannot carry the rate of the debt that leaves, with other debts still there. The
  comment says this happens for the last borrower only.
* **The incentives hook.** `IncentivizedERC20` and `StableDebtToken` pass the supply and
  then the balance, the controller's parameters are the balance and then the supply.
  A holder is paid for the supply and at an index computed from his balance.

More that no run shows. `setReserveFactor` (`LendingPoolConfigurator.sol:385`) does not
accrue first: the next accrual takes the new share of interest that was already credited to
depositors, so that Solvent does not hold with it among the actions. After a liquidation within one reserve the stored rates do not
know of the repaid funds until the next operation (`LendingPoolCollateralManager.sol:204`;
RatesFollowUtilization is therefore not checked by the liquidation run; section 5 shows that
these two are the only steps that leave rates behind); and a reserve
factor above 100% is accepted by the configurator and makes every operation of the
reserve revert until it is set again. Three deployments cannot end. `getPairsTokenAggregator`
(`helpers/contracts-getters.ts:207-235`) destructures undefined for a token without an aggregator: for
three reserves of Halo's main market, and in both Xave markets for USD, which the oracle tasks watch and only
a quote in USD leaves out. `xave-avalanche` has stopped before, as it
misspells `ConfigNames.XaveAvalanche` (`2_lending_pool_b.ts:45`, `5_initialize_b.ts:61`), and
`xave-sepolia/5_initialize_b.ts:46` would ask for a contract none of its tasks deploys.

## 5. What is proved

| Theorem | States, for every value of the constants |
|---|---|
| `LendingProtocolProofs!TypeCorrect` | `Spec => []TypeOK` |
| `LendingProtocolProofs!DebtIsFlagged` | `Spec => []DebtImpliesBorrowingFlag` |
| `LendingProtocolProofs!SupplyIsSum` | `Spec => []ScaledSupplyIsSumOfBalances` |
| `LendingProtocolProofs!AccrualNeverReverts` | `Spec => []UpdateStateNeverReverts` |
| `LendingProtocolProofs!FullWithdrawalAccepted` | `Spec => []WithdrawInFullAccepted` |
| `LendingProtocolProofs!FullRepaymentAccepted` | `Spec => [](DebtsAreCharged => RepayInFullAccepted)` |
| `LendingProtocolProofs!IndexesGrow` | `Spec => IndexesNeverDecrease` |
| `LendingProtocolProofs!HealthyPaysTheBonus` | `Spec => []BonusIsCovered` |
| `OperationProofs!FrozenTakesNothing` | `Spec => FrozenReserveTakesNothingNew` |
| `OperationProofs!DebtNeedsConsent` | `Spec => DebtIsAuthorised` |
| `OperationProofs!RatesFollowTheFunds` | `Spec /\ [][~LeavesRatesBehind]_vars => []RatesFollowUtilization` |
| `OperationProofs!LiquidationIsPartial` | `Spec /\ []InterestIsCharged => CloseFactorRespected` |
| `OperationProofs!LiquidationIsFair` | `Spec /\ []InterestIsCharged => SeizureIsPaidFor` |
| `OperationProofs!LiquidationIsAccepted` | `Spec => [](DebtsAreCharged => UnhealthyCanBeLiquidated)` |
| `RnbwProofs!TypeCorrect` | `Spec => []TypeOK` |
| `RnbwProofs!UsersStayBehindTheIndex` | `Spec => []UserIndexNotAhead` |
| `RnbwProofs!ClaimsConserveEarnings` | `Spec => EarnedIsConserved` |
| `RnbwProofs!TimePaysNoMore` | `Spec => TimePaysEmission` |
| `DeploymentProofs!DeploymentKeepsWiring` | `Spec => WiringIsPermanent` |
| `DeploymentProofs!DeploymentLeavesEarlierAlone` | `Spec => EarlierContractsUntouched` |
| `DeploymentProofs!MarketsAreTheirOwners` | `Spec => []AdministratorsBelongToTheMarket` |
| `LifecycleProofs!ScriptsFollowLifecycle` | `Spec => MarketsFollowLifecycle`, if `PricedScripts` |
| `LifecycleProofs!ListingsHavePrices` | `Spec => []ListedReservesArePriced`, if `PricedScripts` |
| `CurveProofs!RoundTripNeverSlips` | `Spec => []RoundTripIsExact` |
| `CurveProofs!CompoundingCoversLinear` | `Spec => []CompoundedCoversLinear` |
| `CurveProofs!BorrowersAreNotOvercharged` | `Spec => []CompoundedNeverOvercharges` |
| `CurveProofs!ThreeTermsAreExact` | `Spec => []CompoundedIsExactUpToThree` |
| `CurveProofs!CurveNeverFalls` | `Spec => RatesRiseWithUtilization` |
| `CurveProofs!DepositorsArePaidByBorrowers` | `Spec => []DepositorsEarnWhatBorrowersPay` |

That is: any number of accounts, assets, amounts, prices, strategies, reserve
factors and nested flash loans, and any scale. The assumptions are the named ASSUMEs
of the modules: scales are positive and RAY is even (`ScaleAssumption`), the accounts, the assets and
the rewarded tokens are finitely many (`AccountAssumption`, `AssetAssumption`: both are addresses;
`RewardedTokenAssumption`),
the treasury is an account, the inputs are natural numbers and well-formed strategies.
`FullWithdrawalAccepted` and `FullRepaymentAccepted` also assume reserve factors of at most 100%:
above, accrual takes more for the treasury than debtors pay, and may overtake the reserve (section 4).
`FullRepaymentAccepted` is conditional, as RepayInFullAccepted does not hold for all constants:
`DebtsAreCharged` says of the state that the interest each listed reserve shows its debtors is
committed by the next accrual (its depositors earn some, or this block accrued already, or nobody has a
variable debt), and that debts fit an amount. Where `liquidityRate` is zero `updateIndexes` commits nothing,
the maximum burned is less than the debt read before, and the call may revert; the theorem says that this
is the *only* reason, which the instances alone cannot. The two theorems about
liquidations ask the first half of that, `InterestIsCharged`, of every state: where a debt shown is not
committed, any operation that accrues makes it fall back, on top of what a liquidation repays. It holds in all
states of the run `liquidation`; the run `full_reserve_factor` shows where it does not. `FrozenTakesNothing`,
`DebtNeedsConsent` and the two about liquidations assume that the treasury is no user: it is a contract that only
withdraws, and deposits that leave it would count as new ones.

**Sums.** Supplies, stakes and emissions are sums over accounts, and a sum is a fold.
`ArithmeticProofs` states what is needed of it for functions (`Total`): that one more member adds its
value, that changing one value changes the sum by as much, that sums of tables can be taken
in either order. Induction over a finite set is derived there from the least element of a
set of naturals, as the induction theorems of the library take an operator.

**The protocol.** The invariant is
`IInv == TypeOK /\ ReservesOK /\ FramesOK /\ DebtImpliesBorrowingFlag`.

* `DebtImpliesBorrowingFlag` is not inductive alone. `repay` clears the flag when the
  amount paid back equals the debt read before the burn. That the burn leaves nothing
  needs `rayDiv(rayMul(b, j), i) >= b` for `j >= i >= RAY` (`RoundTripAtLeast`), hence
  indexes of at least a RAY: `ReservesOK`. It adds that no timestamp lies in the
  future, without which the interest accrued would be negative.
* `ReservesOK` also says of threshold and bonus what the configurator checked of them: a reserve with
  a threshold has a bonus of more than 100%, by which a liquidation divides, and
  `percentMul(threshold, bonus)` is at most 100%, whatever reconfigurations came after.
* `HealthyPaysTheBonus`: per reserve the check gives that collateral worth `c` with threshold `t` pays
  `q == percentDiv(c, bonus)` with `2 * c * t <= 2 * F * q + F + c`, where `F` is 100% (`LentWithBonus`); the last
  `c` is the half digit by which `percentMul` rounds threshold and bonus down to the whole. Summed over any
  finite set of collateral (`AccountDataTotals`, `LimitsAreCovered`), and with what a health factor of at
  least one says of the debt (`HealthyDebt`), the slack of BonusIsCovered is exactly these halves.
* `ReservesOK` keeps the tokens `BalancedToken`: the supply is the sum of the balances. It is
  inductive with every mint, burn and transfer, the one to oneself included, and it is what
  bounds a balance by its supply: without it a burn might leave a negative supply.
* `ReservesOK` says that the total of the stable debt was not updated after its reserve
  (`totalSupplyTimestamp <= lastUpdateTimestamp`). The fee of the treasury subtracts the
  stable debt at the reserve's last update from the one of now: this is the
  subtraction `AccrualNeverReverts` is about, with the growth of compounded interest
  (`CompoundedInterestGrows`).
* `FullWithdrawalAccepted`: the balance shown is converted to scaled tokens and back by
  `RoundTrip`, the accrual shows the depositor the same balance, the fee never exceeds the
  interest, and without a flag no health factor is asked for.
* `FullRepaymentAccepted`: the accrual commits the index the debtor was shown (`ShownIsCommitted`), so
  that the amount capped at his debt is burned as exactly the scaled debt he has (`RoundTrip`).
* `FramesOK` keeps the loops of a flash loan within its legs.
* `ReserveProofs` shows that each function of the reserve's pipeline (`updateState`, the
  burns and mints, `updateInterestRates`, `cumulateToLiquidityIndex`) maps a
  well-formed reserve to a well-formed one whose indexes are not smaller.
* In `LendingProtocolProofs` `Accrued` and `Continues` say what an operation makes of a
  reserve, `ReserveStep` turns that into preservation of `IInv` and into a step of the
  indexes, and there is one lemma per action.
* Indexes: `updateState` commits exactly the index that was shown, the premium of a flash
  loan only raises it, and a later block shows no less (`LinearInterestGrows`).

**Debts and deposits within a block.** `OperationProofs` first uses the same invariant for two
action properties.

* `NothingNew(r, n)` compares two records of a reserve at the same time: the index shown to
  debtors, each scaled and each stable debt and the deposits of others than the treasury
  have not grown. It is reflexive and transitive, and there is one lemma for each function of
  the pipelines: `updateState` commits no more than was shown and mints to the treasury alone, a
  burn takes, new rates have earned nothing yet. An operation composes them in its own order;
  a rebalancing burns and mints the same stable debt. The two reserves of a liquidation, which may be
  one, are treated as `LendingProtocolProofs` does.
* `StepKinds`: a step takes nothing new, or is a deposit, the opening of a debt, or a swap of
  rate modes. For `FrozenTakesNothing` the last three are refused by a frozen reserve.
* For `DebtNeedsConsent` the three are shown to have consent. `MintOwes` says what a mint adds:
  nothing to others, the amount to a stable debt, and to a variable debt the amount and
  `debtRounding`: one for the views, and half of what a scaled token is worth. The proof is where this
  second term comes from; it is zero for indexes below two, as on the small instances. A
  swap burns all that one mode showed (`BurnClears`) before it mints as much in the other. A
  borrower who is not the caller pays with the allowance, and an initiator who receives
  nothing has the leg of his flash loan that is being settled (`Settles`).
* The property speaks of all assets; nothing is owed to one that is not listed
  (`UnlistedOwedNothing`, inductive with `IInv`: no step writes the debt tokens of such a reserve).

**Rates.** `RatesFollowTheFunds` is the other half of `OperationProofs`. An operation computes the
rates *before* the funds move and tells the strategy what will be added and taken; a rate that
is right between two operations depends on each of them telling the truth. The property speaks of
the end of a transaction, and is not inductive: while a flash loan is out the rates are those
of the funds before it, and the receiver may call the pool for the same reserve in between.

* `RInv` says that the rates of a reserve touched in this block are `Quoted` for what it has,
  *or* some loan in progress has lent its funds and not settled them (`lentOut`). A reserve that is
  not listed was never touched. Each settlement of a leg quotes for the
  funds that come back with it, or opens a debt that does, so that with the last leg of the last loan
  only the first case is left.
* `QuotedForTheMove`: quoting for x added and y taken, and then moving x and y, is quoting for
  what is there; `SameQuotation` is what a step must leave alone to keep rates as they were (the
  flags, allowances, collateral parameters and prices are not in it).
* The hypothesis names the two steps that do leave rates behind, `LeavesRatesBehind`: another
  factor or strategy for a listed reserve, and a liquidation in funds with the collateral of the reserve of
  the debt. Both are hazards of section 4; the theorem adds that there is no third.

**Liquidations.** The last part of `OperationProofs` proves the three properties of a liquidation. Two speak of
*any* step in which somebody loses collateral and debt, both summed over all reserves at the prices of
the market, so that most of the work is to show who can.

* `StepOutcome`: within a block a step takes from nobody's deposits (`KeepsDeposits`), or from nobody's debts
  (`KeepsDebts`), or is a liquidation. Accruing leaves deposits where they are shown or raises them, and with
  `DebtorsAreCharged` leaves debts exactly where they are shown; a withdrawal or a transfer touches no debt;
  repaying, swapping and rebalancing touch no aToken, and neither do the steps of a flash loan.
* `LiquidationOutcome`: a liquidation changes two reserves or one. `DebtsTaken` and `DepositsTaken` say that
  the user owes less in one of them by what is repaid, but for `debtRounding`, and has less in one by no more than
  what is seized, but for `depositRounding`, and that nobody else's debts and deposits fall. The reserve of
  the debt is accrued again when it is that of the collateral too.
* `LossIsLiquidation` puts the two together: who loses both is the user of a liquidation, and of no other;
  `LiquidationTotals` reduces the sums over all reserves to those two.
* `SeizureWithinBonus` is about the terms: seized collateral is worth at most what is repaid *and two units*,
  with the bonus. When there is enough collateral it is worth what is repaid. When there is not, the debt is
  recomputed from the collateral (`LendingPoolCollateralManager.sol:309`) with two divisions that
  each drop up to a unit of it. `LossWithinBonus` multiplies prices and units out.
* The slack in both properties is counted exactly: half a scaled token of each burn and one for
  the views (`rounding`), the two units, and the fractions of an ETH dropped by four valuations (`worth`).

The third, UnhealthyCanBeLiquidated, is about what the code *refuses*, and each of its refusals is excluded in turn
(`LiquidatableIsAccepted`):

* `PercentagePart` and `RoundingIsAToken`: what the close factor allows is no more than the debt, and an amount
  of `debtRounding` is a scaled token, which the burn of variable debt does not refuse.
* `CollateralPays`: when there is too little collateral the debt repaid is recomputed from it, through four divisions; what
  is left is at least `debtRounding`. `LiquidationRepays` puts both cases together: the amount repaid is between
  `debtRounding` and the part allowed, which the liquidator has.
* `LiquidatedIsBurned`: the variable debt is burned first, and the stable debt for the rest; the two parts never exceed
  what is shown of each, and no burn is of zero tokens. `ShownIsTransferable`: the collateral seized, measured before
  the accrual, is there after it, in scaled tokens too.
* `CollateralStaysListed`: an account's flags of collateral are of listed reserves only. The administrator may configure, activate
  or freeze a reserve that was never listed, so that this is an invariant with a proof of its own:
  each step that sets such a flag is of a reserve in the list, from which none is ever removed.

**The arithmetic and the curve.** `CurveProofs` states for all constants what the run `arithmetic`
walks on one grid: each property of that run is a theorem. The slack each of them allows for rounding is
not a tolerance but an expression, found in the proof.

* Exact growth is a power, and so a recursive function of `delay`. It exists and unfolds by induction on
  the exponent (`PowersExist`, `PowersAgree`, `PowerUnfolds`, derived from the least element of a set of naturals).
  `NextTerms` says that one more factor turns the first three terms of the binomial into those of the next
  power and a term that is left over; hence the rest is never negative
  (`BinomialIsMore`) and is nothing up to the third power (`BinomialUpToThree`).
* The code rounds the square of the rate, makes the cube of the rounded square, and rounds again;
  `CubeRounded` and `TermsRounded` follow that, and `powerRounding` in the properties is their sum.
* `CurveNeverFalls`: utilization grows with the debt of the same total, both branches grow with utilization, and
  at the bend the branch below may have rounded the full slope *up* by more than the branch above
  adds. That is `kinkRounding`; it is zero for the stable rate, whose branch below is written in another
  order.
* `DepositorsArePaidByBorrowers`: the overall rate is the average of the rates (`OverallRateIsTheAverage`),
  the utilization shares it among the deposits (`UtilizationSharesTheRate`), and the reserve factor takes its
  part (`DepositorsShare`); each division costs half a unit of its own denominator.

**The incentives.** `IInv` adds to UserIndexNotAhead that no distribution was updated in
the future: then the time to the capped `currentTimestamp` is not negative, and the index
grows, whatever number the caller reports as the supply. And it says that the supply is
the sum of the balances, although the hook is told one for the other: what is earned is
computed by `getRewardsBalance` from tokens, not from what the hook was told.

* `ClaimsConserveEarnings`: a claim moves what the indexes owe the user to his unclaimed rewards and
  part of those to what he was paid (`ClaimConserves`). A new emission first commits the index: with
  the supply the index that was shown (`ConfigureConserves`), with 0 the old one, which is no greater,
  so that nobody gains and the emission since the last update is lost (`ConfigureTakes`). Movements of
  tokens are not in the statement: with the arguments of the hook swapped they create earnings.
* `TimePaysNoMore`: for one token, the rise of the index times the supply is at most the
  emission of the time in units of the index (`IndexRises`). A holder's reward is
  rounded down before and after, so that he gains less than one more than his share of the
  rise (`HolderGains`); over all holders that is the emission, a unit per holder and
  what one unit of the index is worth to the whole supply (`TimePaysToken`). The tokens
  are added by summing the table of gains by token instead of by user (`TotalOfTable`).
  This is `rounding` in the property: the proof is where the term of the supply comes from,
  which never exceeds a unit on the small instance.

**The deployment.** `DeploymentKeepsWiring` holds for every set of jobs and any number of
starts. `IInv == IsNetwork(contracts) /\ RunOK`: contracts have the fields of their kind, the process
is at a task of its job, and addresses are counted: no contract of a kind has a number
above how many there are, so that the address of a new one is fresh and overwrites nothing.
`KeepsAll` is what a step may do to the contracts; one lemma per action shows it, and the
guard `CanInitialize` is what keeps the proxies.

`ScriptAssumption` is what is asked of the scripts, and TLC evaluates it for the twelve of
this repository: signers are accounts and no contracts, and each step is in order
(`WellFormedStep`), that is, what it writes to comes from an *earlier* step of the same
job. A step that uses `db["WETHGateway"]`, say, comes after the one that deploys the
gateway. Nothing is asked of steps after a `Throw`. It says nothing of stops and starts:
that the order survives them is what is proved.

**The markets.** `MInv` is the invariant of the second half of `DeploymentProofs`. It adds to `IInv` what the
steps that are done have left (`Done`, all steps before the one at `pc`):

* `Holds(s)` for each of them: after `Deploy` the entry of the database is a contract of this job
  (`New`: not among `run.before`), after `SetImpl` the provider has a proxy of this job, after `Insert`
  the database has it, and so on. The database has one entry for each id, whatever the market; it
  is `Done` that says whose entry it is. A step that is done *twice* in a job leaves the later
  contract. Resuming goes back to the first step of a task, which makes `Done` smaller:
  what was done in that task is no longer relied on. Starting over makes it empty, and
  makes everything on the network part of `before`: nothing is `New` any more.
* `MarketsFit`: whoever administers a market is no contract, or a helper of its owner for its
  configurator; the oracle's owner likewise; and no market that was there before has an oracle of
  this job, which is what lets a job give its own oracle away (`OracleHandedOver`).
* `AdminRead`: what a task read as the administrator *fits*, and is an account as long as no task has
  made the helper administrator (`NoHelperYet`). This is the hazard of `init-helpers.ts:232`: resumed after
  a stop between `GrantHelper` and `RestoreAdmin`, the script reads the helper as the administrator.
  That is harmless for the market, as the invariant says, but the oracle must not be given to
  it: `WellFormedStep` asks that the tasks that do so come before the one that makes the
  helper administrator, as they do in all twelve scripts.

A step that is `Gentle` (kinds, owners and the proxies of a provider stay) keeps all of
this but for what it writes itself: `HoldsKept` and `MarketsKept` are cited by one lemma per
action, and `Assemble` puts the invariant together. `Untouched`, the action property, comes from
`OwnIsNotBefore`: what a step may write to is not among `run.before`.

**The refinement.** `ScriptsFollowLifecycle` says that the scripts, interrupted and taken up in any
way and for any number of markets, implement `MarketLifecycle`. It has one hypothesis about the scripts:
`PricedScripts`, that each step of each of them satisfies `IsPricedStep`. An oracle is deployed once in a
job, after the provider; its deployment and the steps before the provider gets it give prices to
*all* that the job lists; and nothing is listed before the provider has an oracle. TLC evaluates this
of all scenarios (`ScriptsArePriced` in `MCDeployment`): the markets that are quoted in ETH, whose oracle
gives the price of WETH itself, Avalanche's, which is quoted in USD and where WETH needs a source like
any other reserve, and those whose scripts throw before they list anything. The
hypothesis is about the text of the scripts alone. It speaks of no state, and of no stop, resumption
or second market; with `ListingsHavePrices` it shows that their order is enough for every listed
reserve to have a price wherever a script is stopped.

`LInv` adds to `MInv` what the mapping of a step to a step of one market needs:

* `ProvidersOK`, `OraclesOK`: the pool of a provider is a pool, its configurator writes to that very pool,
  its oracle is an oracle, and no two providers share one. Without the last, a price set for
  one market would move another. Two markets on one network do share the database, so this
  rests on the order: an oracle deployed by a job is asked by no provider but the job's
  (`OnlyProviderAsks`) as the provider is deployed before it.
* `PricedOK`, and `ListedFits`: what is listed has a price, and in a market of this job it is among
  the job's listings and has the threshold of the configuration or none. The latter is why a second
  `ConfigureReserves`, after a resumption, takes no collateral back.
* `Leaves(s)` for each step that is done: prices that were given are still there (`KeepsPrices`), the
  provider has an oracle with all the prices of the job, the database has the configurator of
  the provider. As in `DeploymentProofs`, going back to the first step of a task only shrinks `Done`. A
  resumed task may *replace* the oracle that prices depended on by deploying a second one; the
  provider keeps the first until it is given the second, which has all prices by then.

There is one lemma for each action: it preserves `LInv`, and is `Create`, `CreatePool`, `Price`,
`List`, `Enable` or `Pause` of one market, or a stutter (`Shown' = Shown`) as most steps are. `OthersStay`
says of all other markets that they do not move.

**Only model-checked:**

* Liveness of the deployment, and CompletedMarketIsSound, which says what the twelve scripts in
  particular contain.
* What allows a slack for rounding (`Dust`): Solvent, HealthyStaysHealthy. Every operation may lose a unit, and the health factor is rounded half up, by
  a part of the debt; no bound independent of the number of operations and of the amounts
  holds for all constants, and the instances bound both.
* What fails for some constants, which the instances exclude: RepayInFullAccepted without the
  condition of its theorem, with a reserve factor of 100% (section 4). DisabledReserveIsEmpty
  has that exception in its statement, and a slack for rates that round to zero.
* The comparison with the test suite's account, which has the suite's tolerance.

## 6. What is not modelled

* Overflow; packing of configurations in bits; events; approve, transferFrom and permit
  of aTokens; upgrades to a new revision (of pool, configurator and tokens).
* Rewards of the stable debt token: its hook is the same, but it has no
  `getScaledUserBalanceAndSupply`, so that it cannot be named in a claim. Total stakes given to
  configureAssets other than the supply and 0 can be set in `StakesWritten`, but nothing is promised
  of them: the manager is trusted, and a wrong one pays more or less than the emission.
* The prices themselves: the deployment knows which assets have a source, the pool sees a
  price per asset that changes at will; the scaling of the Xave feeds is left out.
* WETHGateway (but for its authorisation), Treasury, adapters: users of the pool among others. The
  treasury's withdrawals are in the model (`TreasuryStep`), its conversions are not.
* Of the scripts: tasks that add an asset (`halo-new-asset`) or hand over ownership afterwards,
  verification on block explorers, exports, forks. The `-ledger` copies of the helpers differ
  in the signer only, and are modelled as a signer.
* Of the tests: everything but the expected data. `test-suites/test-amm` has a copy of
  `calculations.ts` that differs in the rate strategies it looks up.
* Views for user interfaces, mocks, vendored libraries.

## 7. Plan

Done: the modules of section 2, in the order arithmetic, tokens, reserve, pool,
liquidation, flash loan, configurator, composition; the incentives; the markets, their deployment
and the lifecycle it implements; the test suite's account of the pool.

Next, most important first:

1. Proofs: the bound of Solvent per operation instead of per run.
2. An abstract specification of custody (what goes in comes out, with debts as the only
   other backing), with the pool shown to implement it by a refinement mapping.
3. The two price feeds: the scaling of prices between decimals against the exact quotient.
4. WETHGateway and Treasury composed with the pool; allowances, transferFrom and permit
   of aTokens.
5. Upgrades by revision number; the bit maps of user and reserve configuration against the
   sets and records used here; the task that adds an asset to a market.
