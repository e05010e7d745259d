-------------------------- MODULE MCLendingProtocol --------------------------
(***************************************************************************)
(* Instances of LendingProtocol for TLC.  A behaviour starts with a fixed  *)
(* prefix, legal calls that list and configure two reserves and then open  *)
(* the positions of the scenario; then it takes up to MaxSteps steps of    *)
(* the specification, in any order.  When the prefix began a flash loan,   *)
(* MaxSteps bounds the calls of its receiver instead, and the behaviour    *)
(* ends with the loan.                                                     *)
(***************************************************************************)
EXTENDS LendingProtocolProperties, ExpectedData, TLC

CONSTANTS
    alice, bob, treasury,   \* accounts
    usd, eur,               \* assets
    Scenarios,              \* which positions may be opened
    StableEnabled,          \* may eur be borrowed at a stable rate?
    InitialReserveFactor,   \* of eur
    MaxSteps                \* bound on the free steps, or calls, after the prefix

VARIABLES step, scenario

MCAccount == {alice, bob, treasury}
MCUser    == {alice, bob}
MCAsset   == {usd, eur}

MCInitialWallet == [a \in MCAsset |-> alice :> 200 @@ bob :> 200 @@ treasury :> 0]
MCInitialPrice  == usd :> 2 @@ eur :> 2

StablePrices    == usd :> {2} @@ eur :> {2}
MovingPrices    == usd :> {1, 2} @@ eur :> {2, 3}

\* 2% to 10% per unit of time up to 80% utilization, then up to 40%.
steep == [optimalUtilizationRate |-> 8000, baseVariableBorrowRate |-> 200,
          variableRateSlope1 |-> 800, variableRateSlope2 |-> 3000,
          stableRateSlope1 |-> 500, stableRateSlope2 |-> 3000, marketBorrowRate |-> 400]
flat  == [optimalUtilizationRate |-> 10000, baseVariableBorrowRate |-> 0,
          variableRateSlope1 |-> 500, variableRateSlope2 |-> 0,
          stableRateSlope1 |-> 0, stableRateSlope2 |-> 0, marketBorrowRate |-> 600]
dear  == [flat EXCEPT !.marketBorrowRate = 3000]
MCStrategies == {steep, flat}

cautious == [ltv |-> 70, liquidationThreshold |-> 80, liquidationBonus |-> 120]
generous == [ltv |-> 90, liquidationThreshold |-> 98, liquidationBonus |-> 110]
disabled == [ltv |-> 0, liquidationThreshold |-> 0, liquidationBonus |-> 0]
MCCollateralParams == {cautious, generous, disabled}

leg(a, n, m) == [asset |-> a, amount |-> n, mode |-> m]
MCLegs == {<<>>, <<leg(eur, 50, NONE)>>, <<leg(eur, 30, VARIABLE_RATE)>>,
           <<leg(usd, 40, NONE), leg(eur, 30, NONE)>>, <<leg(eur, 40, NONE), leg(eur, 30, NONE)>>}
MCNestedLegs == {<<leg(eur, 30, NONE)>>, <<leg(eur, 20, VARIABLE_RATE)>>}

None == {}

-----------------------------------------------------------------------------
\* Both reserves are listed, can be borrowed and are collateral.
Listing(k) ==
    \/ k = 0 /\ InitReserve(usd, steep, 1)
    \/ k = 1 /\ InitReserve(eur, steep, 1)
    \/ k = 2 /\ EnableBorrowingOnReserve(usd, FALSE)
    \/ k = 3 /\ EnableBorrowingOnReserve(eur, StableEnabled)
    \/ k = 4 /\ ConfigureReserveAsCollateral(usd, 70, 80, 120)
    \/ k = 5 /\ ConfigureReserveAsCollateral(eur, 70, 80, 120)
    \/ k = 6 /\ SetReserveFactor(eur, InitialReserveFactor)
    \/ k = 7 /\ Deposit(alice, eur, 100, alice)
    \/ k = 8 /\ Deposit(bob, usd, 100, bob)

\* Bob's debt in eur: none, variable, stable, both, mostly stable; or a stable one of a
\* reserve that is then almost emptied, so that its rate may be rebalanced; or a variable
\* one, an allowance of alice to bob, and a flash loan that someone takes a while later; or
\* two stable debts at very different rates.
Opening ==
    [none      |-> <<>>,
     variable  |-> <<"borrow variable">>,
     stable    |-> <<"borrow stable">>,
     both      |-> <<"borrow stable", "borrow variable">>,
     mostly    |-> <<"borrow more stable", "borrow some variable">>,
     exhausted |-> <<"borrow stable", "withdraw most">>,
     tworates  |-> <<"borrow stable", "raise rates", "deposit usd", "uncollateralize eur",
                     "deposit eur", "second borrow stable">>,
     flashloan |-> <<"borrow variable", "approve", "wait", "begin flash loan">>]

Open(call) ==
    \/ call = "borrow variable" /\ Borrow(bob, eur, 40, VARIABLE_RATE, bob)
    \/ call = "borrow stable"   /\ Borrow(bob, eur, 20, STABLE, bob)
    \/ call = "borrow more stable" /\ Borrow(bob, eur, 40, STABLE, bob)
    \/ call = "borrow some variable" /\ Borrow(bob, eur, 20, VARIABLE_RATE, bob)
    \/ call = "withdraw most"   /\ Withdraw(alice, eur, 79, alice)
    \/ call = "raise rates"     /\ SetReserveInterestRateStrategyAddress(eur, dear)
    \/ call = "deposit usd"     /\ Deposit(alice, usd, 100, alice)
    \/ call = "uncollateralize eur" /\ SetUserUseReserveAsCollateral(alice, eur, FALSE)
    \/ call = "deposit eur"     /\ Deposit(alice, eur, 10, alice)
    \/ call = "second borrow stable" /\ Borrow(alice, eur, 20, STABLE, alice)
    \/ call = "approve"         /\ ApproveDelegation(alice, eur, VARIABLE_RATE, bob, 30)
    \/ call = "wait"            /\ Tick
    \/ call = "begin flash loan" /\ \E u, v, w \in User, legs \in FlashLoanLegs :
                                       FlashLoanBegin(u, v, legs, w)

PrefixLength == 9 + Len(Opening[scenario])

MCInit == Init /\ step = 0 /\ scenario \in Scenarios

\* The receiver of the flash loan has made all its calls.
CallsAreUp ==
    /\ scenario = "flashloan" /\ flashLoans # <<>>
    /\ currentLoan.stage = CALLBACK
    /\ step >= PrefixLength + Len(currentLoan.legs) + MaxSteps

Unfinished ==
    /\ step >= PrefixLength
    /\ IF scenario = "flashloan" THEN flashLoans # <<>> ELSE step < PrefixLength + MaxSteps

Prefix(A) == step' = step + 1 /\ UNCHANGED scenario /\ A
Free(A)   == Unfinished /\ Prefix(A)
Call(A)   == ~CallsAreUp /\ Free(A)

\* The steps of Next one by one: TLC takes them for actions of their own.
MCNext ==
    \/ step < 9 /\ Prefix(Listing(step))
    \/ step \in 9 .. PrefixLength - 1 /\ Prefix(Open(Opening[scenario][step - 8]))
    \/ Call(DepositStep)    \/ Call(WithdrawStep)  \/ Call(BorrowStep)
    \/ Call(RepayStep)      \/ Call(SwapStep)      \/ Call(RebalanceStep)
    \/ Call(CollateralStep) \/ Call(TransferStep)  \/ Call(ApproveStep)
    \/ Call(LiquidationStep) \/ Call(FlashLoanBeginStep)
    \/ Free(FlashLoanLend) \/ Free(FlashLoanReturn) \/ Free(FlashLoanSettle)
    \/ Free(TreasuryStep) \/ Free(AdminStep) \/ Free(Tick) \/ Free(PriceChange)

MCSpec == MCInit /\ [][MCNext]_<<vars, step, scenario>>
=============================================================================
