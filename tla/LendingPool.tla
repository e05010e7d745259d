----------------------------- MODULE LendingPool -----------------------------
(***************************************************************************)
(* The operations users call on the pool and on the aTokens.  A call that  *)
(* reverts leaves the state alone, so it is an action that is not enabled. *)
(* r1, r2, ... are the reserve after each call the function makes, in the  *)
(* order it makes them.                                                    *)
(***************************************************************************)
EXTENDS ValidationLogic

setReserve(asset, r) == reserves' = [reserves EXCEPT ![asset] = r]

setUserConfig(user, cfg) == usersConfig' = [usersConfig EXCEPT ![user] = cfg]

\* safeTransferFrom of the underlying from a user to the aToken, and back.
payIn(asset, from, amount) ==
    /\ amount <= wallet[asset][from]
    /\ wallet' = [wallet EXCEPT ![asset][from] = @ - amount]

payOut(asset, to, amount) == wallet' = [wallet EXCEPT ![asset][to] = @ + amount]

-----------------------------------------------------------------------------
Deposit(sender, asset, amount, onBehalfOf) ==
    LET r1 == updateState(reserves[asset], now)
        r2 == updateInterestRates(r1, amount, 0, now)
        r3 == [r2 EXCEPT !.liquidity = @ + amount,
                         !.aToken = mint(@, onBehalfOf, amount, r2.liquidityIndex)]
        isFirstDeposit == r2.aToken.balance[onBehalfOf] = 0
    IN  /\ CanCall(sender) /\ ~paused /\ Listed(asset)
        /\ validateDeposit(asset, amount)
        /\ updateStateAccepted(reserves[asset], now)
        /\ updateInterestRatesAccepted(r1, amount, 0)
        /\ mintAccepted(amount, r2.liquidityIndex)
        /\ payIn(asset, sender, amount)
        /\ setReserve(asset, r3)
        /\ IF isFirstDeposit
           THEN setUserConfig(onBehalfOf, setUsingAsCollateral(usersConfig[onBehalfOf], asset, TRUE))
           ELSE UNCHANGED usersConfig
        /\ UNCHANGED <<reservesList, paused, borrowAllowance, price, now, flashLoans>>

amountToWithdraw(sender, asset, amount) ==
    IF amount = UINT_MAX THEN aTokenBalanceOf(reserves[asset], sender, now) ELSE amount

WithdrawAccepted(sender, asset, amount) ==
    LET r1 == updateState(reserves[asset], now)
    IN  /\ CanCall(sender) /\ ~paused /\ Listed(asset)
        /\ validateWithdraw(sender, asset, amount, aTokenBalanceOf(reserves[asset], sender, now))
        /\ updateStateAccepted(reserves[asset], now)
        /\ updateInterestRatesAccepted(r1, 0, amount)
        /\ burnAccepted(r1.aToken, sender, amount, r1.liquidityIndex)

Withdraw(sender, asset, amount, to) ==
    LET withdrawn == amountToWithdraw(sender, asset, amount)
        r1 == updateState(reserves[asset], now)
        r2 == updateInterestRates(r1, 0, withdrawn, now)
        r3 == [r2 EXCEPT !.liquidity = @ - withdrawn,
                         !.aToken = burn(@, sender, withdrawn, r2.liquidityIndex)]
    IN  /\ WithdrawAccepted(sender, asset, withdrawn)
        /\ payOut(asset, to, withdrawn)
        /\ setReserve(asset, r3)
        /\ IF withdrawn = aTokenBalanceOf(reserves[asset], sender, now)
           THEN setUserConfig(sender, setUsingAsCollateral(usersConfig[sender], asset, FALSE))
           ELSE UNCHANGED usersConfig
        /\ UNCHANGED <<reservesList, paused, borrowAllowance, price, now, flashLoans>>

-----------------------------------------------------------------------------
\* mint of either debt token by user on behalf of the debtor.
mintDebt(r, debtor, amount, rateMode) ==
    IF rateMode = STABLE
    THEN [r EXCEPT !.stableDebt = mintStable(@, debtor, amount, r.currentStableBorrowRate, now)]
    ELSE [r EXCEPT !.variableDebt = mint(@, debtor, amount, r.variableBorrowIndex)]

mintDebtAccepted(r, amount, rateMode) ==
    IF rateMode = STABLE THEN mintStableAccepted(amount)
                         ELSE mintAccepted(amount, r.variableBorrowIndex)

\* Mutant: mint reports the balance after it, not before.
hasNoDebtOfMode_after(r, debtor, rateMode) ==
    IF rateMode = STABLE THEN stableDebtBalanceOf(r, debtor, now) # 0
                         ELSE r.variableDebt.balance[debtor] # 0

hasNoDebtOfMode(r, debtor, rateMode) ==
    IF rateMode = STABLE THEN stableDebtBalanceOf(r, debtor, now) = 0
                         ELSE r.variableDebt.balance[debtor] = 0

\* burn of either debt token.
burnDebt(r, debtor, amount, rateMode) ==
    IF rateMode = STABLE
    THEN [r EXCEPT !.stableDebt = burnStable(@, debtor, amount, now)]
    ELSE [r EXCEPT !.variableDebt = burn(@, debtor, amount, r.variableBorrowIndex)]

burnDebtAccepted(r, debtor, amount, rateMode) ==
    IF rateMode = STABLE
    THEN burnStableAccepted(r.stableDebt, debtor, amount, now)
    ELSE burnAccepted(r.variableDebt, debtor, amount, r.variableBorrowIndex)

\* Mutant: the allowance is checked but not spent.
spendBorrowAllowance_kept(asset, rateMode, delegator, delegatee, amount) ==
    /\ \/ delegator = delegatee
       \/ amount <= borrowAllowance[asset][rateMode][delegator][delegatee]
    /\ UNCHANGED borrowAllowance

\* DebtTokenBase._decreaseBorrowAllowance
spendBorrowAllowance(asset, rateMode, delegator, delegatee, amount) ==
    IF delegator = delegatee
    THEN UNCHANGED borrowAllowance
    ELSE /\ amount <= borrowAllowance[asset][rateMode][delegator][delegatee]
         /\ borrowAllowance' =
              [borrowAllowance EXCEPT ![asset][rateMode][delegator][delegatee] = @ - amount]

\* _executeBorrow.  A flash loan that opens a debt released the funds already.
ExecuteBorrow(asset, user, onBehalfOf, amount, rateMode, releaseUnderlying) ==
    LET released == IF releaseUnderlying THEN amount ELSE 0
        r1 == updateState(reserves[asset], now)
        r2 == mintDebt(r1, onBehalfOf, amount, rateMode)
        r3 == updateInterestRates(r2, 0, released, now)
        r4 == [r3 EXCEPT !.liquidity = @ - released]
        isFirstBorrowing == hasNoDebtOfMode(r1, onBehalfOf, rateMode)
    IN  /\ validateBorrow(asset, onBehalfOf, amount, rateMode)
        /\ updateStateAccepted(reserves[asset], now)
        /\ mintDebtAccepted(r1, amount, rateMode)
        /\ updateInterestRatesAccepted(r2, 0, released)
        /\ spendBorrowAllowance(asset, rateMode, onBehalfOf, user, amount)
        /\ payOut(asset, user, released)
        /\ setReserve(asset, r4)
        /\ IF isFirstBorrowing
           THEN setUserConfig(onBehalfOf, setBorrowing(usersConfig[onBehalfOf], asset, TRUE))
           ELSE UNCHANGED usersConfig

Borrow(sender, asset, amount, rateMode, onBehalfOf) ==
    /\ CanCall(sender) /\ ~paused /\ Listed(asset)
    /\ ExecuteBorrow(asset, sender, onBehalfOf, amount, rateMode, TRUE)
    /\ UNCHANGED <<reservesList, paused, price, now, flashLoans>>

ApproveDelegation(sender, asset, rateMode, delegatee, amount) ==
    /\ CanCall(sender) /\ Listed(asset)
    /\ borrowAllowance' = [borrowAllowance EXCEPT ![asset][rateMode][sender][delegatee] = amount]
    /\ UNCHANGED <<reserves, reservesList, usersConfig, paused, wallet, price, now, flashLoans>>

debtOfMode(asset, user, rateMode) ==
    IF rateMode = STABLE THEN stableDebtBalanceOf(reserves[asset], user, now)
                         ELSE variableDebtBalanceOf(reserves[asset], user, now)

debtOf(asset, user) == debtOfMode(asset, user, STABLE) + debtOfMode(asset, user, VARIABLE_RATE)

paybackAmount(asset, amount, rateMode, onBehalfOf) ==
    LET debt == debtOfMode(asset, onBehalfOf, rateMode)
    IN  IF amount < debt THEN amount ELSE debt

RepayAccepted(sender, asset, amount, rateMode, onBehalfOf) ==
    LET payback == paybackAmount(asset, amount, rateMode, onBehalfOf)
        r1 == updateState(reserves[asset], now)
        r2 == burnDebt(r1, onBehalfOf, payback, rateMode)
    IN  /\ CanCall(sender) /\ ~paused /\ Listed(asset)
        /\ validateRepay(sender, asset, amount, rateMode, onBehalfOf,
                         debtOfMode(asset, onBehalfOf, STABLE),
                         debtOfMode(asset, onBehalfOf, VARIABLE_RATE))
        /\ updateStateAccepted(reserves[asset], now)
        /\ burnDebtAccepted(r1, onBehalfOf, payback, rateMode)
        /\ updateInterestRatesAccepted(r2, payback, 0)

\* Mutants: the borrowing flag looks at one kind of debt alone.
isRepaidInFull_variable(asset, user, amount) == amount >= debtOfMode(asset, user, VARIABLE_RATE)
isRepaidInFull_stable(asset, user, amount)   == amount >= debtOfMode(asset, user, STABLE)

\* Nothing is owed in either mode once amount is repaid.
isRepaidInFull(asset, user, amount) == debtOf(asset, user) - amount = 0

Repay(sender, asset, amount, rateMode, onBehalfOf) ==
    LET payback == paybackAmount(asset, amount, rateMode, onBehalfOf)
        r1 == updateState(reserves[asset], now)
        r2 == burnDebt(r1, onBehalfOf, payback, rateMode)
        r3 == updateInterestRates(r2, payback, 0, now)
        r4 == [r3 EXCEPT !.liquidity = @ + payback]
    IN  /\ RepayAccepted(sender, asset, amount, rateMode, onBehalfOf)
        /\ payIn(asset, sender, payback)
        /\ setReserve(asset, r4)
        /\ IF isRepaidInFull(asset, onBehalfOf, payback)
           THEN setUserConfig(onBehalfOf, setBorrowing(usersConfig[onBehalfOf], asset, FALSE))
           ELSE UNCHANGED usersConfig
        /\ UNCHANGED <<reservesList, paused, borrowAllowance, price, now, flashLoans>>

otherMode(rateMode) == IF rateMode = STABLE THEN VARIABLE_RATE ELSE STABLE

SwapBorrowRateMode(sender, asset, rateMode) ==
    LET stableDebt   == stableDebtBalanceOf(reserves[asset], sender, now)
        variableDebt == variableDebtBalanceOf(reserves[asset], sender, now)
        debt         == IF rateMode = STABLE THEN stableDebt ELSE variableDebt
        r1 == updateState(reserves[asset], now)
        r2 == burnDebt(r1, sender, debt, rateMode)
        r3 == mintDebt(r2, sender, debt, otherMode(rateMode))
        r4 == updateInterestRates(r3, 0, 0, now)
    IN  /\ CanCall(sender) /\ ~paused /\ Listed(asset)
        /\ validateSwapRateMode(sender, asset, stableDebt, variableDebt, rateMode)
        /\ updateStateAccepted(reserves[asset], now)
        /\ burnDebtAccepted(r1, sender, debt, rateMode)
        /\ mintDebtAccepted(r2, debt, otherMode(rateMode))
        /\ updateInterestRatesAccepted(r3, 0, 0)
        /\ setReserve(asset, r4)
        /\ UNCHANGED <<reservesList, usersConfig, paused, borrowAllowance,
                       wallet, price, now, flashLoans>>

RebalanceStableBorrowRate(sender, asset, user) ==
    LET stableDebt == stableDebtBalanceOf(reserves[asset], user, now)
        r1 == updateState(reserves[asset], now)
        r2 == burnDebt(r1, user, stableDebt, STABLE)
        r3 == mintDebt(r2, user, stableDebt, STABLE)
        r4 == updateInterestRates(r3, 0, 0, now)
    IN  /\ CanCall(sender) /\ ~paused /\ Listed(asset)
        /\ validateRebalanceStableBorrowRate(asset)
        /\ updateStateAccepted(reserves[asset], now)
        /\ mintStableAccepted(stableDebt)
        /\ updateInterestRatesAccepted(r3, 0, 0)
        /\ setReserve(asset, r4)
        /\ UNCHANGED <<reservesList, usersConfig, paused, borrowAllowance,
                       wallet, price, now, flashLoans>>

SetUserUseReserveAsCollateral(sender, asset, useAsCollateral) ==
    /\ CanCall(sender) /\ ~paused /\ Listed(asset)
    /\ validateSetUseReserveAsCollateral(sender, asset, useAsCollateral)
    /\ setUserConfig(sender, setUsingAsCollateral(usersConfig[sender], asset, useAsCollateral))
    /\ UNCHANGED <<reserves, reservesList, paused, borrowAllowance, wallet, price, now, flashLoans>>

-----------------------------------------------------------------------------
\* transfer of an aToken: AToken._transfer, then finalizeTransfer in the pool,
\* which checks the sender's position after the tokens moved.
Transfer(sender, asset, recipient, amount) ==
    LET r        == reserves[asset]
        index    == getNormalizedIncome(r, now)
        fromBalanceBefore == aTokenBalanceOf(r, sender, now)
        toBalanceBefore   == aTokenBalanceOf(r, recipient, now)
        r1       == [r EXCEPT !.aToken =
                        transferScaled(@, sender, recipient, rayDiv(amount, index))]
        emptied  == fromBalanceBefore - amount = 0
        received == toBalanceBefore = 0 /\ amount # 0
        cfg1     == IF emptied
                    THEN [usersConfig EXCEPT ![sender] = setUsingAsCollateral(@, asset, FALSE)]
                    ELSE usersConfig
        cfg2     == IF received
                    THEN [cfg1 EXCEPT ![recipient] = setUsingAsCollateral(@, asset, TRUE)]
                    ELSE cfg1
    IN  /\ CanCall(sender) /\ ~paused /\ Listed(asset)
        /\ transferScaledAccepted(r.aToken, sender, rayDiv(amount, index))
        /\ validateTransfer([reserves EXCEPT ![asset] = r1], sender)
        /\ setReserve(asset, r1)
        /\ IF sender # recipient
           THEN amount <= fromBalanceBefore /\ usersConfig' = cfg2
           ELSE UNCHANGED usersConfig
        /\ UNCHANGED <<reservesList, paused, borrowAllowance, wallet, price, now, flashLoans>>
=============================================================================
