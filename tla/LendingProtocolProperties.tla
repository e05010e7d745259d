---------------------- MODULE LendingProtocolProperties ----------------------
(***************************************************************************)
(* What the protocol promises to depositors, borrowers, liquidators and    *)
(* the treasury.  Dust bounds the rounding of a few operations.            *)
(***************************************************************************)
EXTENDS LendingProtocol

CONSTANT Dust

ASSUME DustAssumption == Dust \in Nat

sumOver(f) == MapThenSumSet(LAMBDA u : f[u], Account)

\* A step within one block, at the same prices and configuration.
sameMarket ==
    /\ now' = now /\ price' = price
    /\ \A a \in Asset : reserves'[a].config = reserves[a].config

-----------------------------------------------------------------------------
(* Bookkeeping of positions *)

\* Whoever owes anything to a reserve has its borrowing flag set: without it the
\* debt is invisible to calculateUserAccountData, and the collateral is free to
\* leave.  Six operations of the pool set, clear or rely on the flag.
DebtImpliesBorrowingFlag ==
    \A a \in Asset, u \in Account :
        \/ reserves[a].variableDebt.balance[u] = 0 /\ reserves[a].stableDebt.balance[u] = 0
        \/ a \in usersConfig[u].borrowing

\* The scaled supply of aTokens and of variable debt, from which interest and the
\* treasury's fee are computed, is the sum of what the accounts hold, after
\* transfers to oneself and fees minted in the middle of other operations too.
ScaledSupplyIsSumOfBalances ==
    \A a \in Asset :
        /\ reserves[a].aToken.supply = sumOver(reserves[a].aToken.balance)
        /\ reserves[a].variableDebt.supply = sumOver(reserves[a].variableDebt.balance)

\* The total stable debt is the sum of what the borrowers owe, but for dust:
\* the balances and the supply of StableDebtToken accrue apart.
StableSupplyIsSumOfBalances ==
    \A a \in reservesList :
        LET owed == sumOver([u \in Account |-> stableDebtBalanceOf(reserves[a], u, now)])
        IN  stableTotalSupply(reserves[a].stableDebt, now) \in owed - Dust .. owed + Dust

-----------------------------------------------------------------------------
(* Interest *)

\* No order of operations makes the accrual of a reserve revert (timestamps that
\* cross, debt that shrinks): every operation of the pool begins with it, so the
\* reserve would be bricked with all that it holds.
UpdateStateNeverReverts == \A a \in reservesList : updateStateAccepted(reserves[a], now)

\* What one scaled aToken is worth never falls, neither with time nor when the
\* interest shown by getNormalizedIncome is committed by updateIndexes, whoever
\* does what, and the committed index of the borrowers never falls either.
IndexesNeverDecrease ==
    [][\A a \in reservesList :
          /\ getNormalizedIncome(reserves'[a], now') >= getNormalizedIncome(reserves[a], now)
          /\ reserves'[a].variableBorrowIndex >= reserves[a].variableBorrowIndex]_vars

\* The rates stored after an operation are those the strategy quotes for the
\* liquidity and the debt the operation left: updateInterestRates is called
\* before the funds move, and told the difference.
RatesFollowUtilization ==
    \A a \in reservesList :
        flashLoans = <<>> /\ reserves[a].lastUpdateTimestamp = now =>
            updateInterestRates(reserves[a], 0, 0, now) = reserves[a]

-----------------------------------------------------------------------------
(* Solvency *)

\* Legs that a flash loan in progress has lent and not yet settled.
unsettled(frame) ==
    CASE frame.stage = LENDING  -> {i \in DOMAIN frame.legs : i < frame.next}
      [] frame.stage = CALLBACK -> DOMAIN frame.legs
      [] frame.stage = SETTLING -> {i \in DOMAIN frame.legs : i >= frame.next}

lent(asset) ==
    MapThenSumSet(LAMBDA f :
        MapThenSumSet(LAMBDA i : flashLoans[f].legs[i].amount,
                      {i \in unsettled(flashLoans[f]) : flashLoans[f].legs[i].asset = asset}),
        DOMAIN flashLoans)

\* What depositors and the treasury may claim is covered by the liquidity, the
\* debts and the flash loans still to be settled: interest is shared, not made.
Solvent ==
    \A a \in reservesList :
        aTokenTotalSupply(reserves[a], now)
            <= reserves[a].liquidity + lent(a)
                 + sumOver([u \in Account |-> debtOf(a, u)]) + Dust

-----------------------------------------------------------------------------
(* Positions *)

healthy(u) == accountData(u).healthFactor >= HEALTH_FACTOR_LIQUIDATION_THRESHOLD

\* A position, in the given state, would be healthy with a little more collateral.
healthyBut(rs, prices, u, cfg, time, extra) ==
    LET data == calculateUserAccountData(rs, prices, u, cfg, time)
    IN  calculateHealthFactorFromBalances(data.totalCollateral + extra, data.totalDebt,
                                          data.liquidationThreshold)
          >= HEALTH_FACTOR_LIQUIDATION_THRESHOLD

\* No operation, of his own or of another, takes a healthy position below the
\* liquidation threshold: only time, prices and the admin do.  The dust is what
\* burn and transfer round: balanceDecreaseAllowed is asked about the amount, and
\* the scaled tokens that leave may be worth a unit more.
HealthyStaysHealthy ==
    [][\A u \in User :
          sameMarket /\ healthy(u) =>
              healthyBut(reserves', price', u, usersConfig'[u], now', Dust)]_vars

\* Scaled tokens are minted and burned whole, and are worth an index each: half of one,
\* and what the balance shown is rounded by, may come on top of the amount or be missing.
rounding(index) == 1 + index \div (2 * RAY)

debtRounding(a)    == rounding(getNormalizedDebt(reserves[a], now))
depositRounding(a) == rounding(getNormalizedIncome(reserves[a], now))

\* The leg that is being settled is kept by u, who began the flash loan, as a debt of his own.
keepsLeg(a, u) ==
    /\ flashLoans # <<>> /\ currentLoan.stage = SETTLING
    /\ currentLoan.initiator = u /\ currentLoan.onBehalfOf = u
    /\ currentLeg.asset = a /\ currentLeg.mode # NONE

\* Someone's debt grows within a block only by what he receives himself in the same
\* call, by a leg of his own flash loan that he keeps as a debt, or at the expense of an
\* allowance he gave, by the same amount.  The receiver of a flash loan may use,
\* spend or revoke an allowance between the start of the loan and its settlement, which
\* counts on it; and what he borrows in between is no debt of the initiator.
DebtIsAuthorised ==
    [][\A a \in Asset, u \in Account :
          LET increase == debtOf(a, u)' - debtOf(a, u)
              accountedFor(amount) == increase - debtRounding(a) <= amount
          IN  now' = now /\ increase > debtRounding(a) =>
                \/ accountedFor(wallet'[a][u] - wallet[a][u])
                \/ keepsLeg(a, u) /\ accountedFor(currentLeg.amount)
                \/ \E v \in Account \ {u}, m \in RateMode :
                     accountedFor(borrowAllowance[a][m][u][v] - borrowAllowance'[a][m][u][v])]_vars

\* What u's aTokens are worth in a state, all reserves together, and what he owes; and
\* what one step takes away of both.
depositsInETH(rs, prices, u, time) ==
    MapThenSumSet(LAMBDA a : collateralInETH(rs, prices, u, a, time), reservesList)

debtsInETH(rs, prices, u, time) ==
    MapThenSumSet(LAMBDA a : debtInETH(rs, prices, u, a, time), reservesList)

collateralLost(u) ==
    depositsInETH(reserves, price, u, now) - depositsInETH(reserves', price', u, now')

debtCleared(u) == debtsInETH(reserves, price, u, now) - debtsInETH(reserves', price', u, now')

\* An amount of an asset in ETH, of which the fractions of two units may be missing.
worth(a, amount) == valueInETH(reserves, price, a, amount) + 2

\* Whoever loses collateral against the clearing of his debt, as in a liquidation,
\* loses no more than the debt and the bonus are worth, when the collateral is
\* enough for the debt and when it is not; but for the rounding of the two burns, and for
\* the units of debt that two divisions drop when the collateral is not enough.
SeizureIsPaidFor ==
    [][\A u \in Account :
          sameMarket /\ collateralLost(u) > 0 /\ debtCleared(u) > 0 =>
              \E c, d \in reservesList :
                  collateralLost(u)
                    <= percentMul(debtCleared(u) + worth(d, debtRounding(d) + 2),
                                  reserves[c].config.liquidationBonus)
                         + worth(c, depositRounding(c))]_vars

\* ... and no more than the close factor of the debt is cleared in one call.
CloseFactorRespected ==
    [][\A u \in Account, a \in reservesList :
          sameMarket /\ collateralLost(u) > 0 /\ debtCleared(u) > 0 =>
              debtOf(a, u) - debtOf(a, u)'
                  <= percentMul(debtOf(a, u), LIQUIDATION_CLOSE_FACTOR_PERCENT)
                       + debtRounding(a)]_vars

\* The collateral of a healthy position pays for its debt and for the bonus of
\* whoever would liquidate it, whatever mix of reserves it is made of; but for
\* half a unit for each percentage, for the half of the last digit by which threshold
\* and bonus together may exceed the whole, and for what the health factor rounds.
BonusIsCovered ==
    \A u \in Account :
        LET data   == accountData(u)
            backed == {a \in usersConfig[u].collateral : reserves[a].config.liquidationThreshold # 0}
            units  == (Cardinality(backed) + 1) * PERCENTAGE_FACTOR
        IN  healthy(u) =>
              data.totalDebt
                <= MapThenSumSet(LAMBDA a :
                       percentDiv(collateralInETH(reserves, price, u, a, now),
                                  reserves[a].config.liquidationBonus), backed)
                     + (data.totalCollateral + units) \div (2 * PERCENTAGE_FACTOR)
                     + data.totalDebt \div (2 * WAD)

-----------------------------------------------------------------------------
(* Calls that must not be refused *)

open(asset) == reserves[asset].config.active /\ ~paused /\ flashLoans = <<>>

\* A debtor who holds what he owes can repay it all, asking for the maximum.
RepayInFullAccepted ==
    \A a \in reservesList, u \in User, m \in RateMode :
        LET owed == debtOfMode(a, u, m)
        IN  open(a) /\ owed > 0 /\ owed <= wallet[a][u] => RepayAccepted(u, a, UINT_MAX, m, u)

\* A depositor without debt can withdraw all he has, if the reserve holds it.
WithdrawInFullAccepted ==
    \A a \in reservesList, u \in User :
        LET owned == aTokenBalanceOf(reserves[a], u, now)
        IN  open(a) /\ owned > 0 /\ owned <= reserves[a].liquidity /\ usersConfig[u].borrowing = {}
              => WithdrawAccepted(u, a, owned)

\* An unhealthy position can be liquidated by anyone with the funds, in any of its
\* debts and against any of its collateral: for the maximum the close factor allows, if
\* that and the part of it that the collateral pays for, with the bonus, are worth a
\* scaled token of the debt.
UnhealthyCanBeLiquidated ==
    \A u, v \in User : \A c \in usersConfig[u].collateral, d \in reservesList :
        LET most == percentMul(debtOf(d, u), LIQUIDATION_CLOSE_FACTOR_PERCENT)
        IN  /\ ~healthy(u) /\ open(c) /\ open(d)
            /\ debtRounding(d) <= most /\ most <= wallet[d][v]
            /\ reserves[c].config.liquidationThreshold > 0 /\ priceUsable(c)
            /\ percentMul(worth(d, debtRounding(d) + 1), reserves[c].config.liquidationBonus)
                 <= collateralInETH(reserves, price, u, c, now)
            => /\ LiquidationAccepted(v, c, d, u, UINT_MAX, TRUE)
               /\ liquidationTerms(c, d, u, UINT_MAX).repaid <= wallet[d][v]

-----------------------------------------------------------------------------
(* Administration *)

\* While a reserve is frozen nobody deposits to it, borrows from it or moves a
\* debt from one rate to the other; time and the treasury's fee still accrue.
FrozenReserveTakesNothingNew ==
    [][\A a \in reservesList, u \in Account :
          reserves[a].config.frozen /\ now' = now =>
              /\ reserves'[a].variableDebt.balance[u] <= reserves[a].variableDebt.balance[u]
              /\ debtOf(a, u)' <= debtOf(a, u)
              /\ reserves'[a].aToken.supply - reserves'[a].aToken.balance[Treasury]
                   <= reserves[a].aToken.supply - reserves[a].aToken.balance[Treasury]]_vars

\* A step that deactivates a reserve or takes its collateral property away.
disables(a) ==
    \/ reserves[a].config.active /\ ~reserves'[a].config.active
    \/ reserves[a].config.liquidationThreshold # 0 /\ reserves'[a].config.liquidationThreshold = 0

hasNoDeposits(a) == aTokenTotalSupply(reserves[a], now) <= Dust

\* A reserve is deactivated, or stops being collateral, only when nobody has deposits in
\* it, lent out or not: they would be locked, or no longer back their owners' debts.
\* What _checkNoLiquidity looks at is the liquidity and the stored rate of the deposits,
\* which stand for the deposits only as long as no reserve factor is of exactly 100%.
DisabledReserveIsEmpty ==
    [][\A a \in reservesList :
          disables(a) /\ PERCENTAGE_FACTOR \notin ReserveFactors => hasNoDeposits(a)]_vars

\* The same for every reserve factor, as a comment of the code says it: "if the
\* liquidation threshold is being set to 0, the reserve is being disabled as collateral. To
\* do so, we need to ensure no liquidity is deposited" (LendingPoolConfigurator.sol:278).
NoLiquidityIsDeposited == [][\A a \in reservesList : disables(a) => hasNoDeposits(a)]_vars
=============================================================================
