--------------------------- MODULE StableDebtToken ---------------------------
(***************************************************************************)
(* Debt at a stable rate.  Each borrower's debt compounds at the rate he   *)
(* borrowed at, from his own timestamp; the total supply compounds apart,  *)
(* at the average rate, from its own timestamp.                            *)
(***************************************************************************)
EXTENDS Accounts

\* balance and supply are principals, without the interest since the timestamps.
StableToken ==
    [balance : [Account -> Nat], usersStableRate : [Account -> Nat],
     timestamps : [Account -> Nat],
     supply : Nat, avgStableRate : Nat, totalSupplyTimestamp : Nat]

EmptyStableToken ==
    LET zero == [u \in Account |-> 0]
    IN  [balance |-> zero, usersStableRate |-> zero, timestamps |-> zero,
         supply |-> 0, avgStableRate |-> 0, totalSupplyTimestamp |-> 0]

stableBalanceOf(s, account, now) ==
    IF s.balance[account] = 0
    THEN 0
    ELSE rayMul(s.balance[account],
                calculateCompoundedInterest(s.usersStableRate[account],
                                            s.timestamps[account], now))

stableTotalSupply(s, now) ==
    IF s.supply = 0
    THEN 0
    ELSE rayMul(s.supply, calculateCompoundedInterest(s.avgStableRate,
                                                      s.totalSupplyTimestamp, now))

\* Mean of two rates weighted by amounts, as mint computes both of its averages.
weightedRate(rate1, amount1, rate2, amount2) ==
    rayDiv(rayMul(rate1, wadToRay(amount1)) + rayMul(rate2, wadToRay(amount2)),
           wadToRay(amount1 + amount2))

\* rayDiv by the next supply or balance: both include amount.
mintStableAccepted(amount) == amount # 0

\* Mutant: the new debt is added to the principal, without its interest.
mintStable_principal(s, account, amount, rate, now) ==
    LET principal == s.balance[account]
    IN  [s EXCEPT !.balance[account] = principal + amount,
                  !.usersStableRate[account] = weightedRate(@, principal, rate, amount),
                  !.timestamps[account] = now,
                  !.supply = @ + amount,
                  !.avgStableRate = weightedRate(@, s.supply, rate, amount),
                  !.totalSupplyTimestamp = now]

mintStable(s, account, amount, rate, now) ==
    LET currentBalance == stableBalanceOf(s, account, now)
        previousSupply == stableTotalSupply(s, now)
    IN  [balance              |-> [s.balance EXCEPT ![account] = currentBalance + amount],
         usersStableRate      |-> [s.usersStableRate EXCEPT ![account] =
                                      weightedRate(@, currentBalance, rate, amount)],
         timestamps           |-> [s.timestamps EXCEPT ![account] = now],
         supply               |-> previousSupply + amount,
         avgStableRate        |-> weightedRate(s.avgStableRate, previousSupply, rate, amount),
         totalSupplyTimestamp |-> now]

\* Mutant: the burned amount is compared with the principal.
burnStableAccepted_principal(s, account, amount, now) == amount <= s.balance[account]

burnStableAccepted(s, account, amount, now) == amount <= stableBalanceOf(s, account, now)

\* The supply and the average rate are set to zero when the repaid debt, or the
\* interest it was to bear, exceeds what the total still accounts for.
burnStable(s, account, amount, now) ==
    LET currentBalance == stableBalanceOf(s, account, now)
        previousSupply == stableTotalSupply(s, now)
        firstTerm      == rayMul(s.avgStableRate, wadToRay(previousSupply))
        secondTerm     == rayMul(s.usersStableRate[account], wadToRay(amount))
        depleted       == previousSupply <= amount \/ secondTerm >= firstTerm
        repaidInFull   == amount = currentBalance
    IN  [balance              |-> [s.balance EXCEPT ![account] = currentBalance - amount],
         usersStableRate      |-> [s.usersStableRate EXCEPT ![account] =
                                      IF repaidInFull THEN 0 ELSE @],
         timestamps           |-> [s.timestamps EXCEPT ![account] =
                                      IF repaidInFull THEN 0 ELSE now],
         supply               |-> IF depleted THEN 0 ELSE previousSupply - amount,
         avgStableRate        |-> IF depleted
                                  THEN 0
                                  ELSE rayDiv(firstTerm - secondTerm,
                                              wadToRay(previousSupply - amount)),
         totalSupplyTimestamp |-> now]
=============================================================================
