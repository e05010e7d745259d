--------------------------- MODULE OperationProofs ---------------------------
(***************************************************************************)
(* What an operation leaves behind in a reserve.  First, what it may do,   *)
(* within one block, to the debts and the deposits: most raise neither,    *)
(* each function of their pipelines leaves both where they are or lowers   *)
(* them; those that do are refused by a frozen reserve, and make no debt   *)
(* that was not authorised.  Then, the rates: each operation quotes them   *)
(* for the funds and the debts it is about to leave.  Last, a liquidation: *)
(* it alone takes deposits and clears debts in one step, part of the debt  *)
(* and what that part is worth; and it is not refused to anybody who can   *)
(* pay for it, as long as there is a token of debt to clear.               *)
(***************************************************************************)
EXTENDS LendingProtocolProofs

\* The scaled deposits of all but the treasury, whose fees accrue.
deposits(t) == t.supply - t.balance[Treasury]

\* The later record n of the reserve r shows no debt that r did not ...
NoNewDebt(r, n) ==
    /\ getNormalizedDebt(n, now) <= getNormalizedDebt(r, now)
    /\ \A u \in Account :
          /\ n.variableDebt.balance[u] <= r.variableDebt.balance[u]
          /\ stableDebtBalanceOf(n, u, now) <= stableDebtBalanceOf(r, u, now)

\* ... and no deposit.
NothingNew(r, n) == NoNewDebt(r, n) /\ deposits(n.aToken) <= deposits(r.aToken)

\* What an action that makes no debt and takes no deposit does, and one that makes no debt.
TakesNothing == now' = now => \A a \in reservesList : NothingNew(reserves[a], reserves'[a])

MakesNoDebt == now' = now => \A a \in reservesList : NoNewDebt(reserves[a], reserves'[a])

\* What every action owes FrozenReserveTakesNothingNew.
FrozenStep ==
    now' = now =>
        \A a \in reservesList : reserves[a].config.frozen => NothingNew(reserves[a], reserves'[a])

-----------------------------------------------------------------------------
(* Comparing two records of a reserve *)

\* What is compared are numbers.
LEMMA ComparedTypes ==
    ASSUME NEW r, now \in Nat, ListedOK(r, now)
    PROVE  /\ getNormalizedDebt(r, now) \in Nat /\ deposits(r.aToken) \in Int
           /\ \A u \in Account : /\ r.variableDebt.balance[u] \in Nat
                                 /\ stableDebtBalanceOf(r, u, now) \in Nat
<1>1. r \in Reserve
    BY DEF ListedOK, ReserveOK
<1>2. r.aToken.supply \in Nat /\ r.aToken.balance[Treasury] \in Nat
    BY <1>1, ReserveFields, TreasuryAssumption
<1>3. deposits(r.aToken) \in Int
    BY <1>2 DEF deposits
<1> QED BY <1>1, <1>3, NormalizedIndexes, ReserveFields, ReserveViews

\* The calls of an operation follow each other.
LEMMA NothingNewAdds ==
    ASSUME NEW r, NEW n, NEW q, now \in Nat,
           ListedOK(r, now), ListedOK(n, now), ListedOK(q, now),
           NothingNew(r, n), NothingNew(n, q)
    PROVE  NothingNew(r, q)
<1>1. /\ getNormalizedDebt(r, now) \in Nat /\ deposits(r.aToken) \in Int
      /\ getNormalizedDebt(n, now) \in Nat /\ deposits(n.aToken) \in Int
      /\ getNormalizedDebt(q, now) \in Nat /\ deposits(q.aToken) \in Int
    BY ComparedTypes
<1>2. getNormalizedDebt(q, now) <= getNormalizedDebt(r, now)
      /\ deposits(q.aToken) <= deposits(r.aToken)
    BY <1>1 DEF NothingNew, NoNewDebt
<1>3. ASSUME NEW u \in Account
      PROVE  /\ q.variableDebt.balance[u] <= r.variableDebt.balance[u]
             /\ stableDebtBalanceOf(q, u, now) <= stableDebtBalanceOf(r, u, now)
  <2>1. /\ r.variableDebt.balance[u] \in Nat /\ stableDebtBalanceOf(r, u, now) \in Nat
        /\ n.variableDebt.balance[u] \in Nat /\ stableDebtBalanceOf(n, u, now) \in Nat
        /\ q.variableDebt.balance[u] \in Nat /\ stableDebtBalanceOf(q, u, now) \in Nat
    BY ComparedTypes
  <2>2. /\ n.variableDebt.balance[u] <= r.variableDebt.balance[u]
        /\ stableDebtBalanceOf(n, u, now) <= stableDebtBalanceOf(r, u, now)
        /\ q.variableDebt.balance[u] <= n.variableDebt.balance[u]
        /\ stableDebtBalanceOf(q, u, now) <= stableDebtBalanceOf(n, u, now)
    BY DEF NothingNew, NoNewDebt
  <2> QED BY <2>1, <2>2
<1> QED BY <1>2, <1>3 DEF NothingNew, NoNewDebt

\* A reserve whose debts are left alone, and whose debt index shows no more.
LEMMA DebtsLeftAlone ==
    ASSUME NEW r, NEW n, now \in Nat, ListedOK(r, now),
           n.variableDebt = r.variableDebt, n.stableDebt = r.stableDebt,
           getNormalizedDebt(n, now) <= getNormalizedDebt(r, now),
           deposits(n.aToken) <= deposits(r.aToken)
    PROVE  NothingNew(r, n)
BY ComparedTypes DEF NothingNew, NoNewDebt, stableDebtBalanceOf

\* A reserve that is left alone.
LEMMA NothingChanges ==
    ASSUME NEW r, now \in Nat, ListedOK(r, now)
    PROVE  NothingNew(r, r)
BY ComparedTypes DEF NothingNew, NoNewDebt

\* The index shown is the one stored once the interest is committed.
LEMMA CommittedIndex ==
    ASSUME NEW r, NEW n, Accrued(r, n)
    PROVE  getNormalizedDebt(n, now) = n.variableBorrowIndex
BY DEF Accrued, getNormalizedDebt

-----------------------------------------------------------------------------
(* The functions of the pipelines *)

\* updateState commits no more than was shown, and mints to the treasury only.
LEMMA UpdateStateTakesNothing ==
    ASSUME NEW r, now \in Nat, ListedOK(r, now), updateStateAccepted(r, now)
    PROVE  NothingNew(r, updateState(r, now))
<1> DEFINE n == updateState(r, now)
<1>1. /\ Accrued(r, n) /\ n.variableDebt = r.variableDebt /\ n.stableDebt = r.stableDebt
      /\ n.variableBorrowIndex <= getNormalizedDebt(r, now)
    BY AccruedUpdateState
<1>2. PICK fee \in Nat :
        /\ n.aToken.supply = r.aToken.supply + fee
        /\ n.aToken.balance = [r.aToken.balance EXCEPT ![Treasury] = @ + fee]
    BY UpdateState
<1>3. deposits(n.aToken) <= deposits(r.aToken)
  <2>1. /\ r.aToken.balance \in [Account -> Nat] /\ r.aToken.supply \in Nat
        /\ r.aToken.balance[Treasury] \in Nat
    BY ReserveBooks, BalancedTokenFields, TreasuryAssumption
  <2>2. n.aToken.balance[Treasury] = r.aToken.balance[Treasury] + fee
    BY <1>2, <2>1, TreasuryAssumption
  <2> HIDE DEF n
  <2> QED BY <1>2, <2>1, <2>2 DEF deposits
<1> HIDE DEF n
<1>4. getNormalizedDebt(n, now) <= getNormalizedDebt(r, now)
    BY <1>1, CommittedIndex
<1>5. NothingNew(r, n)
    BY <1>1, <1>3, <1>4, DebtsLeftAlone
<1> QED BY <1>5 DEF n

\* updateInterestRates changes rates that no interest was computed with yet.
LEMMA RatesTakeNothing ==
    ASSUME NEW r, NEW n, now \in Nat, Accrued(r, n), NEW added \in Nat, NEW taken \in Nat,
           updateInterestRatesAccepted(n, added, taken)
    PROVE  NothingNew(n, updateInterestRates(n, added, taken, now))
<1> DEFINE q == updateInterestRates(n, added, taken, now)
<1>1. ListedOK(n, now)
    BY DEF Accrued
<1>2. /\ Accrued(r, q) /\ q.variableDebt = n.variableDebt /\ q.stableDebt = n.stableDebt
      /\ q.aToken = n.aToken
    BY AccruedUpdateInterestRates
<1>3. q.variableBorrowIndex = n.variableBorrowIndex
    BY <1>1, UpdateInterestRates
<1> HIDE DEF q
<1>4. getNormalizedDebt(q, now) = getNormalizedDebt(n, now)
    BY <1>2, <1>3, CommittedIndex
<1>5. NothingNew(n, q)
    BY <1>1, <1>2, <1>4, ComparedTypes, DebtsLeftAlone
<1> QED BY <1>5 DEF q

\* Funds and aTokens that move make no debt ...
LEMMA FundsMakeNoDebt ==
    ASSUME NEW r, now \in Nat, ListedOK(r, now), NEW l \in Nat, NEW t \in BalancedToken
    PROVE  LET n == withFunds(r, l, t)
           IN  NoNewDebt(r, n) /\ n.aToken = t
<1> DEFINE n == withFunds(r, l, t)
<1>1. r \in Reserve
    BY DEF ListedOK, ReserveOK
<1>2. /\ n.variableDebt = r.variableDebt /\ n.stableDebt = r.stableDebt /\ n.aToken = t
      /\ n.lastUpdateTimestamp = r.lastUpdateTimestamp
      /\ n.variableBorrowIndex = r.variableBorrowIndex
      /\ n.currentVariableBorrowRate = r.currentVariableBorrowRate
    BY <1>1 DEF withFunds, Reserve
<1> HIDE DEF n
<1>3. getNormalizedDebt(n, now) = getNormalizedDebt(r, now)
    BY <1>2 DEF getNormalizedDebt
<1>4. NoNewDebt(r, n)
    BY <1>2, <1>3, ComparedTypes DEF NoNewDebt, stableDebtBalanceOf
<1> QED BY <1>2, <1>4 DEF n

\* ... and add nothing to the deposits if the aTokens do not.
LEMMA FundsTakeNothing ==
    ASSUME NEW r, now \in Nat, ListedOK(r, now), NEW l \in Nat, NEW t \in BalancedToken,
           deposits(t) <= deposits(r.aToken)
    PROVE  NothingNew(r, withFunds(r, l, t))
BY FundsMakeNoDebt DEF NothingNew

\* Burning aTokens takes from the deposits, or from the treasury's share.
LEMMA ATokenBurnTakes ==
    ASSUME NEW t \in BalancedToken, NEW u \in Account, NEW amount \in Nat,
           NEW index \in Nat \ {0}, burnAccepted(t, u, amount, index)
    PROVE  deposits(burn(t, u, amount, index)) <= deposits(t)
<1> DEFINE scaled == rayDiv(amount, index)
           b == t.balance
<1>1. scaled \in Nat
    BY RoundedInNat
<1>2. b \in [Account -> Nat] /\ t.supply \in Nat /\ b[Treasury] \in Nat
    BY BalancedTokenFields, TreasuryAssumption
<1>3. /\ burn(t, u, amount, index).supply = t.supply - scaled
      /\ burn(t, u, amount, index).balance = [b EXCEPT ![u] = @ - scaled]
    BY DEF burn, burnScaled
<1> HIDE DEF scaled, b
<1>4. [b EXCEPT ![u] = @ - scaled][Treasury] \in {b[Treasury], b[Treasury] - scaled}
    BY <1>2, TreasuryAssumption
<1> QED BY <1>1, <1>2, <1>3, <1>4 DEF deposits, b

\* A transfer from anybody but the treasury adds nothing to the deposits.
LEMMA ATokenTransferTakes ==
    ASSUME NEW t \in BalancedToken, NEW sender \in Account \ {Treasury},
           NEW recipient \in Account, NEW scaled \in Nat
    PROVE  deposits(transferScaled(t, sender, recipient, scaled)) <= deposits(t)
<1> DEFINE b == t.balance
           d == [b EXCEPT ![sender] = @ - scaled]
           e == [d EXCEPT ![recipient] = @ + scaled]
<1>1. b \in [Account -> Nat] /\ t.supply \in Nat /\ b[Treasury] \in Nat /\ t \in Token
    BY BalancedTokenFields, TreasuryAssumption
<1>2. /\ transferScaled(t, sender, recipient, scaled).supply = t.supply
      /\ transferScaled(t, sender, recipient, scaled).balance = e
    BY <1>1 DEF transferScaled, Token
<1> HIDE DEF b
<1>3. DOMAIN d = Account /\ d[Treasury] = b[Treasury]
    BY <1>1, TreasuryAssumption
<1> HIDE DEF d
<1>4. e[Treasury] \in {b[Treasury], b[Treasury] + scaled}
    BY <1>3, TreasuryAssumption
<1> QED BY <1>1, <1>2, <1>4 DEF deposits, b

\* A stable debt written now shows its principal.
LEMMA StableWrittenNow ==
    ASSUME NEW s \in StableToken, now \in Nat, NEW u \in Account, s.timestamps[u] = now
    PROVE  stableBalanceOf(s, u, now) = s.balance[u]
<1> DEFINE c == calculateCompoundedInterest(s.usersStableRate[u], s.timestamps[u], now)
           b == s.balance[u]
<1>1. b \in Nat /\ s.usersStableRate[u] \in Nat
    BY DEF StableToken
<1>2. c = RAY
  <2>1. now <= now
    OBVIOUS
  <2> QED BY <1>1, <2>1, CompoundedInterest
<1>3. stableBalanceOf(s, u, now) = IF b = 0 THEN 0 ELSE rayMul(b, c)
    BY DEF stableBalanceOf
<1> HIDE DEF b, c
<1>4. rayMul(b, RAY) = b
  <2>1. rayMul(RAY, b) = b
    BY <1>1, RayMulOne
  <2>2. b * RAY = RAY * b
    BY <1>1, ScalePositive
  <2> QED BY <2>1, <2>2 DEF rayMul
<1> QED BY <1>2, <1>3, <1>4 DEF b

\* A burn takes the amount from the stable debt of one account, and leaves the others.
LEMMA BurnStableTakes ==
    ASSUME NEW s \in StableToken, now \in Nat, StablePast(s, now), NEW u \in Account,
           NEW amount \in Nat, burnStableAccepted(s, u, amount, now)
    PROVE  LET t == burnStable(s, u, amount, now)
           IN  /\ stableBalanceOf(t, u, now) = stableBalanceOf(s, u, now) - amount
               /\ \A v \in Account \ {u} : stableBalanceOf(t, v, now) = stableBalanceOf(s, v, now)
<1> DEFINE t == burnStable(s, u, amount, now)
           owed == stableBalanceOf(s, u, now)
<1>1. t \in StableToken
    BY BurnStableType
<1>2. owed \in Nat /\ amount <= owed
    BY StableViews DEF burnStableAccepted
<1>3. /\ t.balance = [s.balance EXCEPT ![u] = owed - amount]
      /\ t.usersStableRate = [s.usersStableRate EXCEPT ![u] = IF amount = owed THEN 0 ELSE @]
      /\ t.timestamps = [s.timestamps EXCEPT ![u] = IF amount = owed THEN 0 ELSE now]
    BY DEF burnStable
<1> HIDE DEF t, owed
<1>4. /\ DOMAIN s.balance = Account /\ DOMAIN s.usersStableRate = Account
      /\ DOMAIN s.timestamps = Account
    BY DEF StableToken
<1>5. t.balance[u] = owed - amount /\ (amount # owed => t.timestamps[u] = now)
    BY <1>3, <1>4
<1>6. stableBalanceOf(t, u, now) = owed - amount
  <2>1. CASE amount = owed
    <3>1. t.balance[u] = 0
      BY <1>2, <1>5, <2>1
    <3> QED BY <1>2, <2>1, <3>1 DEF stableBalanceOf
  <2>2. CASE amount # owed
    BY <1>1, <1>5, <2>2, StableWrittenNow
  <2> QED BY <2>1, <2>2
<1>7. ASSUME NEW v \in Account \ {u}
      PROVE  stableBalanceOf(t, v, now) = stableBalanceOf(s, v, now)
  <2>1. /\ t.balance[v] = s.balance[v] /\ t.usersStableRate[v] = s.usersStableRate[v]
        /\ t.timestamps[v] = s.timestamps[v]
    BY <1>3, <1>4
  <2> QED BY <2>1 DEF stableBalanceOf
<1> QED BY <1>6, <1>7 DEF t, owed

\* A mint adds the amount to the stable debt of one account, and leaves the others.
LEMMA MintStableAdds ==
    ASSUME NEW s \in StableToken, now \in Nat, StablePast(s, now), NEW u \in Account,
           NEW amount \in Nat, NEW rate \in Nat, mintStableAccepted(amount)
    PROVE  LET t == mintStable(s, u, amount, rate, now)
           IN  /\ stableBalanceOf(t, u, now) = stableBalanceOf(s, u, now) + amount
               /\ \A v \in Account \ {u} : stableBalanceOf(t, v, now) = stableBalanceOf(s, v, now)
<1> DEFINE t == mintStable(s, u, amount, rate, now)
           owed == stableBalanceOf(s, u, now)
           new == weightedRate(s.usersStableRate[u], owed, rate, amount)
<1>1. t \in StableToken
    BY MintStableType
<1>2. /\ t.balance = [s.balance EXCEPT ![u] = owed + amount]
      /\ t.usersStableRate = [s.usersStableRate EXCEPT ![u] = new]
      /\ t.timestamps = [s.timestamps EXCEPT ![u] = now]
    BY DEF mintStable, StableToken
<1> HIDE DEF t, owed, new
<1>3. /\ DOMAIN s.balance = Account /\ DOMAIN s.usersStableRate = Account
      /\ DOMAIN s.timestamps = Account
    BY DEF StableToken
<1>4. stableBalanceOf(t, u, now) = owed + amount
  <2>1. t.timestamps[u] = now /\ t.balance[u] = owed + amount
    BY <1>2, <1>3
  <2> QED BY <1>1, <2>1, StableWrittenNow
<1>5. ASSUME NEW v \in Account \ {u}
      PROVE  stableBalanceOf(t, v, now) = stableBalanceOf(s, v, now)
  <2>1. /\ t.balance[v] = s.balance[v] /\ t.usersStableRate[v] = s.usersStableRate[v]
        /\ t.timestamps[v] = s.timestamps[v]
    BY <1>2, <1>3
  <2> QED BY <2>1 DEF stableBalanceOf
<1> QED BY <1>4, <1>5 DEF t, owed

\* A debt that is burnt is no new one.
LEMMA BurnTakesNothing ==
    ASSUME NEW r, NEW n, now \in Nat, Accrued(r, n), NEW u \in Account, NEW amount \in Nat,
           NEW m \in RateMode, burnDebtAccepted(n, u, amount, m)
    PROVE  NothingNew(n, burnDebt(n, u, amount, m))
<1> DEFINE q == burnDebt(n, u, amount, m)
<1>1. /\ n \in Reserve /\ ListedOK(n, now) /\ n.lastUpdateTimestamp = now
      /\ n.variableBorrowIndex \in Nat \ {0}
      /\ n.stableDebt \in StableToken /\ StablePast(n.stableDebt, now)
      /\ n.variableDebt.balance \in [Account -> Nat]
    BY AccruedFields, ReserveFields, ReserveBooks, BalancedTokenFields, ScalePositive
       DEF Accrued, ListedOK, ReserveOK
<1>2. /\ Accrued(r, q) /\ q.variableBorrowIndex = n.variableBorrowIndex
    BY <1>1, AccruedBurnDebt, BurnDebt
<1>3. q.aToken = n.aToken
    BY <1>1 DEF burnDebt, Reserve
<1>4. ASSUME NEW v \in Account
      PROVE  /\ q.variableDebt.balance[v] <= n.variableDebt.balance[v]
             /\ stableDebtBalanceOf(q, v, now) <= stableDebtBalanceOf(n, v, now)
  <2>1. stableDebtBalanceOf(n, v, now) \in Nat /\ n.variableDebt.balance[v] \in Nat
    BY <1>1, ReserveViews
  <2>2. CASE m = STABLE
    <3> DEFINE t == burnStable(n.stableDebt, u, amount, now)
    <3>1. q.stableDebt = t /\ q.variableDebt = n.variableDebt
      BY <1>1, <2>2 DEF burnDebt, Reserve
    <3>2. \/ stableBalanceOf(t, v, now) = stableBalanceOf(n.stableDebt, v, now) - amount
          \/ stableBalanceOf(t, v, now) = stableBalanceOf(n.stableDebt, v, now)
      BY <1>1, <2>2, BurnStableTakes DEF burnDebtAccepted
    <3> HIDE DEF t, q
    <3> QED BY <2>1, <3>1, <3>2 DEF stableDebtBalanceOf
  <2>3. CASE m # STABLE
    <3> DEFINE scaled == rayDiv(amount, n.variableBorrowIndex)
               b == n.variableDebt.balance
    <3>1. /\ q.variableDebt.balance = [b EXCEPT ![u] = @ - scaled]
          /\ q.stableDebt = n.stableDebt
      BY <1>1, <2>3 DEF burnDebt, burn, burnScaled, Reserve
    <3>2. scaled \in Nat
      BY <1>1, RoundedInNat
    <3> HIDE DEF scaled, q
    <3>3. q.variableDebt.balance[v] \in {b[v], b[v] - scaled}
      BY <1>1, <3>1
    <3> QED BY <2>1, <3>1, <3>2, <3>3 DEF stableDebtBalanceOf
  <2> QED BY <2>2, <2>3
<1> HIDE DEF q
<1>5. getNormalizedDebt(q, now) = getNormalizedDebt(n, now)
  <2>1. getNormalizedDebt(n, now) = n.variableBorrowIndex
    BY CommittedIndex
  <2> QED BY <1>2, <2>1, CommittedIndex
<1>6. NothingNew(n, q)
    BY <1>1, <1>3, <1>4, <1>5, ComparedTypes DEF NothingNew, NoNewDebt
<1> QED BY <1>6 DEF q

\* The two burns of a liquidation.
LEMMA LiquidationBurnTakesNothing ==
    ASSUME NEW r, NEW n, now \in Nat, Accrued(r, n), NEW u \in Account, NEW amount \in Nat,
           NEW owed \in Nat, burnLiquidatedAccepted(n, u, amount, owed)
    PROVE  NothingNew(n, burnLiquidated(n, u, amount, owed))
<1>1. STABLE \in RateMode /\ VARIABLE_RATE \in RateMode /\ STABLE # VARIABLE_RATE
    BY DEF RateMode, STABLE, VARIABLE_RATE
<1>2. CASE owed >= amount
  <2>1. burnLiquidated(n, u, amount, owed) = burnDebt(n, u, amount, VARIABLE_RATE)
    BY <1>2 DEF burnLiquidated
  <2>2. burnDebtAccepted(n, u, amount, VARIABLE_RATE)
    BY <1>2 DEF burnLiquidatedAccepted
  <2> QED BY <1>1, <2>1, <2>2, BurnTakesNothing
<1>3. CASE ~(owed >= amount)
  <2> DEFINE k == IF owed > 0 THEN burnDebt(n, u, owed, VARIABLE_RATE) ELSE n
             rest == amount - owed
             q == burnDebt(k, u, rest, STABLE)
  <2>1. burnLiquidated(n, u, amount, owed) = q
    BY <1>3 DEF burnLiquidated
  <2>2. /\ owed > 0 => burnDebtAccepted(n, u, owed, VARIABLE_RATE)
        /\ burnStableAccepted(n.stableDebt, u, rest, now)
    BY <1>3 DEF burnLiquidatedAccepted
  <2>3. rest \in Nat
    BY <1>3
  <2>4. n \in Reserve /\ ListedOK(n, now)
    BY AccruedFields
  <2>5. k.stableDebt = n.stableDebt
    BY <1>1, <2>4 DEF burnDebt, Reserve
  <2>6. Accrued(r, k)
    BY <1>1, <2>2, AccruedBurnDebt
  <2>7. NothingNew(n, k)
    BY <1>1, <2>2, <2>4, BurnTakesNothing, NothingChanges
  <2> HIDE DEF k, rest
  <2>8. burnDebtAccepted(k, u, rest, STABLE)
    BY <2>2, <2>5 DEF burnDebtAccepted
  <2>9. Accrued(r, q) /\ NothingNew(k, q)
    BY <1>1, <2>3, <2>6, <2>8, AccruedBurnDebt, BurnTakesNothing
  <2> HIDE DEF q
  <2>10. ListedOK(k, now) /\ ListedOK(q, now)
    BY <2>6, <2>9, AccruedFields
  <2>11. NothingNew(n, q)
    BY <2>4, <2>7, <2>9, <2>10, NothingNewAdds
  <2> QED BY <2>1, <2>11
<1> QED BY <1>2, <1>3

\* A stable debt burnt in full and minted again is the same debt.
LEMMA RewriteTakesNothing ==
    ASSUME NEW r, NEW n, now \in Nat, Accrued(r, n), NEW u \in Account,
           NEW debt \in Nat, debt = stableDebtBalanceOf(n, u, now), mintStableAccepted(debt)
    PROVE  LET q == mintDebt(burnDebt(n, u, debt, STABLE), u, debt, STABLE)
           IN  Accrued(r, q) /\ NothingNew(n, q)
<1> DEFINE k == burnDebt(n, u, debt, STABLE)
           q == mintDebt(k, u, debt, STABLE)
           s == burnStable(n.stableDebt, u, debt, now)
           t == mintStable(s, u, debt, n.currentStableBorrowRate, now)
<1>1. /\ n \in Reserve /\ ListedOK(n, now)
      /\ n.stableDebt \in StableToken /\ StablePast(n.stableDebt, now)
      /\ n.currentStableBorrowRate \in Nat /\ STABLE \in RateMode
    BY AccruedFields, ReserveFields DEF ListedOK, ReserveOK, RateMode
<1>2. burnStableAccepted(n.stableDebt, u, debt, now)
    BY DEF burnStableAccepted, stableDebtBalanceOf
<1>3. Accrued(r, k)
    BY <1>1, <1>2, AccruedBurnDebt DEF burnDebtAccepted
<1>4. Accrued(r, q)
    BY <1>1, <1>3, AccruedMintDebt DEF mintDebtAccepted
<1>5. /\ k.stableDebt = s /\ q.stableDebt = t
      /\ q.variableDebt = n.variableDebt /\ q.aToken = n.aToken
      /\ q.variableBorrowIndex = n.variableBorrowIndex
    BY <1>1 DEF burnDebt, mintDebt, Reserve
<1>6. s \in StableToken /\ StablePast(s, now)
    BY <1>1, <1>2, BurnStableType
<1>7. ASSUME NEW v \in Account
      PROVE  stableBalanceOf(t, v, now) = stableBalanceOf(n.stableDebt, v, now)
  <2>1. /\ stableBalanceOf(s, u, now) = stableBalanceOf(n.stableDebt, u, now) - debt
        /\ v # u => stableBalanceOf(s, v, now) = stableBalanceOf(n.stableDebt, v, now)
    BY <1>1, <1>2, BurnStableTakes
  <2>2. /\ stableBalanceOf(t, u, now) = stableBalanceOf(s, u, now) + debt
        /\ v # u => stableBalanceOf(t, v, now) = stableBalanceOf(s, v, now)
    BY <1>1, <1>6, MintStableAdds
  <2>3. stableBalanceOf(n.stableDebt, u, now) = debt
    BY DEF stableDebtBalanceOf
  <2> HIDE DEF s, t
  <2> QED BY <2>1, <2>2, <2>3
<1> HIDE DEF q, s, t, k
<1>8. getNormalizedDebt(q, now) = getNormalizedDebt(n, now)
  <2>1. getNormalizedDebt(n, now) = n.variableBorrowIndex
    BY CommittedIndex
  <2> QED BY <1>4, <1>5, <2>1, CommittedIndex
<1>9. NothingNew(n, q)
    BY <1>1, <1>5, <1>7, <1>8, ComparedTypes DEF NothingNew, NoNewDebt, stableDebtBalanceOf
<1> QED BY <1>4, <1>9 DEF q, k

-----------------------------------------------------------------------------
(* The operations *)

\* An operation on one reserve takes nothing new if what it makes of it does not.
LEMMA ReserveTakesNothing ==
    ASSUME IInv, NEW a \in reservesList, NEW n, setReserve(a, n),
           NothingNew(reserves[a], n)
    PROVE  TakesNothing
<1> SUFFICES ASSUME NEW b \in reservesList
             PROVE  NothingNew(reserves[b], reserves'[b])
    BY DEF TakesNothing
<1>1. /\ now \in Nat /\ ListedOK(reserves[b], now)
      /\ reserves'[a] = n /\ (b # a => reserves'[b] = reserves[b])
    BY InvFacts DEF setReserve
<1>2. CASE b = a
    BY <1>1, <1>2
<1>3. CASE b # a
    BY <1>1, <1>3, NothingChanges
<1> QED BY <1>2, <1>3

\* What leaves the reserves alone takes nothing.
LEMMA OthersTakeNothing ==
    ASSUME IInv, reserves' = reserves
    PROVE  TakesNothing
BY InvFacts, NothingChanges DEF TakesNothing

\* LendingPool.withdraw, by a user or by the treasury.
LEMMA WithdrawTakesNothing ==
    ASSUME IInv, NEW sender \in Account, NEW asset \in Asset, NEW amount \in Nat,
           NEW to \in Account, Withdraw(sender, asset, amount, to)
    PROVE  TakesNothing
<1> DEFINE r  == reserves[asset]
           w  == amountToWithdraw(sender, asset, amount)
           r1 == updateState(r, now)
           r2 == updateInterestRates(r1, 0, w, now)
           t  == burn(r2.aToken, sender, w, r2.liquidityIndex)
           r3 == withFunds(r2, r2.liquidity - w, t)
<1>1. /\ asset \in reservesList /\ updateStateAccepted(r, now)
      /\ updateInterestRatesAccepted(r1, 0, w)
      /\ burnAccepted(r1.aToken, sender, w, r1.liquidityIndex)
      /\ setReserve(asset, r3)
    BY DEF Withdraw, WithdrawAccepted, Listed, withFunds
<1> HIDE DEF r1, r2, t, r3
<1>2. ListedOK(r, now) /\ now \in Nat /\ 0 \in Nat
    BY <1>1, InvFacts DEF r
<1>3. w \in Nat
    BY <1>2, ReserveViews DEF amountToWithdraw
<1> HIDE DEF r, w
<1>4. Accrued(r, r1) /\ NothingNew(r, r1)
    BY <1>1, <1>2, AccruedUpdateState, UpdateStateTakesNothing DEF r1
<1>5. /\ Accrued(r, r2) /\ NothingNew(r1, r2)
      /\ r2.aToken = r1.aToken /\ r2.liquidity + 0 - w \in Nat
    BY <1>1, <1>2, <1>3, <1>4, AccruedUpdateInterestRates, RatesTakeNothing DEF r2
<1>6. r2.liquidityIndex = r1.liquidityIndex
    BY <1>1, <1>2, <1>3, <1>4, UpdateInterestRates DEF r2, Accrued
<1>7. /\ ListedOK(r1, now) /\ ListedOK(r2, now)
      /\ r2.aToken \in BalancedToken /\ r2.liquidity \in Nat
      /\ r2.liquidityIndex \in Nat \ {0}
    BY <1>4, <1>5, AccruedFields, ScalePositive
<1>8. t \in BalancedToken /\ deposits(t) <= deposits(r2.aToken)
    BY <1>1, <1>3, <1>5, <1>6, <1>7, AccruedFields, TokenOperationsType, ATokenBurnTakes DEF t
<1>9. r2.liquidity - w \in Nat
    BY <1>3, <1>5, <1>7
<1>10. Accrued(r, r3) /\ NothingNew(r2, r3)
    BY <1>2, <1>5, <1>7, <1>8, <1>9, AccruedMoveFunds, FundsTakeNothing DEF r3
<1>11. NothingNew(r, r3)
  <2>1. ListedOK(r3, now)
    BY <1>10, AccruedFields
  <2>2. NothingNew(r, r2)
    BY <1>2, <1>4, <1>5, <1>7, NothingNewAdds
  <2> QED BY <1>2, <1>7, <1>10, <2>1, <2>2, NothingNewAdds
<1> QED BY <1>1, <1>11, ReserveTakesNothing DEF r

\* AToken.transfer, by anybody but the treasury.
LEMMA TransferTakesNothing ==
    ASSUME IInv, NEW sender \in Account \ {Treasury}, NEW asset \in Asset,
           NEW recipient \in Account, NEW amount \in Nat,
           Transfer(sender, asset, recipient, amount)
    PROVE  TakesNothing
<1> DEFINE r      == reserves[asset]
           scaled == rayDiv(amount, getNormalizedIncome(r, now))
           t      == transferScaled(r.aToken, sender, recipient, scaled)
           n      == withFunds(r, r.liquidity, t)
<1>1. /\ asset \in reservesList
      /\ transferScaledAccepted(r.aToken, sender, scaled)
      /\ setReserve(asset, [r EXCEPT !.aToken = t])
    BY DEF Transfer, Listed
<1>2. ListedOK(r, now) /\ now \in Nat /\ r \in Reserve
    BY <1>1, InvFacts DEF r, ListedOK, ReserveOK
<1>3. [r EXCEPT !.aToken = t] = n
    BY <1>2 DEF withFunds, Reserve
<1>4. getNormalizedIncome(r, now) \in Nat \ {0} /\ r.liquidity \in Nat
      /\ r.aToken \in BalancedToken
    BY <1>2, NormalizedIndexes, ReserveFields, ReserveBooks, ScalePositive
<1>5. scaled \in Nat
    BY <1>4, RoundedInNat
<1> HIDE DEF r, scaled
<1>6. t \in BalancedToken /\ deposits(t) <= deposits(r.aToken)
    BY <1>1, <1>4, <1>5, ScaledTokenType, ATokenTransferTakes
<1> HIDE DEF t
<1>7. NothingNew(r, n)
    BY <1>2, <1>4, <1>6, FundsTakeNothing
<1> HIDE DEF n
<1> QED BY <1>1, <1>3, <1>7, ReserveTakesNothing DEF r

\* LendingPool.repay.
LEMMA RepayTakesNothing ==
    ASSUME IInv, NEW sender \in Account, NEW asset \in Asset, NEW amount \in Nat,
           NEW m \in RateMode, NEW onBehalfOf \in Account,
           Repay(sender, asset, amount, m, onBehalfOf)
    PROVE  TakesNothing
<1> DEFINE r  == reserves[asset]
           p  == paybackAmount(asset, amount, m, onBehalfOf)
           r1 == updateState(r, now)
           r2 == burnDebt(r1, onBehalfOf, p, m)
           r3 == updateInterestRates(r2, p, 0, now)
           r4 == [r3 EXCEPT !.liquidity = @ + p]
           n  == withFunds(r3, r3.liquidity + p, r3.aToken)
<1>1. /\ asset \in reservesList
      /\ updateStateAccepted(r, now)
      /\ burnDebtAccepted(r1, onBehalfOf, p, m)
      /\ updateInterestRatesAccepted(r2, p, 0)
      /\ setReserve(asset, r4)
    BY DEF Repay, RepayAccepted, Listed
<1> HIDE DEF p, r1, r2, r3, r4, n
<1>2. ListedOK(r, now) /\ now \in Nat /\ 0 \in Nat
    BY <1>1, InvFacts DEF r
<1> HIDE DEF r
<1>3. p \in Nat
  <2>1. debtOfMode(asset, onBehalfOf, m) \in Nat
    BY <1>1, DebtViews DEF RateMode
  <2> QED BY <2>1 DEF p, paybackAmount
<1>4. Accrued(r, r1) /\ NothingNew(r, r1)
    BY <1>1, <1>2, AccruedUpdateState, UpdateStateTakesNothing DEF r1
<1>5. Accrued(r, r2) /\ NothingNew(r1, r2)
    BY <1>1, <1>2, <1>3, <1>4, AccruedBurnDebt, BurnTakesNothing DEF r2
<1>6. Accrued(r, r3) /\ NothingNew(r2, r3)
    BY <1>1, <1>2, <1>3, <1>5, AccruedUpdateInterestRates, RatesTakeNothing DEF r3
<1>7. /\ r3 \in Reserve /\ r3.aToken \in BalancedToken /\ r3.liquidity + p \in Nat
      /\ deposits(r3.aToken) <= deposits(r3.aToken)
  <2>1. /\ r3 \in Reserve /\ r3.liquidity \in Nat /\ r3.aToken \in BalancedToken
        /\ ListedOK(r3, now)
    BY <1>6, AccruedFields
  <2>2. deposits(r3.aToken) \in Int
    BY <1>2, <2>1, ComparedTypes
  <2> QED BY <1>3, <2>1, <2>2
<1>8. ListedOK(r1, now) /\ ListedOK(r2, now) /\ ListedOK(r3, now)
    BY <1>4, <1>5, <1>6, AccruedFields
<1>9. Accrued(r, n) /\ NothingNew(r3, n)
    BY <1>2, <1>6, <1>7, <1>8, AccruedMoveFunds, FundsTakeNothing DEF n
<1>10. n = r4
    BY <1>7 DEF withFunds, n, r4, Reserve
<1>11. NothingNew(r, n)
  <2>1. ListedOK(n, now)
    BY <1>9, AccruedFields
  <2>2. NothingNew(r, r2)
    BY <1>2, <1>4, <1>5, <1>8, NothingNewAdds
  <2>3. NothingNew(r, r3)
    BY <1>2, <1>6, <1>8, <2>2, NothingNewAdds
  <2> QED BY <1>2, <1>8, <1>9, <2>1, <2>3, NothingNewAdds
<1> QED BY <1>1, <1>10, <1>11, ReserveTakesNothing DEF r

\* LendingPool.rebalanceStableBorrowRate, which a frozen reserve does not refuse.
LEMMA RebalanceTakesNothing ==
    ASSUME IInv, NEW sender \in Account, NEW asset \in Asset, NEW user \in Account,
           RebalanceStableBorrowRate(sender, asset, user)
    PROVE  TakesNothing
<1> DEFINE r == reserves[asset]
           debt == stableDebtBalanceOf(r, user, now)
           r1 == updateState(r, now)
           r3 == mintDebt(burnDebt(r1, user, debt, STABLE), user, debt, STABLE)
           r4 == updateInterestRates(r3, 0, 0, now)
<1>1. /\ asset \in reservesList /\ updateStateAccepted(r, now)
      /\ mintStableAccepted(debt)
      /\ updateInterestRatesAccepted(r3, 0, 0)
      /\ setReserve(asset, r4)
    BY DEF RebalanceStableBorrowRate, Listed
<1> HIDE DEF r1, r3, r4
<1>2. ListedOK(r, now) /\ now \in Nat /\ 0 \in Nat
    BY <1>1, InvFacts DEF r
<1>3. debt \in Nat
    BY <1>2, ReserveViews
<1>4. Accrued(r, r1) /\ NothingNew(r, r1) /\ r1.stableDebt = r.stableDebt
    BY <1>1, <1>2, AccruedUpdateState, UpdateStateTakesNothing DEF r1
<1>5. debt = stableDebtBalanceOf(r1, user, now)
    BY <1>4 DEF stableDebtBalanceOf
<1> HIDE DEF r, debt
<1>6. Accrued(r, r3) /\ NothingNew(r1, r3)
    BY <1>1, <1>2, <1>3, <1>4, <1>5, RewriteTakesNothing DEF r3
<1>7. Accrued(r, r4) /\ NothingNew(r3, r4)
    BY <1>1, <1>2, <1>6, AccruedUpdateInterestRates, RatesTakeNothing DEF r4
<1>8. ListedOK(r1, now) /\ ListedOK(r3, now) /\ ListedOK(r4, now)
    BY <1>4, <1>6, <1>7, AccruedFields
<1>9. NothingNew(r, r4)
  <2>1. NothingNew(r, r3)
    BY <1>2, <1>4, <1>6, <1>8, NothingNewAdds
  <2> QED BY <1>2, <1>7, <1>8, <2>1, NothingNewAdds
<1> QED BY <1>1, <1>9, ReserveTakesNothing DEF r

-----------------------------------------------------------------------------
(* Liquidation *)

\* The reserves after some calls of an operation that take nothing new.
Later(rs) ==
    /\ rs \in [Asset -> Reserve]
    /\ \A a \in reservesList : ListedOK(rs[a], now) /\ NothingNew(reserves[a], rs[a])

\* One more call on one of the reserves.
LEMMA LaterChange ==
    ASSUME IInv, NEW rs, Later(rs), NEW a \in reservesList, NEW n, ListedOK(n, now),
           NothingNew(rs[a], n)
    PROVE  Later(withReserve(rs, a, n))
<1> DEFINE w == withReserve(rs, a, n)
<1>1. /\ rs \in [Asset -> Reserve] /\ a \in Asset /\ now \in Nat /\ n \in Reserve
      /\ reservesList \subseteq Asset
    BY InvFacts DEF Later, ListedOK, ReserveOK
<1>2. w \in [Asset -> Reserve] /\ w[a] = n /\ \A b \in Asset \ {a} : w[b] = rs[b]
    BY <1>1 DEF withReserve
<1>3. NothingNew(reserves[a], n)
    BY <1>1, InvFacts, NothingNewAdds DEF Later
<1> HIDE DEF w
<1>4. ASSUME NEW b \in reservesList
      PROVE  ListedOK(w[b], now) /\ NothingNew(reserves[b], w[b])
  <2>1. CASE b = a
    BY <1>2, <1>3, <2>1
  <2>2. CASE b # a
    BY <1>1, <1>2, <2>2 DEF Later
  <2> QED BY <2>1, <2>2
<1> QED BY <1>2, <1>4 DEF Later, w

\* The collateral that leaves, as aTokens or as funds.
LEMMA SeizureTakesNothing ==
    ASSUME IInv, NEW c, ListedOK(c, now), NEW liquidator \in Account,
           NEW user \in Account \ {Treasury}, NEW seized \in Nat, NEW asATokens \in BOOLEAN,
           seizureAccepted(c, user, seized, asATokens)
    PROVE  LET n == IF asATokens THEN seizeATokens(c, liquidator, user, seized)
                                 ELSE seizeFunds(c, user, seized)
           IN  ListedOK(n, now) /\ NothingNew(c, n)
<1> DEFINE n == IF asATokens THEN seizeATokens(c, liquidator, user, seized)
                             ELSE seizeFunds(c, user, seized)
<1>1. now \in Nat /\ 0 \in Nat /\ c \in Reserve
    BY InvFacts DEF ListedOK, ReserveOK
<1>2. ListedOK(n, now)
    BY SeizurePreserves DEF Continues
<1>3. CASE asATokens
  <2> DEFINE scaled == rayDiv(seized, getNormalizedIncome(c, now))
             t == transferScaled(c.aToken, user, liquidator, scaled)
             k == withFunds(c, c.liquidity, t)
  <2>1. /\ n = [c EXCEPT !.aToken = t] /\ transferScaledAccepted(c.aToken, user, scaled)
    BY <1>3 DEF seizeATokens, seizureAccepted
  <2>2. [c EXCEPT !.aToken = t] = k
    BY <1>1 DEF withFunds, Reserve
  <2>3. /\ getNormalizedIncome(c, now) \in Nat \ {0}
        /\ c.liquidity \in Nat /\ c.aToken \in BalancedToken
    BY <1>1, NormalizedIndexes, ReserveFields, ReserveBooks, ScalePositive
  <2>4. scaled \in Nat
    BY <2>3, RoundedInNat
  <2> HIDE DEF n, scaled
  <2>5. t \in BalancedToken /\ deposits(t) <= deposits(c.aToken)
    BY <2>1, <2>3, <2>4, ScaledTokenType, ATokenTransferTakes
  <2> HIDE DEF t
  <2>6. NothingNew(c, k)
    BY <1>1, <2>3, <2>5, FundsTakeNothing
  <2> HIDE DEF k
  <2>7. NothingNew(c, n)
    BY <2>1, <2>2, <2>6
  <2> QED BY <1>2, <2>7 DEF n
<1>4. CASE ~asATokens
  <2> DEFINE c1 == updateState(c, now)
             c2 == updateInterestRates(c1, 0, seized, now)
             t  == burn(c2.aToken, user, seized, c2.liquidityIndex)
             k  == withFunds(c2, c2.liquidity - seized, t)
  <2>1. /\ n = k
        /\ updateStateAccepted(c, now) /\ updateInterestRatesAccepted(c1, 0, seized)
        /\ burnAccepted(c1.aToken, user, seized, c1.liquidityIndex)
    BY <1>4 DEF seizeFunds, seizureAccepted, withFunds
  <2> HIDE DEF n, c1, c2, t, k
  <2>2. Accrued(c, c1) /\ NothingNew(c, c1)
    BY <1>1, <2>1, AccruedUpdateState, UpdateStateTakesNothing DEF c1
  <2>3. /\ Accrued(c, c2) /\ NothingNew(c1, c2)
        /\ c2.aToken = c1.aToken /\ c2.liquidity + 0 - seized \in Nat
    BY <1>1, <2>1, <2>2, AccruedUpdateInterestRates, RatesTakeNothing DEF c2
  <2>4. c2.liquidityIndex = c1.liquidityIndex
    BY <1>1, <2>1, <2>2, UpdateInterestRates DEF c2, Accrued
  <2>5. /\ ListedOK(c1, now) /\ ListedOK(c2, now)
        /\ c2.aToken \in BalancedToken /\ c2.liquidity \in Nat
        /\ c2.liquidityIndex \in Nat \ {0}
    BY <2>2, <2>3, AccruedFields, ScalePositive
  <2>6. t \in BalancedToken /\ deposits(t) <= deposits(c2.aToken)
    BY <2>1, <2>3, <2>4, <2>5, AccruedFields, TokenOperationsType, ATokenBurnTakes DEF t
  <2>7. c2.liquidity - seized \in Nat
    BY <2>3, <2>5
  <2>8. NothingNew(c2, k)
    BY <1>1, <2>5, <2>6, <2>7, FundsTakeNothing DEF k
  <2>9. NothingNew(c, n)
    <3>1. NothingNew(c, c2)
      BY <1>1, <2>2, <2>3, <2>5, NothingNewAdds
    <3> QED BY <1>1, <1>2, <2>1, <2>5, <2>8, <3>1, NothingNewAdds
  <2> QED BY <1>2, <2>9 DEF n
<1> QED BY <1>3, <1>4

\* LendingPoolCollateralManager.liquidationCall, for two reserves or one.
LEMMA LiquidationTakesNothing ==
    ASSUME IInv, NEW liquidator \in Account, NEW collateralAsset \in Asset,
           NEW debtAsset \in Asset, NEW user \in Account \ {Treasury}, NEW debtToCover \in Nat,
           NEW asATokens \in BOOLEAN,
           LiquidationCall(liquidator, collateralAsset, debtAsset, user, debtToCover, asATokens)
    PROVE  TakesNothing
<1> DEFINE terms == liquidationTerms(collateralAsset, debtAsset, user, debtToCover)
           d   == reserves[debtAsset]
           d1  == updateState(d, now)
           d2  == burnLiquidated(d1, user, terms.repaid, terms.variableDebt)
           d3  == updateInterestRates(d2, terms.repaid, 0, now)
           rs1 == withReserve(reserves, debtAsset, d3)
           c   == rs1[collateralAsset]
           c1  == IF asATokens THEN seizeATokens(c, liquidator, user, terms.seized)
                               ELSE seizeFunds(c, user, terms.seized)
           rs2 == withReserve(rs1, collateralAsset, c1)
           e   == rs2[debtAsset]
           n   == withFunds(e, e.liquidity + terms.repaid, e.aToken)
           rs3 == withReserve(rs2, debtAsset, n)
<1>1. /\ collateralAsset \in reservesList /\ debtAsset \in reservesList
      /\ reserves[collateralAsset].config.liquidationThreshold > 0
      /\ priceUsable(collateralAsset)
    BY DEF LiquidationCall, LiquidationAccepted, Listed, validateLiquidationCall
<1>2. /\ updateStateAccepted(d, now)
      /\ burnLiquidatedAccepted(d1, user, terms.repaid, terms.variableDebt)
      /\ updateInterestRatesAccepted(d2, terms.repaid, 0)
    BY DEF LiquidationCall, LiquidationAccepted, repaymentAccepted
<1>3. afterRepayment(debtAsset, user, terms) = rs1
    BY DEF afterRepayment, withReserve
<1>4. seizureAccepted(c, user, terms.seized, asATokens)
    BY <1>3 DEF LiquidationCall, LiquidationAccepted
<1>5. reserves' = [rs2 EXCEPT ![debtAsset].liquidity = @ + terms.repaid]
    BY <1>3 DEF LiquidationCall, withReserve
<1>6. terms.seized \in Nat /\ terms.repaid \in Nat /\ terms.variableDebt \in Nat
    BY <1>1, LiquidationTermsType
<1> HIDE DEF terms, d, d1, d2, d3, c1, rs1, rs2, rs3, c, e, n
<1>7. ListedOK(d, now) /\ now \in Nat /\ 0 \in Nat
    BY <1>1, InvFacts DEF d
<1>8. Accrued(d, d1) /\ NothingNew(d, d1)
    BY <1>2, <1>7, AccruedUpdateState, UpdateStateTakesNothing DEF d1
<1>9. Accrued(d, d2) /\ NothingNew(d1, d2)
    BY <1>2, <1>6, <1>7, <1>8, AccruedBurnLiquidated, LiquidationBurnTakesNothing DEF d2
<1>10. Accrued(d, d3) /\ NothingNew(d2, d3)
    BY <1>2, <1>6, <1>7, <1>9, AccruedUpdateInterestRates, RatesTakeNothing DEF d3
<1>11. ListedOK(d3, now) /\ NothingNew(d, d3)
  <2>1. ListedOK(d1, now) /\ ListedOK(d2, now) /\ ListedOK(d3, now)
    BY <1>8, <1>9, <1>10, AccruedFields
  <2>2. NothingNew(d, d2)
    BY <1>7, <1>8, <1>9, <2>1, NothingNewAdds
  <2> QED BY <1>7, <1>10, <2>1, <2>2, NothingNewAdds
<1>12. Later(reserves)
    BY InvFacts, NothingChanges DEF Later
<1>13. Later(rs1)
    BY <1>1, <1>11, <1>12, LaterChange DEF rs1, d
<1>14. ListedOK(c, now)
    BY <1>1, <1>13 DEF Later, c
<1>15. ListedOK(c1, now) /\ NothingNew(c, c1)
    BY <1>4, <1>6, <1>14, SeizureTakesNothing DEF c1
<1>16. Later(rs2)
    BY <1>1, <1>13, <1>15, LaterChange DEF rs2, c
<1>17. ListedOK(e, now) /\ e \in Reserve
    BY <1>1, <1>16 DEF Later, ListedOK, ReserveOK, e
<1>18. /\ e.liquidity + terms.repaid \in Nat /\ e.aToken \in BalancedToken
       /\ deposits(e.aToken) <= deposits(e.aToken)
  <2>1. e.liquidity \in Nat /\ e.aToken \in BalancedToken /\ deposits(e.aToken) \in Int
    BY <1>7, <1>17, ReserveFields, ReserveBooks, ComparedTypes
  <2> QED BY <1>6, <2>1
<1>19. ListedOK(n, now) /\ NothingNew(e, n)
    BY <1>7, <1>17, <1>18, MoveFunds, FundsTakeNothing DEF n
<1>20. Later(rs3)
    BY <1>1, <1>16, <1>19, LaterChange DEF rs3, e
<1>21. reserves' = rs3
  <2>1. rs2 \in [Asset -> Reserve]
    BY <1>16 DEF Later
  <2>2. n = [e EXCEPT !.liquidity = @ + terms.repaid]
    BY <1>17 DEF n, withFunds, Reserve
  <2> HIDE DEF n
  <2> QED BY <1>5, <2>1, <2>2 DEF rs3, withReserve, e
<1> QED BY <1>20, <1>21 DEF Later, TakesNothing

-----------------------------------------------------------------------------
(* Flash loans *)

\* The funds of a leg are lent.
LEMMA FlashLoanLendTakesNothing ==
    ASSUME IInv, FlashLoanLend
    PROVE  TakesNothing
<1> DEFINE asset  == currentLeg.asset
           amount == currentLeg.amount
           r == reserves[asset]
           n == withFunds(r, r.liquidity - amount, r.aToken)
<1>1. /\ flashLoans # <<>> /\ currentLoan.stage = LENDING
      /\ asset \in reservesList /\ amount <= r.liquidity
      /\ reserves' = [reserves EXCEPT ![asset].liquidity = @ - amount]
    BY DEF FlashLoanLend, inStage, Listed
<1>2. LENDING # CALLBACK
    BY DEF LENDING, CALLBACK
<1>3. asset \in Asset /\ amount \in Nat
  <2>1. currentLoan \in FlashLoanFrame /\ currentLoan.next \in 1 .. Len(currentLoan.legs)
    BY <1>1, <1>2, CurrentLoanOK DEF FrameOK
  <2>2. currentLeg \in FlashLoanLeg
    BY <1>1, <2>1, CurrentLoanOK DEF currentLeg
  <2> QED BY <2>2 DEF FlashLoanLeg
<1> HIDE DEF asset, amount
<1>4. ListedOK(r, now) /\ now \in Nat /\ r \in Reserve
    BY <1>1, InvFacts DEF ListedOK, ReserveOK
<1>5. /\ r.liquidity - amount \in Nat /\ r.aToken \in BalancedToken
      /\ deposits(r.aToken) <= deposits(r.aToken)
  <2>1. r.liquidity \in Nat /\ r.aToken \in BalancedToken /\ deposits(r.aToken) \in Int
    BY <1>4, ReserveFields, ReserveBooks, ComparedTypes
  <2> QED BY <1>1, <1>3, <2>1
<1>6. setReserve(asset, n)
  <2>1. n = [r EXCEPT !.liquidity = @ - amount]
    BY <1>4 DEF withFunds, Reserve
  <2> HIDE DEF n
  <2> QED BY <1>1, <1>3, <2>1, InvFacts DEF setReserve
<1> HIDE DEF r
<1>7. NothingNew(r, n)
    BY <1>4, <1>5, FundsTakeNothing
<1> HIDE DEF n
<1> QED BY <1>1, <1>6, <1>7, ReserveTakesNothing DEF r

\* The premium is earned by those who have deposits, and is no deposit.
LEMMA PayBackTakesNothing ==
    ASSUME IInv, NEW leg \in FlashLoanLeg, NEW receiver \in Account, leg.asset \in reservesList,
           payBack(leg, receiver)
    PROVE  TakesNothing
<1> DEFINE r   == reserves[leg.asset]
           premium == flashLoanPremium(leg.amount)
           due == leg.amount + premium
           r1  == updateState(r, now)
           total == aTokenTotalSupply(r1, now)
           r2  == cumulateToLiquidityIndex(r1, total, premium)
           r3  == updateInterestRates(r2, due, 0, now)
           r4  == [r3 EXCEPT !.liquidity = @ + due]
           n   == withFunds(r3, r3.liquidity + due, r3.aToken)
<1>1. /\ updateStateAccepted(r, now) /\ total # 0
      /\ updateInterestRatesAccepted(r2, due, 0)
      /\ setReserve(leg.asset, r4)
    BY DEF payBack
<1>2. premium \in Nat /\ due \in Nat
  <2>1. leg.amount \in Nat
    BY DEF FlashLoanLeg
  <2>2. leg.amount * FLASHLOAN_PREMIUM_TOTAL \in Nat
    BY <2>1, PoolConstantsAssumption
  <2>3. premium \in Nat
    BY <2>2, DivProp, ScalePositive DEF flashLoanPremium
  <2> HIDE DEF premium
  <2> QED BY <2>1, <2>3
<1> HIDE DEF r, premium, due, r1, total, r2, r3, r4, n
<1>3. ListedOK(r, now) /\ now \in Nat /\ 0 \in Nat
    BY InvFacts DEF r
<1>4. Accrued(r, r1) /\ NothingNew(r, r1) /\ ListedOK(r1, now) /\ r1 \in Reserve
    BY <1>1, <1>3, AccruedUpdateState, UpdateStateTakesNothing, AccruedFields DEF r1
<1>5. total \in Nat \ {0}
    BY <1>1, <1>3, <1>4, ReserveViews, TreasuryAssumption DEF total
<1>6. /\ ListedOK(r2, now) /\ r2.lastUpdateTimestamp = r1.lastUpdateTimestamp
      /\ r2.variableBorrowIndex = r1.variableBorrowIndex
      /\ r2.variableDebt = r1.variableDebt /\ r2.stableDebt = r1.stableDebt
    BY <1>2, <1>3, <1>4, <1>5, CumulateToLiquidityIndex DEF r2
<1>7. r2.aToken = r1.aToken
    BY <1>4 DEF r2, cumulateToLiquidityIndex, Reserve
<1>8. NothingNew(r1, r2)
  <2>1. getNormalizedDebt(r1, now) = r1.variableBorrowIndex
    BY <1>4, CommittedIndex
  <2>2. getNormalizedDebt(r2, now) = r2.variableBorrowIndex
    BY <1>4, <1>6 DEF Accrued, getNormalizedDebt
  <2> QED BY <1>3, <1>4, <1>6, <1>7, <2>1, <2>2, ComparedTypes, DebtsLeftAlone
<1>9. Accrued(r2, r2)
  <2>1. r2.lastUpdateTimestamp = now
    BY <1>4, <1>6 DEF Accrued
  <2>2. r2.liquidityIndex \in Nat /\ r2.variableBorrowIndex \in Nat
    BY <1>6, ReserveFields DEF ListedOK, ReserveOK
  <2> QED BY <1>6, <2>1, <2>2 DEF Accrued, getNormalizedIncome
<1>10. Accrued(r2, r3) /\ NothingNew(r2, r3)
    BY <1>1, <1>2, <1>3, <1>9, AccruedUpdateInterestRates, RatesTakeNothing DEF r3
<1>11. /\ r3 \in Reserve /\ r3.aToken \in BalancedToken /\ r3.liquidity + due \in Nat
       /\ ListedOK(r3, now) /\ deposits(r3.aToken) <= deposits(r3.aToken)
  <2>1. /\ r3 \in Reserve /\ r3.liquidity \in Nat /\ r3.aToken \in BalancedToken
        /\ ListedOK(r3, now)
    BY <1>10, AccruedFields
  <2>2. deposits(r3.aToken) \in Int
    BY <1>3, <2>1, ComparedTypes
  <2> QED BY <1>2, <2>1, <2>2
<1>12. ListedOK(n, now) /\ NothingNew(r3, n)
    BY <1>3, <1>11, MoveFunds, FundsTakeNothing DEF n
<1>13. n = r4
    BY <1>11 DEF withFunds, n, r4, Reserve
<1>14. NothingNew(r, n)
  <2>1. NothingNew(r, r2)
    BY <1>3, <1>4, <1>6, <1>8, NothingNewAdds
  <2>2. NothingNew(r, r3)
    BY <1>3, <1>6, <1>10, <1>11, <2>1, NothingNewAdds
  <2> QED BY <1>3, <1>11, <1>12, <2>2, NothingNewAdds
<1> QED BY <1>1, <1>13, <1>14, ReserveTakesNothing DEF r

-----------------------------------------------------------------------------
(* What a frozen reserve refuses *)

\* A reserve that is not frozen may take what it is given.
LEMMA NotFrozen ==
    ASSUME IInv, NEW a \in reservesList, NEW n, setReserve(a, n), ~reserves[a].config.frozen
    PROVE  FrozenStep
<1> SUFFICES ASSUME NEW b \in reservesList, reserves[b].config.frozen
             PROVE  NothingNew(reserves[b], reserves'[b])
    BY DEF FrozenStep
<1>1. reserves'[b] = reserves[b]
    BY InvFacts DEF setReserve
<1> QED BY <1>1, InvFacts, NothingChanges

\* LendingPool.deposit.
LEMMA DepositRefused ==
    ASSUME IInv, NEW sender, NEW asset, NEW amount, NEW onBehalfOf,
           Deposit(sender, asset, amount, onBehalfOf)
    PROVE  FrozenStep
<1>1. asset \in reservesList /\ ~reserves[asset].config.frozen
    BY DEF Deposit, Listed, validateDeposit
<1>2. \E n : setReserve(asset, n)
    BY DEF Deposit
<1> QED BY <1>1, <1>2, NotFrozen

\* _executeBorrow, called by borrow and at the end of a flash loan.
LEMMA ExecuteBorrowRefused ==
    ASSUME IInv, NEW asset \in reservesList, NEW user, NEW onBehalfOf, NEW amount, NEW m,
           NEW release, ExecuteBorrow(asset, user, onBehalfOf, amount, m, release)
    PROVE  FrozenStep
<1>1. ~reserves[asset].config.frozen
    BY DEF ExecuteBorrow, validateBorrow
<1>2. \E n : setReserve(asset, n)
    BY DEF ExecuteBorrow
<1> QED BY <1>1, <1>2, NotFrozen

\* LendingPool.swapBorrowRateMode, which could lower or raise the rate of the debt.
LEMMA SwapRefused ==
    ASSUME IInv, NEW sender, NEW asset, NEW m, SwapBorrowRateMode(sender, asset, m)
    PROVE  FrozenStep
<1>1. asset \in reservesList /\ ~reserves[asset].config.frozen
    BY DEF SwapBorrowRateMode, Listed, validateSwapRateMode
<1>2. \E n : setReserve(asset, n)
    BY DEF SwapBorrowRateMode
<1> QED BY <1>1, <1>2, NotFrozen

-----------------------------------------------------------------------------
(* The admins *)

\* A new configuration or strategy changes no index, rate or token.
LEMMA ReconfigureTakesNothing ==
    ASSUME IInv, NEW asset \in Asset, NEW c \in Configuration, NEW s \in Strategy \cup {NoStrategy},
           reserves' = [reserves EXCEPT ![asset] =
                           [reserves[asset] EXCEPT !.config = c, !.strategy = s]]
    PROVE  TakesNothing
<1> DEFINE r == reserves[asset]
           n == [r EXCEPT !.config = c, !.strategy = s]
<1>1. CASE asset \in reservesList
  <2>1. ListedOK(r, now) /\ r \in Reserve /\ now \in Nat
    BY <1>1, InvFacts
  <2>2. /\ n.variableBorrowIndex = r.variableBorrowIndex
        /\ n.currentVariableBorrowRate = r.currentVariableBorrowRate
        /\ n.lastUpdateTimestamp = r.lastUpdateTimestamp /\ n.aToken = r.aToken
        /\ n.variableDebt = r.variableDebt /\ n.stableDebt = r.stableDebt
    BY <2>1 DEF Reserve
  <2>3. reserves' = [reserves EXCEPT ![asset] = n]
    OBVIOUS
  <2> HIDE DEF r, n
  <2>4. getNormalizedDebt(n, now) = getNormalizedDebt(r, now)
    BY <2>2 DEF getNormalizedDebt
  <2>5. NothingNew(r, n)
    BY <2>1, <2>2, <2>4, ComparedTypes, DebtsLeftAlone
  <2> QED BY <1>1, <2>3, <2>5, ReserveTakesNothing DEF r, setReserve
<1>2. CASE asset \notin reservesList
  <2> SUFFICES ASSUME NEW b \in reservesList PROVE NothingNew(reserves[b], reserves'[b])
    BY DEF TakesNothing
  <2>1. reserves'[b] = reserves[b]
    BY <1>2, InvFacts
  <2> QED BY <2>1, InvFacts, NothingChanges
<1> QED BY <1>1, <1>2

\* The same for a change of the configuration alone.
LEMMA SetConfigurationTakesNothing ==
    ASSUME IInv, NEW asset \in Asset, NEW c \in Configuration, setConfiguration(asset, c)
    PROVE  TakesNothing
<1> DEFINE r == reserves[asset]
<1>1. r \in Reserve /\ reserves \in [Asset -> Reserve]
    BY InvFacts
<1>2. r.strategy \in Strategy \cup {NoStrategy}
    BY <1>1 DEF Reserve
<1>3. [r EXCEPT !.config = c] = [r EXCEPT !.config = c, !.strategy = r.strategy]
    BY <1>1 DEF Reserve
<1>4. reserves' = [reserves EXCEPT ![asset] = [r EXCEPT !.config = c]]
    BY <1>1 DEF setConfiguration
<1> QED BY <1>2, <1>3, <1>4, ReconfigureTakesNothing

\* Every step of the configurator.
LEMMA AdminTakesNothing ==
    ASSUME IInv, AdminStep
    PROVE  TakesNothing
<1>1. ASSUME NEW a \in Asset, NEW s \in Strategies, NEW n \in Units, InitReserve(a, s, n)
      PROVE  TakesNothing
  <2> SUFFICES ASSUME NEW b \in reservesList PROVE NothingNew(reserves[b], reserves'[b])
    BY DEF TakesNothing
  <2>1. b # a /\ \E q : setReserve(a, q)
    BY <1>1 DEF InitReserve, Listed
  <2>2. reserves'[b] = reserves[b]
    BY <2>1, InvFacts DEF setReserve
  <2> QED BY <2>2, InvFacts, NothingChanges
<1>2. ASSUME NEW a \in AdminAssets,
             \/ \E b \in BOOLEAN : EnableBorrowingOnReserve(a, b)
             \/ DisableBorrowingOnReserve(a)
             \/ \E p \in CollateralParams :
                  ConfigureReserveAsCollateral(a, p.ltv, p.liquidationThreshold,
                                               p.liquidationBonus)
             \/ EnableReserveStableRate(a)
             \/ DisableReserveStableRate(a)
             \/ ActivateReserve(a)
             \/ DeactivateReserve(a)
             \/ FreezeReserve(a)
             \/ UnfreezeReserve(a)
             \/ \E f \in ReserveFactors : SetReserveFactor(a, f)
      PROVE  TakesNothing
  <2> DEFINE r == reserves[a]
  <2>1. a \in Asset /\ r.config \in Configuration
    BY InputAssumption, InvFacts, ReserveFields
  <2>2. PICK c : c \in Configuration /\ setConfiguration(a, c)
    <3>1. ASSUME NEW c, c \in Configuration, setConfiguration(a, c)
          PROVE  \E d : d \in Configuration /\ setConfiguration(a, d)
      BY <3>1
    <3>2. ASSUME NEW b \in BOOLEAN, EnableBorrowingOnReserve(a, b)
          PROVE  \E d : d \in Configuration /\ setConfiguration(a, d)
      <4>1. [r.config EXCEPT !.borrowingEnabled = TRUE, !.stableRateBorrowingEnabled = b]
              \in Configuration
        BY <2>1 DEF Configuration
      <4> QED BY <3>2, <4>1 DEF EnableBorrowingOnReserve
    <3>3. ASSUME NEW p \in CollateralParams,
                 ConfigureReserveAsCollateral(a, p.ltv, p.liquidationThreshold,
                                              p.liquidationBonus)
          PROVE  \E d : d \in Configuration /\ setConfiguration(a, d)
      <4>1. /\ p.ltv \in Nat /\ p.liquidationThreshold \in Nat /\ p.liquidationBonus \in Nat
        BY InputAssumption
      <4>2. [r.config EXCEPT !.ltv = p.ltv, !.liquidationThreshold = p.liquidationThreshold,
                             !.liquidationBonus = p.liquidationBonus] \in Configuration
        BY <2>1, <4>1 DEF Configuration
      <4> QED BY <3>3, <4>2 DEF ConfigureReserveAsCollateral
    <3>4. ASSUME NEW f \in ReserveFactors, SetReserveFactor(a, f)
          PROVE  \E d : d \in Configuration /\ setConfiguration(a, d)
      <4>1. [r.config EXCEPT !.reserveFactor = f] \in Configuration
        BY <2>1, InputAssumption DEF Configuration
      <4> QED BY <3>4, <4>1 DEF SetReserveFactor
    <3>5. /\ [r.config EXCEPT !.borrowingEnabled = FALSE] \in Configuration
          /\ [r.config EXCEPT !.stableRateBorrowingEnabled = TRUE] \in Configuration
          /\ [r.config EXCEPT !.stableRateBorrowingEnabled = FALSE] \in Configuration
          /\ [r.config EXCEPT !.active = TRUE] \in Configuration
          /\ [r.config EXCEPT !.active = FALSE] \in Configuration
          /\ [r.config EXCEPT !.frozen = TRUE] \in Configuration
          /\ [r.config EXCEPT !.frozen = FALSE] \in Configuration
      BY <2>1 DEF Configuration
    <3> QED BY <1>2, <3>1, <3>2, <3>3, <3>4, <3>5
            DEF DisableBorrowingOnReserve, EnableReserveStableRate, DisableReserveStableRate,
                ActivateReserve, DeactivateReserve, FreezeReserve, UnfreezeReserve
  <2> QED BY <2>1, <2>2, SetConfigurationTakesNothing
<1>3. ASSUME NEW a \in AdminAssets, NEW s \in Strategies,
             SetReserveInterestRateStrategyAddress(a, s)
      PROVE  TakesNothing
  <2> DEFINE r == reserves[a]
  <2>1. a \in Asset /\ s \in Strategy \cup {NoStrategy}
    BY InputAssumption
  <2>2. r \in Reserve /\ reserves \in [Asset -> Reserve] /\ r.config \in Configuration
    BY <2>1, InvFacts, ReserveFields
  <2>3. [r EXCEPT !.strategy = s] = [r EXCEPT !.config = r.config, !.strategy = s]
    BY <2>2 DEF Reserve
  <2>4. reserves' = [reserves EXCEPT ![a] = [r EXCEPT !.strategy = s]]
    BY <1>3, <2>2 DEF SetReserveInterestRateStrategyAddress
  <2> QED BY <2>1, <2>2, <2>3, <2>4, ReconfigureTakesNothing
<1>4. ASSUME NEW b \in PauseValues, SetPoolPause(b)
      PROVE  TakesNothing
    BY <1>4, OthersTakeNothing DEF SetPoolPause
<1> QED BY <1>1, <1>2, <1>3, <1>4 DEF AdminStep

-----------------------------------------------------------------------------
(* Every step *)

\* A debt is opened, by a caller who receives the funds or by the initiator of a
\* flash loan, who keeps the leg that is being settled.
Settles(a, u, v, n) ==
    /\ flashLoans # <<>> /\ currentLoan.stage = SETTLING
    /\ currentLoan.initiator = u /\ currentLoan.onBehalfOf = v
    /\ currentLeg.asset = a /\ currentLeg.amount = n /\ currentLeg.mode # NONE

OpensDebt ==
    \E a \in reservesList, u \in Account, v \in Account, n \in Nat, m \in RateMode, f \in BOOLEAN :
        /\ ExecuteBorrow(a, u, v, n, m, f)
        /\ f \/ Settles(a, u, v, n)

\* The steps of users, and the withdrawals of the treasury, which is no user.
LEMMA UserStepKinds ==
    ASSUME IInv, Treasury \notin User, UserStep \/ TreasuryStep
    PROVE  TakesNothing \/ DepositStep \/ OpensDebt \/ SwapStep
<1>1. /\ User \subseteq Account \ {Treasury} /\ User \subseteq Account /\ Treasury \in Account
      /\ BorrowAmounts \subseteq Nat
      /\ WithdrawAmounts \subseteq Nat /\ RepayAmounts \subseteq Nat
      /\ TransferAmounts \subseteq Nat /\ LiquidationAmounts \subseteq Nat
    BY InputAssumption, TreasuryAssumption
<1>2. CASE TreasuryStep
    BY <1>1, <1>2, WithdrawTakesNothing DEF TreasuryStep
<1>3. CASE UserStep
  <2>1. CASE WithdrawStep
    BY <1>1, <2>1, WithdrawTakesNothing DEF WithdrawStep
  <2>2. CASE BorrowStep
    <3>1. PICK u \in User, v \in User, a \in Asset, n \in BorrowAmounts, m \in RateMode :
            Borrow(u, a, n, m, v)
      BY <2>2 DEF BorrowStep
    <3>2. a \in reservesList /\ ExecuteBorrow(a, u, v, n, m, TRUE)
      BY <3>1 DEF Borrow, Listed
    <3>3. u \in Account /\ v \in Account /\ n \in Nat
      BY <1>1
    <3> QED BY <3>2, <3>3 DEF OpensDebt
  <2>3. CASE RepayStep
    BY <1>1, <2>3, RepayTakesNothing DEF RepayStep
  <2>4. CASE RebalanceStep
    BY <1>1, <2>4, RebalanceTakesNothing DEF RebalanceStep
  <2>5. CASE CollateralStep
    BY <2>5, OthersTakeNothing DEF CollateralStep, SetUserUseReserveAsCollateral
  <2>6. CASE TransferStep
    BY <1>1, <2>6, TransferTakesNothing DEF TransferStep
  <2>7. CASE ApproveStep
    BY <2>7, OthersTakeNothing DEF ApproveStep, ApproveDelegation
  <2>8. CASE LiquidationStep
    BY <1>1, <2>8, LiquidationTakesNothing DEF LiquidationStep
  <2> QED BY <1>3, <2>1, <2>2, <2>3, <2>4, <2>5, <2>6, <2>7, <2>8 DEF UserStep
<1> QED BY <1>2, <1>3

\* The steps of a flash loan: the legs are lent, paid back, or kept as a debt.
LEMMA FlashLoanStepKinds ==
    ASSUME IInv, FlashLoanStep
    PROVE  TakesNothing \/ OpensDebt
<1>1. CASE FlashLoanBeginStep
    BY <1>1, OthersTakeNothing DEF FlashLoanBeginStep, FlashLoanBegin, poolVars
<1>2. CASE FlashLoanReturn
    BY <1>2, OthersTakeNothing DEF FlashLoanReturn, poolVars
<1>3. CASE FlashLoanSettle
  <2>1. /\ flashLoans # <<>> /\ currentLoan.stage = SETTLING
        /\ currentLeg.asset \in reservesList
        /\ IF currentLeg.mode = NONE
           THEN payBack(currentLeg, currentLoan.receiver)
           ELSE ExecuteBorrow(currentLeg.asset, currentLoan.initiator, currentLoan.onBehalfOf,
                              currentLeg.amount, currentLeg.mode, FALSE)
    BY <1>3 DEF FlashLoanSettle, keepAsDebt, inStage, Listed
  <2>2. SETTLING # CALLBACK
    BY DEF SETTLING, CALLBACK
  <2>3. currentLoan \in FlashLoanFrame /\ currentLoan.next \in 1 .. Len(currentLoan.legs)
    BY <2>1, <2>2, CurrentLoanOK DEF FrameOK
  <2>4. currentLeg \in FlashLoanLeg
    BY <2>1, <2>3, CurrentLoanOK DEF currentLeg
  <2>5. CASE currentLeg.mode = NONE
    <3>1. currentLoan.receiver \in Account
      BY <2>3 DEF FlashLoanFrame
    <3> QED BY <2>1, <2>4, <2>5, <3>1, PayBackTakesNothing
  <2>6. CASE currentLeg.mode # NONE
    <3>1. /\ currentLoan.initiator \in Account /\ currentLoan.onBehalfOf \in Account
          /\ currentLeg.amount \in Nat /\ currentLeg.mode \in RateMode /\ FALSE \in BOOLEAN
      BY <2>3, <2>4, <2>6 DEF FlashLoanFrame, FlashLoanLeg
    <3>2. Settles(currentLeg.asset, currentLoan.initiator, currentLoan.onBehalfOf,
                  currentLeg.amount)
      BY <2>1, <2>6 DEF Settles
    <3> QED BY <2>1, <2>6, <3>1, <3>2 DEF OpensDebt
  <2> QED BY <2>5, <2>6
<1> QED BY <1>1, <1>2, <1>3, FlashLoanLendTakesNothing DEF FlashLoanStep

\* Every step of the system.
LEMMA StepKinds ==
    ASSUME IInv, Treasury \notin User, [Next]_vars
    PROVE  TakesNothing \/ DepositStep \/ OpensDebt \/ SwapStep
<1>1. CASE Tick \/ PriceChange \/ UNCHANGED vars
    BY <1>1, OthersTakeNothing DEF Tick, PriceChange, vars, poolVars
<1> QED BY <1>1, UserStepKinds, FlashLoanStepKinds, AdminTakesNothing DEF Next

\* A frozen reserve refuses those that are left.
LEMMA StepFrozen ==
    ASSUME IInv, Treasury \notin User, [Next]_vars
    PROVE  FrozenStep
<1>1. CASE TakesNothing
    BY <1>1 DEF TakesNothing, FrozenStep
<1>2. CASE DepositStep
    BY <1>2, DepositRefused DEF DepositStep
<1>3. CASE OpensDebt
    BY <1>3, ExecuteBorrowRefused DEF OpensDebt
<1>4. CASE SwapStep
    BY <1>4, SwapRefused DEF SwapStep
<1> QED BY <1>1, <1>2, <1>3, <1>4, StepKinds

\* No reserve is ever dropped.
LEMMA ReservesStayListed ==
    ASSUME [Next]_vars
    PROVE  reservesList \subseteq reservesList'
<1>1. CASE Tick \/ PriceChange \/ UNCHANGED vars
    BY <1>1 DEF Tick, PriceChange, vars, poolVars
<1>2. CASE UserStep \/ TreasuryStep
  <2>1. CASE DepositStep
    BY <2>1 DEF DepositStep, Deposit
  <2>2. CASE WithdrawStep \/ TreasuryStep
    BY <2>2 DEF WithdrawStep, TreasuryStep, Withdraw
  <2>3. CASE BorrowStep
    BY <2>3 DEF BorrowStep, Borrow
  <2>4. CASE RepayStep
    BY <2>4 DEF RepayStep, Repay
  <2>5. CASE SwapStep
    BY <2>5 DEF SwapStep, SwapBorrowRateMode
  <2>6. CASE RebalanceStep
    BY <2>6 DEF RebalanceStep, RebalanceStableBorrowRate
  <2>7. CASE CollateralStep
    BY <2>7 DEF CollateralStep, SetUserUseReserveAsCollateral
  <2>8. CASE TransferStep
    BY <2>8 DEF TransferStep, Transfer
  <2>9. CASE ApproveStep
    BY <2>9 DEF ApproveStep, ApproveDelegation
  <2>10. CASE LiquidationStep
    BY <2>10 DEF LiquidationStep, LiquidationCall
  <2> QED BY <1>2, <2>1, <2>2, <2>3, <2>4, <2>5, <2>6, <2>7, <2>8, <2>9, <2>10 DEF UserStep
<1>3. CASE FlashLoanStep
    BY <1>3 DEF FlashLoanStep, FlashLoanBeginStep, FlashLoanBegin, FlashLoanLend,
                FlashLoanReturn, FlashLoanSettle, keepAsDebt, poolVars
<1>4. CASE AdminStep
  <2>1. ASSUME NEW a, NEW s, NEW n, InitReserve(a, s, n)
        PROVE  reservesList \subseteq reservesList'
    BY <2>1 DEF InitReserve
  <2>2. ASSUME NEW a, NEW c, setConfiguration(a, c)
        PROVE  reservesList \subseteq reservesList'
    BY <2>2 DEF setConfiguration
  <2>3. ASSUME NEW a, NEW s, SetReserveInterestRateStrategyAddress(a, s)
        PROVE  reservesList \subseteq reservesList'
    BY <2>3 DEF SetReserveInterestRateStrategyAddress
  <2>4. ASSUME NEW b, SetPoolPause(b)
        PROVE  reservesList \subseteq reservesList'
    BY <2>4 DEF SetPoolPause
  <2>5. ASSUME NEW a,
               \/ \E b \in BOOLEAN : EnableBorrowingOnReserve(a, b)
               \/ DisableBorrowingOnReserve(a)
               \/ \E p \in CollateralParams :
                    ConfigureReserveAsCollateral(a, p.ltv, p.liquidationThreshold,
                                                 p.liquidationBonus)
               \/ EnableReserveStableRate(a)
               \/ DisableReserveStableRate(a)
               \/ ActivateReserve(a)
               \/ DeactivateReserve(a)
               \/ FreezeReserve(a)
               \/ UnfreezeReserve(a)
               \/ \E f \in ReserveFactors : SetReserveFactor(a, f)
        PROVE  \E c : setConfiguration(a, c)
    BY <2>5 DEF EnableBorrowingOnReserve, DisableBorrowingOnReserve,
                ConfigureReserveAsCollateral, EnableReserveStableRate, DisableReserveStableRate,
                ActivateReserve, DeactivateReserve, FreezeReserve, UnfreezeReserve,
                SetReserveFactor
  <2> QED BY <1>4, <2>1, <2>2, <2>3, <2>4, <2>5 DEF AdminStep
<1> QED BY <1>1, <1>2, <1>3, <1>4 DEF Next

-----------------------------------------------------------------------------
(* What an account owes *)

\* Both its debts, as a record of the reserve shows them.
owed(r, u) == stableDebtBalanceOf(r, u, now) + variableDebtBalanceOf(r, u, now)

\* No part of a debt shown grows where there is no new debt.
LEMMA OwedNoMore ==
    ASSUME NEW r, NEW n, now \in Nat, ListedOK(r, now), ListedOK(n, now), NoNewDebt(r, n),
           NEW u \in Account
    PROVE  /\ owed(r, u) \in Nat /\ owed(n, u) \in Nat /\ owed(n, u) <= owed(r, u)
           /\ variableDebtBalanceOf(n, u, now) <= variableDebtBalanceOf(r, u, now)
           /\ stableDebtBalanceOf(n, u, now) <= stableDebtBalanceOf(r, u, now)
<1> DEFINE x == n.variableDebt.balance[u]
           y == r.variableDebt.balance[u]
           i == getNormalizedDebt(n, now)
           j == getNormalizedDebt(r, now)
<1>1. x \in Nat /\ y \in Nat /\ i \in Nat /\ j \in Nat /\ x <= y /\ i <= j
    BY ComparedTypes DEF NoNewDebt
<1>2. /\ variableDebtBalanceOf(n, u, now) = rayMul(x, i)
      /\ variableDebtBalanceOf(r, u, now) = rayMul(y, j)
    BY DEF variableDebtBalanceOf, balanceOf
<1> HIDE DEF x, y, i, j
<1>3. rayMul(x, i) <= rayMul(y, i) /\ rayMul(y, i) <= rayMul(y, j)
    BY <1>1, RayMulMonotone
<1>4. rayMul(x, i) \in Nat /\ rayMul(y, i) \in Nat /\ rayMul(y, j) \in Nat
    BY <1>1, RoundedInNat
<1>5. variableDebtBalanceOf(n, u, now) <= variableDebtBalanceOf(r, u, now)
    BY <1>2, <1>3, <1>4
<1>6. /\ stableDebtBalanceOf(n, u, now) \in Nat /\ stableDebtBalanceOf(r, u, now) \in Nat
      /\ variableDebtBalanceOf(n, u, now) \in Nat /\ variableDebtBalanceOf(r, u, now) \in Nat
    BY ReserveViews
<1>7. stableDebtBalanceOf(n, u, now) <= stableDebtBalanceOf(r, u, now)
    BY DEF NoNewDebt
<1> QED BY <1>5, <1>6, <1>7 DEF owed

\* What the records show is what the property says.
LEMMA NothingNewShown ==
    ASSUME IInv, IInv', FrozenStep, now' = now, reservesList \subseteq reservesList',
           NEW a \in reservesList, NEW u \in Account, reserves[a].config.frozen
    PROVE  /\ reserves'[a].variableDebt.balance[u] <= reserves[a].variableDebt.balance[u]
           /\ debtOf(a, u)' <= debtOf(a, u)
           /\ reserves'[a].aToken.supply - reserves'[a].aToken.balance[Treasury]
                <= reserves[a].aToken.supply - reserves[a].aToken.balance[Treasury]
<1> DEFINE r == reserves[a]
           n == reserves'[a]
<1>1. NothingNew(r, n)
    BY DEF FrozenStep
<1>2. now \in Nat /\ ListedOK(r, now) /\ a \in Asset
    BY InvFacts
<1>3. ListedOK(n, now)
    BY <1>2 DEF IInv, ReservesOK
<1>4. STABLE # VARIABLE_RATE
    BY DEF STABLE, VARIABLE_RATE
<1>5. /\ debtOf(a, u) = stableDebtBalanceOf(r, u, now) + variableDebtBalanceOf(r, u, now)
      /\ debtOf(a, u)' = stableDebtBalanceOf(n, u, now) + variableDebtBalanceOf(n, u, now)
    BY <1>4 DEF debtOf, debtOfMode
<1> HIDE DEF r, n
<1>6. owed(r, u) \in Nat /\ owed(n, u) \in Nat /\ owed(n, u) <= owed(r, u)
    BY <1>1, <1>2, <1>3, OwedNoMore DEF NothingNew
<1>7. /\ n.variableDebt.balance[u] <= r.variableDebt.balance[u]
      /\ deposits(n.aToken) <= deposits(r.aToken)
    BY <1>1 DEF NothingNew, NoNewDebt
<1>8. debtOf(a, u)' <= debtOf(a, u)
    BY <1>5, <1>6 DEF owed
<1> QED BY <1>7, <1>8 DEF deposits, r, n

\* A frozen reserve takes no deposits and no new debt: no operation of the pool, in
\* any order with others, inside or outside a flash loan, raises anybody's debt in it,
\* scaled or with interest, within a block, nor the deposits of others than the treasury.
\* The treasury is not among the users: it is a contract that only ever withdraws.
THEOREM FrozenTakesNothing ==
    ASSUME Treasury \notin User
    PROVE  Spec => FrozenReserveTakesNothingNew
<1> DEFINE Step ==
        \A a \in reservesList, u \in Account :
          reserves[a].config.frozen /\ now' = now =>
            /\ reserves'[a].variableDebt.balance[u] <= reserves[a].variableDebt.balance[u]
            /\ debtOf(a, u)' <= debtOf(a, u)
            /\ reserves'[a].aToken.supply - reserves'[a].aToken.balance[Treasury]
                 <= reserves[a].aToken.supply - reserves[a].aToken.balance[Treasury]
<1>1. IInv /\ IInv' /\ [Next]_vars => Step
  <2> SUFFICES ASSUME IInv, IInv', [Next]_vars, NEW a \in reservesList, NEW u \in Account,
                      reserves[a].config.frozen, now' = now
               PROVE  /\ reserves'[a].variableDebt.balance[u]
                           <= reserves[a].variableDebt.balance[u]
                      /\ debtOf(a, u)' <= debtOf(a, u)
                      /\ reserves'[a].aToken.supply - reserves'[a].aToken.balance[Treasury]
                           <= reserves[a].aToken.supply - reserves[a].aToken.balance[Treasury]
    OBVIOUS
  <2>1. FrozenStep /\ reservesList \subseteq reservesList'
    BY StepFrozen, ReservesStayListed
  <2> QED BY <2>1, NothingNewShown
<1> QED BY <1>1, InvariantHolds, PTL DEF Spec, FrozenReserveTakesNothingNew

-----------------------------------------------------------------------------
(* Debts that are opened *)

\* Half of what a scaled unit is worth is an amount.
LEMMA HalfUnitInNat ==
    ASSUME NEW i \in Nat
    PROVE  /\ i \div (2 * RAY) \in Nat /\ 2 * RAY \in Nat \ {0}
           /\ i < (2 * RAY) * (i \div (2 * RAY)) + 2 * RAY
<1> DEFINE d == 2 * RAY
<1>1. d \in Nat \ {0}
    BY ScalePositive
<1> HIDE DEF d
<1>2. i \div d \in Nat /\ i < d * (i \div d) + d
    BY <1>1, DivProp
<1> QED BY <1>1, <1>2 DEF d

\* A debt shown after a mint exceeds the one before by the amount, half of what a
\* scaled unit is worth, and one for the rounding of the views.
LEMMA MintedShown ==
    ASSUME NEW b \in Nat, NEW amount \in Nat, NEW i \in Nat \ {0}
    PROVE  rayMul(b + rayDiv(amount, i), i) <= rayMul(b, i) + amount + 1 + i \div (2 * RAY)
<1> DEFINE s == rayDiv(amount, i)
           x == rayMul(b, i)
           y == rayMul(b + s, i)
           h == RAY \div 2
           g == i \div 2
           k == i \div (2 * RAY)
<1>1. /\ s \in Nat /\ x \in Nat /\ y \in Nat /\ h \in Nat /\ g \in Nat /\ k \in Nat
      /\ RAY \in Nat \ {0} /\ 2 * g <= i
  <2>1. s \in Nat /\ RAY \in Nat \ {0} /\ h \in Nat /\ k \in Nat
    BY RoundedInNat, ScalePositive, HalfUnitInNat
  <2>2. g \in Nat /\ 2 * g <= i
    BY DivProp
  <2> HIDE DEF s
  <2>3. x \in Nat /\ y \in Nat
    <3>1. b + s \in Nat
      BY <2>1
    <3> QED BY <3>1, RoundedInNat
  <2> QED BY <2>1, <2>2, <2>3
<1>2. i * s <= amount * RAY + g
  <2>1. amount * RAY + g \in Nat
    BY <1>1
  <2> QED BY <2>1, DivProp DEF rayDiv
<1>3. b * i + h < RAY * x + RAY
  <2>1. b * i + h \in Nat
    BY <1>1
  <2> QED BY <1>1, <2>1, DivProp DEF rayMul
<1>4. RAY * y <= (b + s) * i + h
  <2>1. (b + s) * i + h \in Nat
    BY <1>1
  <2> QED BY <1>1, <2>1, DivProp DEF rayMul
<1>5. g < RAY * (k + 1)
  <2>2. i < (2 * RAY) * k + 2 * RAY
    BY HalfUnitInNat
  <2> HIDE DEF k, g
  <2>3. (2 * RAY) * k + 2 * RAY = 2 * (RAY * (k + 1)) /\ RAY * (k + 1) \in Nat
    BY <1>1
  <2> QED BY <1>1, <2>2, <2>3
<1> HIDE DEF s, x, y, h, g, k
<1>6. (b + s) * i = b * i + i * s /\ b * i \in Nat /\ i * s \in Nat
    BY <1>1
<1>7. RAY * y < RAY * x + RAY + amount * RAY + RAY * (k + 1)
  <2>1. /\ RAY * y \in Nat /\ RAY * x \in Nat /\ amount * RAY \in Nat /\ RAY * (k + 1) \in Nat
    BY <1>1
  <2> QED BY <1>1, <1>2, <1>3, <1>4, <1>5, <1>6, <2>1
<1>8. RAY * y < RAY * (x + amount + k + 2)
  <2>1. RAY * (x + amount + k + 2) = RAY * x + RAY + amount * RAY + RAY * (k + 1)
    BY <1>1
  <2> QED BY <1>7, <2>1
<1>9. y < x + amount + k + 2
  <2> DEFINE z == x + amount + k + 2
  <2>1. z \in Nat
    BY <1>1
  <2>2. CASE z <= y
    <3>1. z * RAY <= y * RAY /\ z * RAY \in Nat /\ y * RAY \in Nat
      BY <1>1, <2>1, <2>2, ProductMonotone
    <3>2. z * RAY = RAY * z /\ y * RAY = RAY * y
      BY <1>1, <2>1
    <3> QED BY <1>8, <3>1, <3>2
  <2> HIDE DEF z
  <2> QED BY <1>1, <2>1, <2>2 DEF z
<1>10. y <= x + amount + 1 + k
    BY <1>1, <1>9
<1> QED BY <1>10 DEF x, y, s, k

\* A mint adds the amount to what one account owes, and leaves the others.
LEMMA MintOwes ==
    ASSUME NEW r, NEW n, now \in Nat, Accrued(r, n), NEW u \in Account, NEW amount \in Nat,
           NEW m \in RateMode, mintDebtAccepted(n, amount, m)
    PROVE  LET q == mintDebt(n, u, amount, m)
           IN  /\ Accrued(r, q)
               /\ \A v \in Account \ {u} : owed(q, v) = owed(n, v)
               /\ owed(q, u) <= owed(n, u) + amount
                                  + IF m = STABLE THEN 0
                                    ELSE 1 + getNormalizedDebt(n, now) \div (2 * RAY)
<1> DEFINE q == mintDebt(n, u, amount, m)
           i == n.variableBorrowIndex
<1>1. /\ n \in Reserve /\ ListedOK(n, now) /\ i \in Nat \ {0}
      /\ n.stableDebt \in StableToken /\ StablePast(n.stableDebt, now)
      /\ n.currentStableBorrowRate \in Nat /\ n.variableDebt \in Token
      /\ n.variableDebt.balance \in [Account -> Nat]
    BY AccruedFields, ReserveFields, ReserveBooks, BalancedTokenFields, ScalePositive
       DEF ListedOK, ReserveOK
<1>2. Accrued(r, q) /\ getNormalizedDebt(n, now) = i /\ getNormalizedDebt(q, now) = i
  <2>1. Accrued(r, q) /\ q.variableBorrowIndex = i
    BY <1>1, AccruedMintDebt, MintDebt DEF Accrued
  <2> QED BY <2>1, CommittedIndex
<1>3. ListedOK(q, now)
    BY <1>2 DEF Accrued
<1>4. /\ \A v \in Account : /\ owed(n, v) = stableBalanceOf(n.stableDebt, v, now)
                                             + rayMul(n.variableDebt.balance[v], i)
                            /\ owed(q, v) = stableBalanceOf(q.stableDebt, v, now)
                                             + rayMul(q.variableDebt.balance[v], i)
    BY <1>2 DEF owed, stableDebtBalanceOf, variableDebtBalanceOf, balanceOf
<1>5. \A v \in Account : /\ stableBalanceOf(n.stableDebt, v, now) \in Nat
                         /\ rayMul(n.variableDebt.balance[v], i) \in Nat
    BY <1>1, StableViews, RoundedInNat
<1>6. CASE m = STABLE
  <2> DEFINE t == mintStable(n.stableDebt, u, amount, n.currentStableBorrowRate, now)
  <2>1. q.stableDebt = t /\ q.variableDebt = n.variableDebt
    BY <1>1, <1>6 DEF mintDebt, Reserve
  <2>2. /\ stableBalanceOf(t, u, now) = stableBalanceOf(n.stableDebt, u, now) + amount
        /\ \A v \in Account \ {u} :
              stableBalanceOf(t, v, now) = stableBalanceOf(n.stableDebt, v, now)
    BY <1>1, <1>6, MintStableAdds DEF mintDebtAccepted
  <2> HIDE DEF t, q, i
  <2> QED BY <1>2, <1>4, <1>5, <1>6, <2>1, <2>2 DEF q
<1>7. CASE m # STABLE
  <2> DEFINE b == n.variableDebt.balance
             s == rayDiv(amount, i)
  <2>1. q.stableDebt = n.stableDebt /\ q.variableDebt.balance = [b EXCEPT ![u] = @ + s]
    BY <1>1, <1>7 DEF mintDebt, mint, mintScaled, Reserve, Token
  <2> HIDE DEF q
  <2>2. /\ q.variableDebt.balance[u] = b[u] + s
        /\ \A v \in Account \ {u} : q.variableDebt.balance[v] = b[v]
    BY <1>1, <2>1
  <2>3. rayMul(b[u] + s, i) <= rayMul(b[u], i) + amount + 1 + i \div (2 * RAY)
    BY <1>1, MintedShown
  <2>4. rayMul(b[u] + s, i) \in Nat /\ i \div (2 * RAY) \in Nat
    <3>1. s \in Nat /\ b[u] \in Nat /\ i \in Nat
      BY <1>1, RoundedInNat
    <3> HIDE DEF s, b, i
    <3>2. b[u] + s \in Nat
      BY <3>1
    <3>3. rayMul(b[u] + s, i) \in Nat
      BY <3>1, <3>2, RoundedInNat
    <3> QED BY <3>1, <3>3, HalfUnitInNat
  <2> HIDE DEF i, b, s
  <2>5. \A v \in Account \ {u} : owed(q, v) = owed(n, v)
    BY <1>4, <2>1, <2>2 DEF b
  <2>6. owed(q, u) <= owed(n, u) + amount + (1 + i \div (2 * RAY))
    BY <1>4, <1>5, <2>1, <2>2, <2>3, <2>4 DEF b
  <2> QED BY <1>2, <1>7, <2>5, <2>6 DEF q
<1> QED BY <1>6, <1>7

\* What DebtIsAuthorised asks of what u owes to the reserve of a.
Accounted(a, increase, amount) == increase - debtRounding(a) <= amount

Authorised(a, u, increase) ==
    increase > debtRounding(a) =>
        \/ Accounted(a, increase, wallet'[a][u] - wallet[a][u])
        \/ keepsLeg(a, u) /\ Accounted(a, increase, currentLeg.amount)
        \/ \E v \in Account \ {u}, m \in RateMode :
             Accounted(a, increase, borrowAllowance[a][m][u][v] - borrowAllowance'[a][m][u][v])

AuthorisedStep ==
    now' = now =>
        \A a \in reservesList, u \in Account :
            Authorised(a, u, owed(reserves'[a], u) - owed(reserves[a], u))

\* The index that is shown of any reserve.
LEMMA ShownDebtIndex ==
    ASSUME NEW r, now \in Nat, ReserveOK(r, now)
    PROVE  getNormalizedDebt(r, now) \in Nat
<1>1. /\ r.variableBorrowIndex \in Nat /\ r.currentVariableBorrowRate \in Nat
      /\ r.lastUpdateTimestamp \in Nat /\ r.lastUpdateTimestamp <= now
    BY ReserveFields DEF ReserveOK
<1>2. calculateCompoundedInterest(r.currentVariableBorrowRate, r.lastUpdateTimestamp, now) \in Nat
    BY <1>1, CompoundedInterest
<1> QED BY <1>1, <1>2, RoundedInNat DEF getNormalizedDebt

\* A debt that grows by no more than a mint is rounded needs nobody's consent.
LEMMA WithinRounding ==
    ASSUME now \in Nat, NEW a, ReserveOK(reserves[a], now), NEW u, NEW x \in Nat, NEW y \in Nat,
           x <= y + 1
    PROVE  debtRounding(a) \in Nat \ {0} /\ Authorised(a, u, x - y)
<1>1. debtRounding(a) \in Nat \ {0}
  <2>1. getNormalizedDebt(reserves[a], now) \in Nat
    BY ShownDebtIndex
  <2>2. getNormalizedDebt(reserves[a], now) \div (2 * RAY) \in Nat
    BY <2>1, HalfUnitInNat
  <2> QED BY <2>2 DEF debtRounding, rounding
<1> HIDE DEF debtRounding
<1>2. ~(x - y > debtRounding(a))
    BY <1>1
<1> QED BY <1>1, <1>2 DEF Authorised

\* A debt that does not grow needs nobody's consent.
LEMMA NoIncrease ==
    ASSUME NEW r, NEW n, now \in Nat, ListedOK(r, now), ListedOK(n, now), NoNewDebt(r, n),
           NEW u \in Account, NEW a, ListedOK(reserves[a], now)
    PROVE  Authorised(a, u, owed(n, u) - owed(r, u))
<1>1. owed(r, u) \in Nat /\ owed(n, u) \in Nat /\ owed(n, u) <= owed(r, u)
    BY OwedNoMore
<1>2. owed(n, u) <= owed(r, u) + 1 /\ ReserveOK(reserves[a], now)
    BY <1>1 DEF ListedOK
<1> QED BY <1>1, <1>2, WithinRounding

\* The operations that make no debt.
LEMMA NoDebtIsAuthorised ==
    ASSUME IInv, IInv', now' = now, reservesList \subseteq reservesList', MakesNoDebt
    PROVE  AuthorisedStep
<1> SUFFICES ASSUME NEW a \in reservesList, NEW u \in Account
             PROVE  Authorised(a, u, owed(reserves'[a], u) - owed(reserves[a], u))
    BY DEF AuthorisedStep
<1>1. now \in Nat /\ ListedOK(reserves[a], now) /\ a \in Asset
    BY InvFacts
<1>2. ListedOK(reserves'[a], now)
    BY <1>1 DEF IInv, ReservesOK
<1>3. NoNewDebt(reserves[a], reserves'[a])
    BY DEF MakesNoDebt
<1> QED BY <1>1, <1>2, <1>3, NoIncrease

\* An operation on one reserve.
LEMMA ReserveAuthorised ==
    ASSUME IInv, NEW a \in reservesList, NEW n, setReserve(a, n),
           \A u \in Account : Authorised(a, u, owed(n, u) - owed(reserves[a], u))
    PROVE  AuthorisedStep
<1> SUFFICES ASSUME NEW b \in reservesList, NEW u \in Account
             PROVE  Authorised(b, u, owed(reserves'[b], u) - owed(reserves[b], u))
    BY DEF AuthorisedStep
<1>1. /\ now \in Nat /\ ListedOK(reserves[b], now)
      /\ reserves'[a] = n /\ (b # a => reserves'[b] = reserves[b])
    BY InvFacts DEF setReserve
<1>2. CASE b = a
    BY <1>1, <1>2
<1>3. CASE b # a
  <2>1. NoNewDebt(reserves[b], reserves[b])
    BY <1>1, NothingChanges DEF NothingNew
  <2> QED BY <1>1, <1>3, <2>1, NoIncrease
<1> QED BY <1>2, <1>3

\* LendingPool.deposit.
LEMMA DepositAuthorised ==
    ASSUME IInv, NEW sender \in Account, NEW asset \in Asset, NEW amount \in Nat,
           NEW onBehalfOf \in Account, Deposit(sender, asset, amount, onBehalfOf)
    PROVE  AuthorisedStep
<1> DEFINE r  == reserves[asset]
           r1 == updateState(r, now)
           r2 == updateInterestRates(r1, amount, 0, now)
           t  == mint(r2.aToken, onBehalfOf, amount, r2.liquidityIndex)
           r3 == withFunds(r2, r2.liquidity + amount, t)
<1>1. /\ asset \in reservesList /\ updateStateAccepted(r, now)
      /\ updateInterestRatesAccepted(r1, amount, 0)
      /\ setReserve(asset, r3)
    BY DEF Deposit, Listed, withFunds
<1> HIDE DEF r, r1, r2, t, r3
<1>2. ListedOK(r, now) /\ now \in Nat /\ 0 \in Nat
    BY <1>1, InvFacts DEF r
<1>3. Accrued(r, r1) /\ NothingNew(r, r1)
    BY <1>1, <1>2, AccruedUpdateState, UpdateStateTakesNothing DEF r1
<1>4. Accrued(r, r2) /\ NothingNew(r1, r2)
    BY <1>1, <1>2, <1>3, AccruedUpdateInterestRates, RatesTakeNothing DEF r2
<1>5. t \in BalancedToken /\ r2.liquidity + amount \in Nat
    BY <1>4, AccruedFields, TokenOperationsType DEF t
<1>6. Accrued(r, r3) /\ NoNewDebt(r2, r3)
    BY <1>2, <1>4, <1>5, AccruedFields, AccruedMoveFunds, FundsMakeNoDebt DEF r3
<1>7. ListedOK(r1, now) /\ ListedOK(r2, now) /\ ListedOK(r3, now)
    BY <1>3, <1>4, <1>6, AccruedFields
<1>8. ASSUME NEW u \in Account
      PROVE  Authorised(asset, u, owed(r3, u) - owed(r, u))
  <2>1. owed(r, u) \in Nat /\ owed(r1, u) \in Nat /\ owed(r1, u) <= owed(r, u)
    BY <1>2, <1>3, <1>7, OwedNoMore DEF NothingNew
  <2>2. owed(r2, u) \in Nat /\ owed(r2, u) <= owed(r1, u)
    BY <1>2, <1>4, <1>7, OwedNoMore DEF NothingNew
  <2>3. owed(r3, u) \in Nat /\ owed(r3, u) <= owed(r2, u)
    BY <1>2, <1>6, <1>7, OwedNoMore
  <2>4. owed(r3, u) <= owed(r, u) + 1
    BY <2>1, <2>2, <2>3
  <2>5. now \in Nat /\ ReserveOK(reserves[asset], now)
    BY <1>2 DEF r, ListedOK
  <2> QED BY <2>1, <2>3, <2>4, <2>5, WithinRounding
<1> QED BY <1>1, <1>8, ReserveAuthorised DEF r

\* _executeBorrow: whoever gets the debt gets the funds, keeps a leg of his own flash
\* loan, or gave the caller an allowance, which shrinks by the amount.
LEMMA BorrowAuthorised ==
    ASSUME IInv, NEW asset \in reservesList, NEW user \in Account, NEW onBehalfOf \in Account,
           NEW amount \in Nat, NEW m \in RateMode, NEW release \in BOOLEAN,
           ExecuteBorrow(asset, user, onBehalfOf, amount, m, release),
           release \/ Settles(asset, user, onBehalfOf, amount)
    PROVE  AuthorisedStep
<1> DEFINE r  == reserves[asset]
           f  == IF release THEN amount ELSE 0
           r1 == updateState(r, now)
           r2 == mintDebt(r1, onBehalfOf, amount, m)
           r3 == updateInterestRates(r2, 0, f, now)
           r4 == [r3 EXCEPT !.liquidity = @ - f]
           n  == withFunds(r3, r3.liquidity - f, r3.aToken)
<1>1. /\ updateStateAccepted(r, now)
      /\ mintDebtAccepted(r1, amount, m)
      /\ updateInterestRatesAccepted(r2, 0, f)
      /\ spendBorrowAllowance(asset, m, onBehalfOf, user, amount)
      /\ wallet' = [wallet EXCEPT ![asset][user] = @ + f]
      /\ setReserve(asset, r4) /\ amount # 0
    BY DEF ExecuteBorrow, payOut, validateBorrow
<1>2. f \in Nat /\ asset \in Asset
    BY InvFacts
<1> HIDE DEF r1, r2, r3, r4, n
<1>3. ListedOK(r, now) /\ now \in Nat /\ 0 \in Nat
    BY <1>1, InvFacts DEF r
<1> HIDE DEF r, f
<1>4. Accrued(r, r1) /\ NothingNew(r, r1)
    BY <1>1, <1>3, AccruedUpdateState, UpdateStateTakesNothing DEF r1
<1>5. /\ Accrued(r, r2)
      /\ \A v \in Account \ {onBehalfOf} : owed(r2, v) = owed(r1, v)
      /\ owed(r2, onBehalfOf) <= owed(r1, onBehalfOf) + amount
            + IF m = STABLE THEN 0 ELSE 1 + getNormalizedDebt(r1, now) \div (2 * RAY)
    BY <1>1, <1>3, <1>4, MintOwes DEF r2
<1>6. Accrued(r, r3) /\ NothingNew(r2, r3) /\ r3.liquidity + 0 - f \in Nat
    BY <1>1, <1>2, <1>3, <1>5, AccruedUpdateInterestRates, RatesTakeNothing DEF r3
<1>7. r3 \in Reserve /\ r3.liquidity \in Nat /\ r3.aToken \in BalancedToken
    BY <1>6, AccruedFields
<1>8. r3.liquidity - f \in Nat
    BY <1>2, <1>6, <1>7
<1>9. ListedOK(r1, now) /\ ListedOK(r2, now) /\ ListedOK(r3, now)
    BY <1>4, <1>5, <1>6, AccruedFields
<1>10. ListedOK(n, now) /\ NoNewDebt(r3, n)
    BY <1>3, <1>6, <1>7, <1>8, <1>9, AccruedFields, AccruedMoveFunds, FundsMakeNoDebt DEF n
<1>11. setReserve(asset, n)
    BY <1>1, <1>7 DEF withFunds, n, r4, Reserve
<1>12. ASSUME NEW u \in Account
       PROVE  /\ owed(r, u) \in Nat /\ owed(r1, u) \in Nat /\ owed(r1, u) <= owed(r, u)
              /\ owed(n, u) \in Nat /\ owed(r2, u) \in Nat /\ owed(n, u) <= owed(r2, u)
  <2>1. owed(r, u) \in Nat /\ owed(r1, u) \in Nat /\ owed(r1, u) <= owed(r, u)
    BY <1>3, <1>4, <1>9, OwedNoMore DEF NothingNew
  <2>2. owed(r2, u) \in Nat /\ owed(r3, u) \in Nat /\ owed(r3, u) <= owed(r2, u)
    BY <1>3, <1>6, <1>9, OwedNoMore DEF NothingNew
  <2>3. owed(n, u) \in Nat /\ owed(n, u) <= owed(r3, u)
    BY <1>3, <1>9, <1>10, OwedNoMore
  <2> QED BY <2>1, <2>2, <2>3
<1>13. ASSUME NEW u \in Account \ {onBehalfOf}
       PROVE  Authorised(asset, u, owed(n, u) - owed(r, u))
  <2>1. /\ owed(n, u) <= owed(r, u) + 1
        /\ owed(n, u) \in Nat /\ owed(r, u) \in Nat
    BY <1>5, <1>12
  <2>2. now \in Nat /\ ReserveOK(reserves[asset], now)
    BY <1>3 DEF r, ListedOK
  <2> QED BY <2>1, <2>2, WithinRounding
<1>14. /\ debtRounding(asset) \in Nat
       /\ owed(n, onBehalfOf) - owed(r, onBehalfOf) <= amount + debtRounding(asset)
  <2> DEFINE i1 == getNormalizedDebt(r1, now)
             i  == getNormalizedDebt(r, now)
             g1 == i1 \div (2 * RAY)
             g  == i \div (2 * RAY)
  <2>1. i1 \in Nat /\ i \in Nat /\ i1 <= i
    BY <1>3, <1>4, <1>9, ComparedTypes DEF NothingNew, NoNewDebt
  <2>2. debtRounding(asset) = 1 + g
    BY DEF debtRounding, rounding, r
  <2> HIDE DEF i1, i
  <2>3. g1 \in Nat /\ g \in Nat /\ g1 <= g
    BY <2>1, HalfUnitInNat, DivMonotone
  <2>4. owed(r2, onBehalfOf) <= owed(r1, onBehalfOf) + amount + IF m = STABLE THEN 0 ELSE 1 + g1
    BY <1>5 DEF i1
  <2> HIDE DEF g1, g
  <2> QED BY <1>12, <2>2, <2>3, <2>4
<1>15. Authorised(asset, onBehalfOf, owed(n, onBehalfOf) - owed(r, onBehalfOf))
  <2>1. CASE onBehalfOf = user /\ release
    <3>1. f = amount /\ wallet[asset][user] \in Nat
      BY <1>2, <2>1, InvFacts DEF f
    <3>2. wallet'[asset][user] = wallet[asset][user] + amount
      BY <1>1, <1>2, <3>1, InvFacts
    <3>3. Accounted(asset, owed(n, onBehalfOf) - owed(r, onBehalfOf),
                    wallet'[asset][onBehalfOf] - wallet[asset][onBehalfOf])
      BY <1>2, <1>12, <1>14, <2>1, <3>1, <3>2 DEF Accounted
    <3> QED BY <3>3 DEF Authorised
  <2>2. CASE onBehalfOf = user /\ ~release
    <3>1. Settles(asset, user, onBehalfOf, amount)
      BY <2>2
    <3>2. keepsLeg(asset, onBehalfOf) /\ currentLeg.amount = amount
      BY <2>2, <3>1 DEF keepsLeg, Settles
    <3>3. Accounted(asset, owed(n, onBehalfOf) - owed(r, onBehalfOf), currentLeg.amount)
      BY <1>12, <1>14, <3>2 DEF Accounted
    <3> QED BY <3>2, <3>3 DEF Authorised
  <2>3. CASE onBehalfOf # user
    <3> DEFINE before == borrowAllowance[asset][m][onBehalfOf][user]
               after  == borrowAllowance'[asset][m][onBehalfOf][user]
    <3>1. borrowAllowance \in [Asset -> [RateMode -> [Account -> [Account -> Nat]]]]
      BY InvFacts
    <3>2. borrowAllowance' = [borrowAllowance EXCEPT ![asset][m][onBehalfOf][user] = @ - amount]
      BY <1>1, <2>3 DEF spendBorrowAllowance
    <3>3. after = before - amount /\ before \in Nat
      BY <1>2, <3>1, <3>2
    <3> HIDE DEF before, after
    <3>4. Accounted(asset, owed(n, onBehalfOf) - owed(r, onBehalfOf), before - after)
      BY <1>12, <1>14, <3>3 DEF Accounted
    <3> QED BY <2>3, <3>4 DEF Authorised, before, after
  <2> QED BY <2>1, <2>2, <2>3
<1> QED BY <1>11, <1>13, <1>15, ReserveAuthorised DEF r

\* The burn of a whole debt of one mode takes all that it showed.
LEMMA BurnClears ==
    ASSUME NEW r, NEW n, now \in Nat, ListedOK(r, now), Accrued(r, n), NothingNew(r, n),
           n.variableDebt = r.variableDebt, n.stableDebt = r.stableDebt,
           n.variableBorrowIndex <= getNormalizedDebt(r, now),
           NEW u \in Account, NEW m \in RateMode, NEW debt \in Nat,
           debt = IF m = STABLE THEN stableDebtBalanceOf(r, u, now)
                                ELSE variableDebtBalanceOf(r, u, now),
           burnDebtAccepted(n, u, debt, m)
    PROVE  owed(burnDebt(n, u, debt, m), u) + debt <= owed(r, u)
<1> DEFINE q == burnDebt(n, u, debt, m)
<1>1. Accrued(r, q) /\ NothingNew(n, q)
    BY AccruedBurnDebt, BurnTakesNothing
<1>2. ListedOK(n, now) /\ ListedOK(q, now) /\ n.lastUpdateTimestamp = now
    BY <1>1 DEF Accrued
<1>3. /\ m = STABLE => q.stableDebt.balance[u] = 0
      /\ m # STABLE => q.variableDebt.balance[u] = 0
  <2>1. m = STABLE => debt = stableDebtBalanceOf(n, u, now)
    BY DEF stableDebtBalanceOf
  <2>2. m # STABLE => debt = rayMul(n.variableDebt.balance[u], getNormalizedDebt(r, now))
    BY DEF variableDebtBalanceOf, balanceOf
  <2>3. /\ n.variableBorrowIndex \in Nat /\ getNormalizedDebt(r, now) \in Nat
        /\ getNormalizedDebt(r, now) >= n.variableBorrowIndex
    BY AccruedFields, NormalizedIndexes
  <2> QED BY <1>2, <2>1, <2>2, <2>3, BurnDebt
<1> HIDE DEF q
<1>4. /\ variableDebtBalanceOf(q, u, now) \in Nat /\ variableDebtBalanceOf(r, u, now) \in Nat
      /\ stableDebtBalanceOf(q, u, now) \in Nat /\ stableDebtBalanceOf(r, u, now) \in Nat
    BY <1>2, ReserveViews
<1>5. /\ variableDebtBalanceOf(q, u, now) <= variableDebtBalanceOf(r, u, now)
      /\ stableDebtBalanceOf(q, u, now) <= stableDebtBalanceOf(r, u, now)
  <2>1. NothingNew(r, q)
    BY <1>1, <1>2, NothingNewAdds
  <2> QED BY <1>2, <2>1, OwedNoMore DEF NothingNew
<1>6. CASE m = STABLE
  <2>1. stableDebtBalanceOf(q, u, now) = 0
    BY <1>2, <1>3, <1>6, ReserveViews
  <2> QED BY <1>4, <1>5, <1>6, <2>1 DEF owed, q
<1>7. CASE m # STABLE
  <2>1. variableDebtBalanceOf(q, u, now) = 0
    BY <1>2, <1>3, <1>7, ReserveViews
  <2> QED BY <1>4, <1>5, <1>7, <2>1 DEF owed, q
<1> QED BY <1>6, <1>7

\* LendingPool.swapBorrowRateMode: what is minted in one mode was burnt in the other.
LEMMA SwapAuthorised ==
    ASSUME IInv, NEW sender \in Account, NEW asset \in Asset, NEW m \in RateMode,
           SwapBorrowRateMode(sender, asset, m)
    PROVE  AuthorisedStep
<1> DEFINE r  == reserves[asset]
           debt == IF m = STABLE THEN stableDebtBalanceOf(r, sender, now)
                                 ELSE variableDebtBalanceOf(r, sender, now)
           o  == otherMode(m)
           r1 == updateState(r, now)
           r2 == burnDebt(r1, sender, debt, m)
           r3 == mintDebt(r2, sender, debt, o)
           r4 == updateInterestRates(r3, 0, 0, now)
<1>1. /\ asset \in reservesList /\ updateStateAccepted(r, now)
      /\ burnDebtAccepted(r1, sender, debt, m)
      /\ mintDebtAccepted(r2, debt, o)
      /\ updateInterestRatesAccepted(r3, 0, 0)
      /\ setReserve(asset, r4)
    BY DEF SwapBorrowRateMode, Listed
<1>2. o \in RateMode
    BY DEF otherMode, RateMode
<1> HIDE DEF r1, r2, r3, r4, o
<1>3. ListedOK(r, now) /\ now \in Nat /\ 0 \in Nat
    BY <1>1, InvFacts DEF r
<1> HIDE DEF r
<1>4. debt \in Nat
    BY <1>3, ReserveViews
<1>5. /\ Accrued(r, r1) /\ NothingNew(r, r1)
      /\ r1.variableDebt = r.variableDebt /\ r1.stableDebt = r.stableDebt
      /\ r1.variableBorrowIndex <= getNormalizedDebt(r, now)
    BY <1>1, <1>3, AccruedUpdateState, UpdateStateTakesNothing DEF r1
<1>6. owed(r2, sender) + debt <= owed(r, sender)
    BY <1>1, <1>3, <1>4, <1>5, BurnClears DEF r2
<1> HIDE DEF debt
<1>7. Accrued(r, r2) /\ NothingNew(r1, r2)
    BY <1>1, <1>3, <1>4, <1>5, AccruedBurnDebt, BurnTakesNothing DEF r2
<1>8. /\ Accrued(r, r3)
      /\ \A v \in Account \ {sender} : owed(r3, v) = owed(r2, v)
      /\ owed(r3, sender) <= owed(r2, sender) + debt
            + IF o = STABLE THEN 0 ELSE 1 + getNormalizedDebt(r2, now) \div (2 * RAY)
    BY <1>1, <1>2, <1>3, <1>4, <1>7, MintOwes DEF r3
<1>9. Accrued(r, r4) /\ NothingNew(r3, r4)
    BY <1>1, <1>3, <1>8, AccruedUpdateInterestRates, RatesTakeNothing DEF r4
<1>10. ListedOK(r1, now) /\ ListedOK(r2, now) /\ ListedOK(r3, now) /\ ListedOK(r4, now)
    BY <1>5, <1>7, <1>8, <1>9, AccruedFields
<1>11. NothingNew(r, r2)
    BY <1>3, <1>5, <1>7, <1>10, NothingNewAdds
<1>12. ASSUME NEW u \in Account
       PROVE  /\ owed(r, u) \in Nat /\ owed(r2, u) \in Nat /\ owed(r2, u) <= owed(r, u)
              /\ owed(r4, u) \in Nat /\ owed(r3, u) \in Nat /\ owed(r4, u) <= owed(r3, u)
  <2>1. owed(r, u) \in Nat /\ owed(r2, u) \in Nat /\ owed(r2, u) <= owed(r, u)
    BY <1>3, <1>10, <1>11, OwedNoMore DEF NothingNew
  <2>2. owed(r3, u) \in Nat /\ owed(r4, u) \in Nat /\ owed(r4, u) <= owed(r3, u)
    BY <1>3, <1>9, <1>10, OwedNoMore DEF NothingNew
  <2> QED BY <2>1, <2>2
<1>13. ASSUME NEW u \in Account \ {sender}
       PROVE  Authorised(asset, u, owed(r4, u) - owed(r, u))
  <2>1. /\ owed(r4, u) <= owed(r, u) + 1
        /\ owed(r4, u) \in Nat /\ owed(r, u) \in Nat
    BY <1>8, <1>12
  <2>2. now \in Nat /\ ReserveOK(reserves[asset], now)
    BY <1>3 DEF r, ListedOK
  <2> QED BY <2>1, <2>2, WithinRounding
<1>14. Authorised(asset, sender, owed(r4, sender) - owed(r, sender))
  <2> DEFINE i2 == getNormalizedDebt(r2, now)
             i  == getNormalizedDebt(r, now)
             g2 == i2 \div (2 * RAY)
             g  == i \div (2 * RAY)
  <2>1. i2 \in Nat /\ i \in Nat /\ i2 <= i
    BY <1>3, <1>10, <1>11, ComparedTypes DEF NothingNew, NoNewDebt
  <2>2. debtRounding(asset) = 1 + g
    BY DEF debtRounding, rounding, r
  <2> HIDE DEF i2, i
  <2>3. g2 \in Nat /\ g \in Nat /\ g2 <= g
    BY <2>1, HalfUnitInNat, DivMonotone
  <2>4. owed(r3, sender) <= owed(r2, sender) + debt + IF o = STABLE THEN 0 ELSE 1 + g2
    BY <1>8 DEF i2
  <2> HIDE DEF g2, g
  <2>5. ~(owed(r4, sender) - owed(r, sender) > debtRounding(asset))
    BY <1>4, <1>6, <1>12, <2>2, <2>3, <2>4
  <2> QED BY <2>5 DEF Authorised
<1> QED BY <1>1, <1>13, <1>14, ReserveAuthorised DEF r

\* Every step of the system.
LEMMA StepAuthorised ==
    ASSUME IInv, IInv', Treasury \notin User, [Next]_vars, now' = now
    PROVE  AuthorisedStep
<1>1. reservesList \subseteq reservesList'
    BY ReservesStayListed
<1>2. User \subseteq Account /\ DepositAmounts \subseteq Nat
    BY InputAssumption, TreasuryAssumption
<1>3. CASE TakesNothing
  <2>1. MakesNoDebt
    BY <1>3 DEF TakesNothing, MakesNoDebt, NothingNew
  <2> QED BY <1>1, <2>1, NoDebtIsAuthorised
<1>4. CASE DepositStep
    BY <1>2, <1>4, DepositAuthorised DEF DepositStep
<1>5. CASE OpensDebt
    BY <1>5, BorrowAuthorised DEF OpensDebt
<1>6. CASE SwapStep
    BY <1>2, <1>6, SwapAuthorised DEF SwapStep
<1> QED BY <1>3, <1>4, <1>5, <1>6, StepKinds

-----------------------------------------------------------------------------
(* Reserves that are not listed *)

\* They have no debtors.
UnlistedOwedNothing == \A a \in Asset \ reservesList, u \in Account : NoDebt(reserves[a], u)

Untouched ==
    \A a \in Asset \ reservesList : /\ reserves'[a].variableDebt = reserves[a].variableDebt
                                    /\ reserves'[a].stableDebt = reserves[a].stableDebt

\* An operation on a listed reserve.
LEMMA ListedTouched ==
    ASSUME IInv, \E x \in reservesList : \E n : setReserve(x, n)
    PROVE  Untouched
<1>1. reserves \in [Asset -> Reserve] /\ reservesList \subseteq Asset
    BY InvFacts
<1> QED BY <1>1 DEF setReserve, Untouched

\* No user touches a reserve that is not listed ...
LEMMA UsersTouchListed ==
    ASSUME IInv, UserStep \/ TreasuryStep
    PROVE  Untouched
<1>1. ASSUME NEW x \in reservesList, NEW n, setReserve(x, n)
      PROVE  Untouched
    BY <1>1, ListedTouched
<1>2. CASE DepositStep
    BY <1>1, <1>2 DEF DepositStep, Deposit, Listed
<1>3. CASE WithdrawStep \/ TreasuryStep
  <2>1. PICK u, a, n, v : Withdraw(u, a, n, v)
    BY <1>3 DEF WithdrawStep, TreasuryStep
  <2>2. a \in reservesList /\ \E x : setReserve(a, x)
    BY <2>1 DEF Withdraw, WithdrawAccepted, Listed
  <2> QED BY <1>1, <2>2
<1>4. CASE BorrowStep
    BY <1>1, <1>4 DEF BorrowStep, Borrow, ExecuteBorrow, Listed
<1>5. CASE RepayStep
    BY <1>1, <1>5 DEF RepayStep, Repay, RepayAccepted, Listed
<1>6. CASE SwapStep
    BY <1>1, <1>6 DEF SwapStep, SwapBorrowRateMode, Listed
<1>7. CASE RebalanceStep
    BY <1>1, <1>7 DEF RebalanceStep, RebalanceStableBorrowRate, Listed
<1>8. CASE CollateralStep \/ ApproveStep
    BY <1>8 DEF CollateralStep, SetUserUseReserveAsCollateral, ApproveStep, ApproveDelegation,
                Untouched
<1>9. CASE TransferStep
    BY <1>1, <1>9 DEF TransferStep, Transfer, Listed
<1>10. CASE LiquidationStep
  <2>1. PICK c \in reservesList, d \in reservesList :
          \E x, y, z : reserves' = [[[reserves EXCEPT ![d] = x] EXCEPT ![c] = y] EXCEPT ![d] = z]
    <3>1. PICK l, c, d, u, n, b : LiquidationCall(l, c, d, u, n, b)
      BY <1>10 DEF LiquidationStep
    <3> DEFINE terms == liquidationTerms(c, d, u, n)
               d1 == updateState(reserves[d], now)
               d2 == burnLiquidated(d1, u, terms.repaid, terms.variableDebt)
               d3 == updateInterestRates(d2, terms.repaid, 0, now)
               rs1 == [reserves EXCEPT ![d] = d3]
               c1 == IF b THEN seizeATokens(rs1[c], l, u, terms.seized)
                          ELSE seizeFunds(rs1[c], u, terms.seized)
               rs2 == [rs1 EXCEPT ![c] = c1]
               e == [rs2[d] EXCEPT !.liquidity = @ + terms.repaid]
    <3>2. c \in reservesList /\ d \in reservesList
      BY <3>1 DEF LiquidationCall, LiquidationAccepted, Listed
    <3>3. reserves' = [rs2 EXCEPT ![d] = e]
      BY <3>1 DEF LiquidationCall, afterRepayment
    <3> HIDE DEF terms, d1, d2, d3, c1, e
    <3> QED BY <3>2, <3>3
  <2>2. reserves \in [Asset -> Reserve] /\ reservesList \subseteq Asset
    BY InvFacts
  <2> QED BY <2>1, <2>2 DEF Untouched
<1> QED BY <1>2, <1>3, <1>4, <1>5, <1>6, <1>7, <1>8, <1>9, <1>10 DEF UserStep

\* ... no flash loan does, and an admin writes its configuration, indexes and strategy.
LEMMA StepTouchesListed ==
    ASSUME IInv, [Next]_vars
    PROVE  Untouched
<1>1. ASSUME NEW x \in reservesList, NEW n, setReserve(x, n)
      PROVE  Untouched
    BY <1>1, ListedTouched
<1>2. reserves \in [Asset -> Reserve]
    BY InvFacts
<1>3. CASE Tick \/ PriceChange \/ UNCHANGED vars
    BY <1>3 DEF Tick, PriceChange, vars, poolVars, Untouched
<1>4. CASE FlashLoanStep
  <2>1. CASE FlashLoanBeginStep \/ FlashLoanReturn
    BY <2>1 DEF FlashLoanBeginStep, FlashLoanBegin, FlashLoanReturn, poolVars, Untouched
  <2>2. CASE FlashLoanLend
    BY <1>2, <2>2 DEF FlashLoanLend, Listed, Untouched
  <2>3. CASE FlashLoanSettle
    BY <1>1, <2>3 DEF FlashLoanSettle, keepAsDebt, payBack, ExecuteBorrow, Listed
  <2> QED BY <1>4, <2>1, <2>2, <2>3 DEF FlashLoanStep
<1>5. CASE AdminStep
  <2>1. ASSUME NEW a \in Asset, NEW n, reserves' = [reserves EXCEPT ![a] = n],
               n.variableDebt = reserves[a].variableDebt, n.stableDebt = reserves[a].stableDebt
        PROVE  Untouched
    BY <1>2, <2>1 DEF Untouched
  <2>2. ASSUME NEW a \in Asset, NEW s, NEW unit, InitReserve(a, s, unit)
        PROVE  Untouched
    <3> DEFINE n == [initReserve(reserves[a], s) EXCEPT
                        !.config = [@ EXCEPT !.unit = unit, !.active = TRUE, !.frozen = FALSE]]
    <3>1. reserves' = [reserves EXCEPT ![a] = n]
      BY <2>2 DEF InitReserve, setReserve
    <3>2. /\ n.variableDebt = reserves[a].variableDebt
          /\ n.stableDebt = reserves[a].stableDebt
      BY <1>2 DEF initReserve, Reserve
    <3> HIDE DEF n
    <3> QED BY <2>1, <3>1, <3>2
  <2>3. ASSUME NEW a \in Asset, NEW c, setConfiguration(a, c)
        PROVE  Untouched
    <3> DEFINE n == [reserves[a] EXCEPT !.config = c]
    <3>1. reserves' = [reserves EXCEPT ![a] = n]
      BY <2>3 DEF setConfiguration
    <3>2. /\ n.variableDebt = reserves[a].variableDebt
          /\ n.stableDebt = reserves[a].stableDebt
      BY <1>2 DEF Reserve
    <3> HIDE DEF n
    <3> QED BY <2>1, <3>1, <3>2
  <2>4. ASSUME NEW a \in Asset, NEW s, SetReserveInterestRateStrategyAddress(a, s)
        PROVE  Untouched
    <3> DEFINE n == [reserves[a] EXCEPT !.strategy = s]
    <3>1. reserves' = [reserves EXCEPT ![a] = n]
      BY <2>4 DEF SetReserveInterestRateStrategyAddress
    <3>2. /\ n.variableDebt = reserves[a].variableDebt
          /\ n.stableDebt = reserves[a].stableDebt
      BY <1>2 DEF Reserve
    <3> HIDE DEF n
    <3> QED BY <2>1, <3>1, <3>2
  <2>5. ASSUME NEW b, SetPoolPause(b)
        PROVE  Untouched
    BY <2>5 DEF SetPoolPause, Untouched
  <2>6. ASSUME NEW a,
               \/ \E b \in BOOLEAN : EnableBorrowingOnReserve(a, b)
               \/ DisableBorrowingOnReserve(a)
               \/ \E p \in CollateralParams :
                    ConfigureReserveAsCollateral(a, p.ltv, p.liquidationThreshold,
                                                 p.liquidationBonus)
               \/ EnableReserveStableRate(a)
               \/ DisableReserveStableRate(a)
               \/ ActivateReserve(a)
               \/ DeactivateReserve(a)
               \/ FreezeReserve(a)
               \/ UnfreezeReserve(a)
               \/ \E f \in ReserveFactors : SetReserveFactor(a, f)
        PROVE  \E c : setConfiguration(a, c)
    BY <2>6 DEF EnableBorrowingOnReserve, DisableBorrowingOnReserve,
                ConfigureReserveAsCollateral, EnableReserveStableRate, DisableReserveStableRate,
                ActivateReserve, DeactivateReserve, FreezeReserve, UnfreezeReserve,
                SetReserveFactor
  <2>7. AdminAssets \subseteq Asset
    BY InputAssumption
  <2> QED BY <1>5, <2>2, <2>3, <2>4, <2>5, <2>6, <2>7 DEF AdminStep
<1> QED BY <1>3, <1>4, <1>5, UsersTouchListed DEF Next

\* What is shown of a debt that is not there.
LEMMA NothingOwed ==
    ASSUME NEW r, now \in Nat, ReserveOK(r, now), NEW u \in Account, NoDebt(r, u)
    PROVE  owed(r, u) = 0
<1>1. getNormalizedDebt(r, now) \in Nat
    BY ShownDebtIndex
<1>2. stableDebtBalanceOf(r, u, now) = 0
    BY DEF stableDebtBalanceOf, stableBalanceOf, NoDebt
<1>3. variableDebtBalanceOf(r, u, now) = 0
    BY <1>1, RayMulZero DEF variableDebtBalanceOf, balanceOf, NoDebt
<1> QED BY <1>2, <1>3 DEF owed

\* A reserve that is not listed, or that is being listed, has no debtors.
LEMMA UnlistedAuthorised ==
    ASSUME IInv, IInv', UnlistedOwedNothing, Untouched, now' = now,
           NEW a \in Asset \ reservesList, NEW u \in Account
    PROVE  Authorised(a, u, owed(reserves'[a], u) - owed(reserves[a], u))
<1>1. now \in Nat /\ ReserveOK(reserves[a], now) /\ ReserveOK(reserves'[a], now)
    BY DEF IInv, TypeOK, ReservesOK
<1>2. NoDebt(reserves[a], u) /\ NoDebt(reserves'[a], u)
    BY DEF UnlistedOwedNothing, Untouched, NoDebt
<1>3. owed(reserves[a], u) = 0 /\ owed(reserves'[a], u) = 0
    BY <1>1, <1>2, NothingOwed
<1>4. Authorised(a, u, 0 - 0)
    BY <1>1, WithinRounding
<1> QED BY <1>3, <1>4

\* Nobody ever owes anything to a reserve that is not listed.
LEMMA UnlistedHold == Spec => []UnlistedOwedNothing
<1>1. Init => UnlistedOwedNothing
  <2> SUFFICES ASSUME Init, NEW a \in Asset, NEW u \in Account
               PROVE  NoDebt(reserves[a], u)
    BY DEF UnlistedOwedNothing
  <2>1. reserves[a] = EmptyReserve
    BY DEF Init
  <2>2. /\ EmptyReserve.variableDebt.balance = [v \in Account |-> 0]
        /\ EmptyReserve.stableDebt.balance = [v \in Account |-> 0]
    BY DEF EmptyReserve, EmptyToken, EmptyStableToken
  <2> QED BY <2>1, <2>2 DEF NoDebt
<1>2. IInv /\ UnlistedOwedNothing /\ [Next]_vars => UnlistedOwedNothing'
  <2> SUFFICES ASSUME IInv, UnlistedOwedNothing, [Next]_vars,
                      NEW a \in Asset \ reservesList', NEW u \in Account
               PROVE  NoDebt(reserves'[a], u)
    BY DEF UnlistedOwedNothing, NoDebt
  <2>1. a \in Asset \ reservesList
    BY ReservesStayListed
  <2>2. NoDebt(reserves[a], u)
    BY <2>1 DEF UnlistedOwedNothing
  <2> QED BY <2>1, <2>2, StepTouchesListed DEF Untouched, NoDebt
<1> QED BY <1>1, <1>2, InvariantHolds, PTL DEF Spec

\* Nobody is given a debt: within a block what an account owes to a reserve grows, by
\* more than a mint is rounded, only by what it receives in the same call, by a leg of
\* its own flash loan that it keeps, or at the expense of an allowance it gave.  No
\* sequence of calls, and no flash loan around them, goes past these three consents.
THEOREM DebtNeedsConsent ==
    ASSUME Treasury \notin User
    PROVE  Spec => DebtIsAuthorised
<1> DEFINE Step ==
        \A a \in Asset, u \in Account :
          LET increase == debtOf(a, u)' - debtOf(a, u)
              accountedFor(amount) == increase - debtRounding(a) <= amount
          IN  now' = now /\ increase > debtRounding(a) =>
                \/ accountedFor(wallet'[a][u] - wallet[a][u])
                \/ keepsLeg(a, u) /\ accountedFor(currentLeg.amount)
                \/ \E v \in Account \ {u}, m \in RateMode :
                     accountedFor(borrowAllowance[a][m][u][v] - borrowAllowance'[a][m][u][v])
<1>1. IInv /\ IInv' /\ UnlistedOwedNothing /\ [Next]_vars => Step
  <2> SUFFICES ASSUME IInv, IInv', UnlistedOwedNothing, [Next]_vars, now' = now,
                      NEW a \in Asset, NEW u \in Account
               PROVE  Authorised(a, u, debtOf(a, u)' - debtOf(a, u))
    BY DEF Authorised, Accounted
  <2>1. STABLE # VARIABLE_RATE
    BY DEF STABLE, VARIABLE_RATE
  <2>2. debtOf(a, u) = owed(reserves[a], u) /\ debtOf(a, u)' = owed(reserves'[a], u)
    BY <2>1 DEF debtOf, debtOfMode, owed
  <2>3. CASE a \in reservesList
    BY <2>2, <2>3, StepAuthorised DEF AuthorisedStep
  <2>4. CASE a \notin reservesList
    BY <2>2, <2>4, StepTouchesListed, UnlistedAuthorised
  <2> QED BY <2>3, <2>4
<1> QED BY <1>1, InvariantHolds, UnlistedHold, PTL DEF Spec, DebtIsAuthorised
-----------------------------------------------------------------------------
(* The rates of a reserve *)

\* The three rates the strategy quotes for the funds and the debts of r.
quotation(r) ==
    calculateInterestRates(
        r.strategy, r.liquidity, stableTotalSupply(r.stableDebt, now),
        rayMul(r.variableDebt.supply, r.variableBorrowIndex),
        r.stableDebt.avgStableRate, r.config.reserveFactor)

Quoted(r) ==
    /\ r.currentLiquidityRate = quotation(r).liquidity
    /\ r.currentStableBorrowRate = quotation(r).stable
    /\ r.currentVariableBorrowRate = quotation(r).variable

\* Some flash loan in progress has lent funds of the asset and not settled them.
lentOut(a) ==
    \E f \in DOMAIN flashLoans :
        \E i \in unsettled(flashLoans[f]) : flashLoans[f].legs[i].asset = a

QuotedOrLent(a) ==
    reserves[a].lastUpdateTimestamp = now => Quoted(reserves[a]) \/ lentOut(a)

RInv ==
    /\ now # 0
    /\ \A a \in reservesList : QuotedOrLent(a)
    /\ \A a \in Asset \ reservesList : reserves[a].lastUpdateTimestamp = 0

-----------------------------------------------------------------------------
(* Rates just quoted *)

\* Rates that were quoted for a reserve are those it would be quoted again.
LEMMA QuotedIsFixed ==
    ASSUME NEW r \in Reserve, Quoted(r)
    PROVE  updateInterestRates(r, 0, 0, now) = r
<1>1. r.liquidity \in Nat
    BY DEF Reserve
<1>2. r.liquidity + 0 - 0 = r.liquidity
    BY <1>1
<1>3. updateInterestRates(r, 0, 0, now)
        = [r EXCEPT !.currentLiquidityRate = quotation(r).liquidity,
                    !.currentStableBorrowRate = quotation(r).stable,
                    !.currentVariableBorrowRate = quotation(r).variable]
    BY <1>2 DEF updateInterestRates, quotation
<1> QED BY <1>3 DEF Quoted, Reserve

\* ... and they were quoted for the funds that the operation then moves.
LEMMA QuotedForTheMove ==
    ASSUME NEW x \in Reserve, NEW added, NEW taken, NEW t, NEW l, l = x.liquidity + added - taken
    PROVE  Quoted(withFunds(updateInterestRates(x, added, taken, now), l, t))
<1> DEFINE rates == calculateInterestRates(
                        x.strategy, l, stableTotalSupply(x.stableDebt, now),
                        rayMul(x.variableDebt.supply, x.variableBorrowIndex),
                        x.stableDebt.avgStableRate, x.config.reserveFactor)
           n == withFunds(updateInterestRates(x, added, taken, now), l, t)
<1>1. updateInterestRates(x, added, taken, now)
        = [x EXCEPT !.currentLiquidityRate = rates.liquidity,
                    !.currentStableBorrowRate = rates.stable,
                    !.currentVariableBorrowRate = rates.variable]
    BY DEF updateInterestRates
<1>2. /\ n.strategy = x.strategy /\ n.liquidity = l
      /\ n.stableDebt = x.stableDebt /\ n.variableDebt = x.variableDebt
      /\ n.variableBorrowIndex = x.variableBorrowIndex /\ n.config = x.config
      /\ n.currentLiquidityRate = rates.liquidity /\ n.currentStableBorrowRate = rates.stable
      /\ n.currentVariableBorrowRate = rates.variable
  <2> HIDE DEF rates
  <2> QED BY <1>1 DEF withFunds, Reserve
<1>3. quotation(n) = rates
    BY <1>2 DEF quotation
<1> HIDE DEF rates, n
<1>4. Quoted(n)
    BY <1>2, <1>3 DEF Quoted
<1> QED BY <1>4 DEF n

\* updateInterestRates changes the rates alone.
LEMMA RatesChangeAlone ==
    ASSUME NEW x \in Reserve, NEW added, NEW taken, NEW l
    PROVE  LET q == updateInterestRates(x, added, taken, now)
           IN  /\ q.liquidity = x.liquidity /\ x.liquidity \in Nat
               /\ [q EXCEPT !.liquidity = l] = withFunds(q, l, q.aToken)
               /\ withFunds(q, q.liquidity, q.aToken) = q
<1> DEFINE rates == calculateInterestRates(
                        x.strategy, x.liquidity + added - taken, stableTotalSupply(x.stableDebt, now),
                        rayMul(x.variableDebt.supply, x.variableBorrowIndex),
                        x.stableDebt.avgStableRate, x.config.reserveFactor)
           q == updateInterestRates(x, added, taken, now)
<1>1. q = [x EXCEPT !.currentLiquidityRate = rates.liquidity,
                    !.currentStableBorrowRate = rates.stable,
                    !.currentVariableBorrowRate = rates.variable]
    BY DEF updateInterestRates
<1> HIDE DEF rates, q
<1>2. /\ q.liquidity = x.liquidity /\ x.liquidity \in Nat
      /\ [q EXCEPT !.liquidity = l] = withFunds(q, l, q.aToken)
      /\ withFunds(q, q.liquidity, q.aToken) = q
    BY <1>1 DEF withFunds, Reserve
<1> QED BY <1>2 DEF q

\* aTokens that change hands do not change what is quoted.
LEMMA QuotedOfFields ==
    ASSUME NEW r, NEW n,
           n.strategy = r.strategy, n.liquidity = r.liquidity, n.stableDebt = r.stableDebt,
           n.variableDebt = r.variableDebt, n.variableBorrowIndex = r.variableBorrowIndex,
           n.config.reserveFactor = r.config.reserveFactor,
           n.currentLiquidityRate = r.currentLiquidityRate,
           n.currentStableBorrowRate = r.currentStableBorrowRate,
           n.currentVariableBorrowRate = r.currentVariableBorrowRate,
           Quoted(r)
    PROVE  Quoted(n)
BY DEF Quoted, quotation

-----------------------------------------------------------------------------
(* What an action owes the invariant *)

\* No loan in progress settles what it has lent.
LentKept == \A b \in reservesList : lentOut(b) => lentOut(b)'

\* A call within a flash loan settles no leg.
LEMMA SameLoans ==
    ASSUME UNCHANGED flashLoans
    PROVE  LentKept
BY DEF LentKept, lentOut, unsettled

\* A reserve that stays as it is, or that is given rates, in the next state.
LEMMA QuotedNext ==
    ASSUME now' = now, NEW a, Quoted(reserves'[a])
    PROVE  Quoted(reserves[a])'
BY DEF Quoted, quotation

\* What is quoted for n is what was quoted for r, at the same time.
SameQuotation(r, n) ==
    /\ n.strategy = r.strategy /\ n.liquidity = r.liquidity
    /\ n.stableDebt = r.stableDebt /\ n.variableDebt = r.variableDebt
    /\ n.variableBorrowIndex = r.variableBorrowIndex
    /\ n.config.reserveFactor = r.config.reserveFactor
    /\ n.currentLiquidityRate = r.currentLiquidityRate
    /\ n.currentStableBorrowRate = r.currentStableBorrowRate
    /\ n.currentVariableBorrowRate = r.currentVariableBorrowRate
    /\ n.lastUpdateTimestamp = r.lastUpdateTimestamp

\* What a step may do to a listed reserve: quote it anew, leave alone what is
\* quoted, or lend its funds.
RatesFollow(b) ==
    \/ Quoted(reserves'[b])
    \/ SameQuotation(reserves[b], reserves'[b]) /\ (lentOut(b) => lentOut(b)')
    \/ lentOut(b)'

\* The invariant is kept by a step that does one of them to each reserve.
LEMMA RateStep ==
    ASSUME RInv, UNCHANGED <<reservesList, now>>, \A b \in reservesList : RatesFollow(b),
           \A b \in Asset \ reservesList :
              reserves'[b].lastUpdateTimestamp = reserves[b].lastUpdateTimestamp
    PROVE  RInv'
<1>1. \A b \in reservesList' : QuotedOrLent(b)'
  <2> SUFFICES ASSUME NEW b \in reservesList, (reserves[b].lastUpdateTimestamp = now)'
               PROVE  Quoted(reserves[b])' \/ lentOut(b)'
    BY DEF QuotedOrLent
  <2>1. CASE Quoted(reserves'[b])
    BY <2>1, QuotedNext
  <2>2. CASE SameQuotation(reserves[b], reserves'[b]) /\ (lentOut(b) => lentOut(b)')
    <3>1. Quoted(reserves[b]) \/ lentOut(b)
      BY <2>2 DEF RInv, QuotedOrLent, SameQuotation
    <3>2. Quoted(reserves[b]) => Quoted(reserves'[b])
      BY <2>2, QuotedOfFields DEF SameQuotation
    <3> QED BY <2>2, <3>1, <3>2, QuotedNext
  <2> QED BY <2>1, <2>2 DEF RatesFollow
<1>2. \A b \in Asset \ reservesList' : reserves'[b].lastUpdateTimestamp = 0
    BY DEF RInv
<1> QED BY <1>1, <1>2 DEF RInv

\* An operation of one listed reserve, within one transaction.
LEMMA ReserveRates ==
    ASSUME IInv, RInv, NEW a \in reservesList, NEW n, setReserve(a, n),
           Quoted(n) \/ SameQuotation(reserves[a], n),
           UNCHANGED <<reservesList, now, flashLoans>>
    PROVE  RInv'
<1>1. /\ a \in Asset /\ reserves'[a] = n /\ \A b \in Asset \ {a} : reserves'[b] = reserves[b]
      /\ reservesList \subseteq Asset
    BY InvFacts DEF setReserve
<1>2. LentKept
    BY SameLoans
<1>3. \A b \in reservesList : RatesFollow(b)
    BY <1>1, <1>2 DEF RatesFollow, SameQuotation, LentKept
<1> QED BY <1>1, <1>3, RateStep

\* What does not touch the reserves.
LEMMA OtherRates ==
    ASSUME RInv, UNCHANGED <<reserves, reservesList, now>>, LentKept
    PROVE  RInv'
BY RateStep DEF RatesFollow, SameQuotation, LentKept

-----------------------------------------------------------------------------
(* Quoting for a move of funds *)

\* Funds come in after the rates were quoted for them.
LEMMA QuotedIncoming ==
    ASSUME NEW x \in Reserve, NEW added \in Nat, NEW t
    PROVE  LET q == updateInterestRates(x, added, 0, now)
           IN  /\ Quoted(withFunds(q, q.liquidity + added, t))
               /\ Quoted([q EXCEPT !.liquidity = @ + added])
<1> DEFINE q == updateInterestRates(x, added, 0, now)
           l == x.liquidity + added
<1>1. /\ q.liquidity = x.liquidity /\ x.liquidity \in Nat
      /\ [q EXCEPT !.liquidity = l] = withFunds(q, l, q.aToken)
    BY RatesChangeAlone
<1>2. l = x.liquidity + added - 0
    BY <1>1
<1>3. Quoted(withFunds(q, l, t)) /\ Quoted(withFunds(q, l, q.aToken))
    BY <1>2, QuotedForTheMove
<1> QED BY <1>1, <1>3

\* Funds leave after the rates were quoted for it.
LEMMA QuotedOutgoing ==
    ASSUME NEW x \in Reserve, NEW taken \in Nat, NEW t
    PROVE  LET q == updateInterestRates(x, 0, taken, now)
           IN  /\ Quoted(withFunds(q, q.liquidity - taken, t))
               /\ Quoted([q EXCEPT !.liquidity = @ - taken])
<1> DEFINE q == updateInterestRates(x, 0, taken, now)
           l == x.liquidity - taken
<1>1. /\ q.liquidity = x.liquidity /\ x.liquidity \in Nat
      /\ [q EXCEPT !.liquidity = l] = withFunds(q, l, q.aToken)
    BY RatesChangeAlone
<1>2. l = x.liquidity + 0 - taken
    BY <1>1
<1>3. Quoted(withFunds(q, l, t)) /\ Quoted(withFunds(q, l, q.aToken))
    BY <1>2, QuotedForTheMove
<1> QED BY <1>1, <1>3

\* No funds move.
LEMMA QuotedInPlace ==
    ASSUME NEW x \in Reserve
    PROVE  Quoted(updateInterestRates(x, 0, 0, now))
<1> DEFINE q == updateInterestRates(x, 0, 0, now)
<1>1. /\ q.liquidity = x.liquidity /\ x.liquidity \in Nat
      /\ withFunds(q, q.liquidity, q.aToken) = q
    BY RatesChangeAlone
<1>2. x.liquidity = x.liquidity + 0 - 0
    BY <1>1
<1>3. Quoted(withFunds(q, x.liquidity, q.aToken))
    BY <1>2, QuotedForTheMove
<1> QED BY <1>1, <1>3

-----------------------------------------------------------------------------
(* Operations quote what they move *)

\* LendingPool.deposit.
LEMMA DepositRates ==
    ASSUME IInv, RInv, NEW sender \in Account, NEW asset \in Asset, NEW amount \in Nat,
           NEW onBehalfOf \in Account, Deposit(sender, asset, amount, onBehalfOf)
    PROVE  RInv'
<1> DEFINE r  == reserves[asset]
           r1 == updateState(r, now)
           r2 == updateInterestRates(r1, amount, 0, now)
           t  == mint(r2.aToken, onBehalfOf, amount, r2.liquidityIndex)
           r3 == withFunds(r2, r2.liquidity + amount, t)
<1>1. /\ asset \in reservesList /\ updateStateAccepted(r, now)
      /\ setReserve(asset, r3)
      /\ UNCHANGED <<reservesList, now, flashLoans>>
    BY DEF Deposit, Listed, withFunds
<1>2. r1 \in Reserve
    BY <1>1, InvFacts, AccruedUpdateState, AccruedFields
<1> HIDE DEF r, r1
<1>3. Quoted(r3)
    BY <1>2, QuotedIncoming
<1> QED BY <1>1, <1>3, ReserveRates

\* LendingPool.withdraw.
LEMMA WithdrawRates ==
    ASSUME IInv, RInv, NEW sender \in Account, NEW asset \in Asset, NEW amount \in Nat,
           NEW to \in Account, Withdraw(sender, asset, amount, to)
    PROVE  RInv'
<1> DEFINE r  == reserves[asset]
           w  == amountToWithdraw(sender, asset, amount)
           r1 == updateState(r, now)
           r2 == updateInterestRates(r1, 0, w, now)
           t  == burn(r2.aToken, sender, w, r2.liquidityIndex)
           r3 == withFunds(r2, r2.liquidity - w, t)
<1>1. /\ asset \in reservesList /\ updateStateAccepted(r, now)
      /\ setReserve(asset, r3)
      /\ UNCHANGED <<reservesList, now, flashLoans>>
    BY DEF Withdraw, WithdrawAccepted, Listed, withFunds
<1>2. r1 \in Reserve
    BY <1>1, InvFacts, AccruedUpdateState, AccruedFields
<1>3. w \in Nat
    BY <1>1, InvFacts, ReserveViews DEF amountToWithdraw
<1> HIDE DEF r, r1, w
<1>4. Quoted(r3)
    BY <1>2, <1>3, QuotedOutgoing
<1> QED BY <1>1, <1>4, ReserveRates

\* A transfer of aTokens moves neither funds nor debts.
LEMMA TransferRates ==
    ASSUME IInv, RInv, NEW sender \in Account, NEW asset \in Asset, NEW recipient \in Account,
           NEW amount \in Nat, Transfer(sender, asset, recipient, amount)
    PROVE  RInv'
<1> DEFINE r == reserves[asset]
           t == transferScaled(r.aToken, sender, recipient,
                               rayDiv(amount, getNormalizedIncome(r, now)))
           n == [r EXCEPT !.aToken = t]
<1>1. /\ asset \in reservesList /\ setReserve(asset, n)
      /\ UNCHANGED <<reservesList, now, flashLoans>>
    BY DEF Transfer, Listed
<1>2. r \in Reserve
    BY <1>1, InvFacts
<1> HIDE DEF r, t
<1>3. SameQuotation(r, n)
    BY <1>2 DEF SameQuotation, Reserve
<1> QED BY <1>1, <1>3, ReserveRates DEF r

\* A debt is minted before the rates are quoted for the funds released; with a
\* flash loan none are, as they have left before.
LEMMA ExecuteBorrowQuotes ==
    ASSUME IInv, NEW asset \in reservesList, NEW user \in Account, NEW onBehalfOf \in Account,
           NEW amount \in Nat, NEW m \in RateMode, NEW release \in BOOLEAN,
           ExecuteBorrow(asset, user, onBehalfOf, amount, m, release)
    PROVE  \E n : setReserve(asset, n) /\ Quoted(n)
<1> DEFINE r  == reserves[asset]
           f  == IF release THEN amount ELSE 0
           r1 == updateState(r, now)
           r2 == mintDebt(r1, onBehalfOf, amount, m)
           r3 == updateInterestRates(r2, 0, f, now)
           r4 == [r3 EXCEPT !.liquidity = @ - f]
<1>1. /\ updateStateAccepted(r, now) /\ mintDebtAccepted(r1, amount, m)
      /\ setReserve(asset, r4)
    BY DEF ExecuteBorrow
<1>2. f \in Nat
    OBVIOUS
<1> HIDE DEF f
<1>3. now \in Nat /\ Accrued(r, r1)
    BY <1>1, InvFacts, AccruedUpdateState
<1> HIDE DEF r, r1
<1>4. r2 \in Reserve
    BY <1>1, <1>3, AccruedMintDebt, AccruedFields
<1> HIDE DEF r2
<1>5. Quoted(r4)
    BY <1>2, <1>4, QuotedOutgoing
<1> QED BY <1>1, <1>5

\* LendingPool.borrow.
LEMMA BorrowRates ==
    ASSUME IInv, RInv, NEW sender \in Account, NEW asset \in Asset, NEW amount \in Nat,
           NEW m \in RateMode, NEW onBehalfOf \in Account,
           Borrow(sender, asset, amount, m, onBehalfOf)
    PROVE  RInv'
<1>1. /\ asset \in reservesList
      /\ ExecuteBorrow(asset, sender, onBehalfOf, amount, m, TRUE)
      /\ UNCHANGED <<reservesList, now, flashLoans>>
    BY DEF Borrow, Listed
<1>2. PICK n : setReserve(asset, n) /\ Quoted(n)
    BY <1>1, ExecuteBorrowQuotes
<1> QED BY <1>1, <1>2, ReserveRates

\* LendingPool.repay.
LEMMA RepayRates ==
    ASSUME IInv, RInv, NEW sender \in Account, NEW asset \in Asset, NEW amount \in Nat,
           NEW m \in RateMode, NEW onBehalfOf \in Account,
           Repay(sender, asset, amount, m, onBehalfOf)
    PROVE  RInv'
<1> DEFINE r  == reserves[asset]
           p  == paybackAmount(asset, amount, m, onBehalfOf)
           r1 == updateState(r, now)
           r2 == burnDebt(r1, onBehalfOf, p, m)
           r3 == updateInterestRates(r2, p, 0, now)
           r4 == [r3 EXCEPT !.liquidity = @ + p]
<1>1. /\ asset \in reservesList
      /\ updateStateAccepted(r, now) /\ burnDebtAccepted(r1, onBehalfOf, p, m)
      /\ setReserve(asset, r4)
      /\ UNCHANGED <<reservesList, now, flashLoans>>
    BY DEF Repay, RepayAccepted, Listed
<1>2. p \in Nat
  <2>1. debtOfMode(asset, onBehalfOf, m) \in Nat
    BY <1>1, DebtViews DEF RateMode
  <2> QED BY <2>1 DEF paybackAmount
<1> HIDE DEF p
<1>3. now \in Nat /\ Accrued(r, r1)
    BY <1>1, InvFacts, AccruedUpdateState
<1> HIDE DEF r, r1
<1>4. r2 \in Reserve
    BY <1>1, <1>2, <1>3, AccruedBurnDebt, AccruedFields
<1> HIDE DEF r2
<1>5. Quoted(r4)
    BY <1>2, <1>4, QuotedIncoming
<1> QED BY <1>1, <1>5, ReserveRates

\* A debt is burned and minted, no funds move.
LEMMA RewriteRates ==
    ASSUME IInv, RInv, NEW asset \in reservesList, NEW u \in Account, NEW debt \in Nat,
           NEW m \in RateMode, NEW q \in RateMode,
           updateStateAccepted(reserves[asset], now),
           burnDebtAccepted(updateState(reserves[asset], now), u, debt, m),
           mintDebtAccepted(burnDebt(updateState(reserves[asset], now), u, debt, m), debt, q),
           setReserve(asset, updateInterestRates(
               mintDebt(burnDebt(updateState(reserves[asset], now), u, debt, m), u, debt, q),
               0, 0, now)),
           UNCHANGED <<reservesList, now, flashLoans>>
    PROVE  RInv'
<1> DEFINE r  == reserves[asset]
           r1 == updateState(r, now)
           r2 == burnDebt(r1, u, debt, m)
           r3 == mintDebt(r2, u, debt, q)
           r4 == updateInterestRates(r3, 0, 0, now)
<1>1. /\ updateStateAccepted(r, now) /\ burnDebtAccepted(r1, u, debt, m)
      /\ mintDebtAccepted(r2, debt, q) /\ setReserve(asset, r4)
    OBVIOUS
<1>2. now \in Nat /\ Accrued(r, r1)
    BY <1>1, InvFacts, AccruedUpdateState
<1> HIDE DEF r, r1
<1>3. Accrued(r, r2)
    BY <1>1, <1>2, AccruedBurnDebt
<1> HIDE DEF r2
<1>4. r3 \in Reserve
    BY <1>1, <1>2, <1>3, AccruedMintDebt, AccruedFields
<1> HIDE DEF r3
<1>5. Quoted(r4)
    BY <1>4, QuotedInPlace
<1> QED BY <1>1, <1>5, ReserveRates

\* LendingPool.swapBorrowRateMode.
LEMMA SwapRates ==
    ASSUME IInv, RInv, NEW sender \in Account, NEW asset \in Asset, NEW m \in RateMode,
           SwapBorrowRateMode(sender, asset, m)
    PROVE  RInv'
<1> DEFINE debt == IF m = STABLE THEN stableDebtBalanceOf(reserves[asset], sender, now)
                                 ELSE variableDebtBalanceOf(reserves[asset], sender, now)
           r1 == updateState(reserves[asset], now)
           r2 == burnDebt(r1, sender, debt, m)
           r3 == mintDebt(r2, sender, debt, otherMode(m))
<1>1. /\ asset \in reservesList
      /\ updateStateAccepted(reserves[asset], now)
      /\ burnDebtAccepted(r1, sender, debt, m)
      /\ mintDebtAccepted(r2, debt, otherMode(m))
      /\ setReserve(asset, updateInterestRates(r3, 0, 0, now))
      /\ UNCHANGED <<reservesList, now, flashLoans>>
    BY DEF SwapBorrowRateMode, Listed
<1>2. otherMode(m) \in RateMode
    BY DEF otherMode, RateMode
<1>3. debt \in Nat
    BY <1>1, DebtViews
<1> HIDE DEF debt
<1> QED BY <1>1, <1>2, <1>3, RewriteRates

\* LendingPool.rebalanceStableBorrowRate.
LEMMA RebalanceRates ==
    ASSUME IInv, RInv, NEW sender \in Account, NEW asset \in Asset, NEW user \in Account,
           RebalanceStableBorrowRate(sender, asset, user)
    PROVE  RInv'
<1> DEFINE debt == stableDebtBalanceOf(reserves[asset], user, now)
           r1 == updateState(reserves[asset], now)
           r2 == burnDebt(r1, user, debt, STABLE)
           r3 == mintDebt(r2, user, debt, STABLE)
<1>1. /\ asset \in reservesList /\ debt # 0
      /\ updateStateAccepted(reserves[asset], now)
      /\ setReserve(asset, updateInterestRates(r3, 0, 0, now))
      /\ UNCHANGED <<reservesList, now, flashLoans>>
    BY DEF RebalanceStableBorrowRate, mintStableAccepted, Listed
<1>2. STABLE \in RateMode
    BY DEF RateMode
<1>3. debt \in Nat
    BY <1>1, DebtViews
<1>4. mintDebtAccepted(r2, debt, STABLE)
    BY <1>1 DEF mintDebtAccepted, mintStableAccepted
<1>5. burnDebtAccepted(r1, user, debt, STABLE)
  <2>1. r1.stableDebt = reserves[asset].stableDebt
    BY <1>1, InvFacts, AccruedUpdateState
  <2>2. debt = stableBalanceOf(r1.stableDebt, user, now)
    BY <2>1 DEF stableDebtBalanceOf
  <2> HIDE DEF debt, r1
  <2> QED BY <1>3, <2>2 DEF burnDebtAccepted, burnStableAccepted
<1> HIDE DEF debt
<1> QED BY <1>1, <1>2, <1>3, <1>4, <1>5, RewriteRates

\* The aTokens of a reserve change hands between the quotation and the payment.
LEMMA QuotedAfterTransfer ==
    ASSUME NEW x \in Reserve, NEW added \in Nat, NEW t
    PROVE  LET q == updateInterestRates(x, added, 0, now)
           IN  Quoted([[q EXCEPT !.aToken = t] EXCEPT !.liquidity = @ + added])
<1> DEFINE rates == calculateInterestRates(
                        x.strategy, x.liquidity + added - 0, stableTotalSupply(x.stableDebt, now),
                        rayMul(x.variableDebt.supply, x.variableBorrowIndex),
                        x.stableDebt.avgStableRate, x.config.reserveFactor)
           q == updateInterestRates(x, added, 0, now)
           n == [[q EXCEPT !.aToken = t] EXCEPT !.liquidity = @ + added]
<1>1. q = [x EXCEPT !.currentLiquidityRate = rates.liquidity,
                    !.currentStableBorrowRate = rates.stable,
                    !.currentVariableBorrowRate = rates.variable]
    BY DEF updateInterestRates
<1> HIDE DEF rates, q
<1>2. n = withFunds(q, q.liquidity + added, t)
    BY <1>1 DEF withFunds, Reserve
<1>3. Quoted(withFunds(q, q.liquidity + added, t))
    BY QuotedIncoming DEF q
<1> QED BY <1>2, <1>3 DEF q, n

\* The debt's reserve is quoted for what is repaid; a seizure of funds of another
\* reserve is quoted too, one of aTokens needs not be.
LEMMA LiquidationRates ==
    ASSUME IInv, RInv, NEW liquidator \in Account, NEW collateralAsset \in Asset,
           NEW debtAsset \in Asset, NEW user \in Account, NEW debtToCover \in Nat,
           NEW asATokens \in BOOLEAN,
           LiquidationCall(liquidator, collateralAsset, debtAsset, user, debtToCover, asATokens),
           asATokens \/ collateralAsset # debtAsset
    PROVE  RInv'
<1> DEFINE terms == liquidationTerms(collateralAsset, debtAsset, user, debtToCover)
           d   == reserves[debtAsset]
           d1  == updateState(d, now)
           d2  == burnLiquidated(d1, user, terms.repaid, terms.variableDebt)
           d3  == updateInterestRates(d2, terms.repaid, 0, now)
           rs1 == withReserve(reserves, debtAsset, d3)
           c   == rs1[collateralAsset]
           c1  == IF asATokens THEN seizeATokens(c, liquidator, user, terms.seized)
                               ELSE seizeFunds(c, user, terms.seized)
           rs2 == withReserve(rs1, collateralAsset, c1)
           seized == terms.seized
           repaid == terms.repaid
<1>1. /\ collateralAsset \in reservesList /\ debtAsset \in reservesList
      /\ reserves[collateralAsset].config.liquidationThreshold > 0
      /\ priceUsable(collateralAsset)
    BY DEF LiquidationCall, LiquidationAccepted, Listed, validateLiquidationCall
<1>2. /\ updateStateAccepted(d, now)
      /\ burnLiquidatedAccepted(d1, user, terms.repaid, terms.variableDebt)
    BY DEF LiquidationCall, LiquidationAccepted, repaymentAccepted
<1>3. afterRepayment(debtAsset, user, terms) = rs1
    BY DEF afterRepayment, withReserve
<1>4. seizureAccepted(c, user, terms.seized, asATokens)
    BY <1>3 DEF LiquidationCall, LiquidationAccepted
<1>5. /\ reserves' = [rs2 EXCEPT ![debtAsset].liquidity = @ + terms.repaid]
      /\ UNCHANGED <<reservesList, now, flashLoans>>
    BY <1>3 DEF LiquidationCall, withReserve
<1>6. seized \in Nat /\ repaid \in Nat /\ terms.variableDebt \in Nat
    BY <1>1, LiquidationTermsType
<1>7. now \in Nat /\ Accrued(d, d1) /\ reserves \in [Asset -> Reserve] /\ reservesList \subseteq Asset
    BY <1>1, <1>2, InvFacts, AccruedUpdateState
<1>8. d2 \in Reserve
    BY <1>2, <1>6, <1>7, AccruedBurnLiquidated, AccruedFields
<1>9. Quoted([d3 EXCEPT !.liquidity = @ + repaid])
    BY <1>6, <1>8, QuotedIncoming
<1>10. \A t : Quoted([[d3 EXCEPT !.aToken = t] EXCEPT !.liquidity = @ + repaid])
    BY <1>6, <1>8, QuotedAfterTransfer
<1> HIDE DEF seized, repaid, d3
<1>11. rs1[debtAsset] = d3 /\ \A b \in Asset \ {debtAsset} : rs1[b] = reserves[b]
    BY <1>7 DEF withReserve
<1>12. /\ rs2[collateralAsset] = c1
       /\ \A b \in Asset \ {collateralAsset} : rs2[b] = rs1[b]
       /\ DOMAIN rs2 = Asset
    BY <1>7 DEF withReserve
<1> HIDE DEF c1, c, rs1, rs2
<1>13. /\ reserves'[debtAsset] = [rs2[debtAsset] EXCEPT !.liquidity = @ + repaid]
       /\ \A b \in Asset \ {debtAsset} : reserves'[b] = rs2[b]
    BY <1>5, <1>12 DEF repaid
<1>14. \A b \in Asset \ {debtAsset, collateralAsset} : reserves'[b] = reserves[b]
    BY <1>11, <1>12, <1>13
<1>15. LentKept
    BY <1>5, SameLoans
<1>16. asATokens => c1 = [c EXCEPT !.aToken = transferScaled(@, user, liquidator,
                                        rayDiv(seized, getNormalizedIncome(c, now)))]
    BY DEF c1, seizeATokens, seized
<1>17. RatesFollow(debtAsset)
  <2>1. CASE collateralAsset # debtAsset
    <3>1. reserves'[debtAsset] = [d3 EXCEPT !.liquidity = @ + repaid]
      BY <1>11, <1>12, <1>13, <2>1
    <3> QED BY <1>9, <3>1 DEF RatesFollow, d3, repaid
  <2>2. CASE collateralAsset = debtAsset
    <3>1. c = d3 /\ rs2[debtAsset] = c1
      BY <1>11, <1>12, <2>2 DEF c
    <3>2. PICK t : c1 = [d3 EXCEPT !.aToken = t]
      BY <1>16, <2>2, <3>1
    <3>3. Quoted([[d3 EXCEPT !.aToken = t] EXCEPT !.liquidity = @ + repaid])
      BY <1>10
    <3> QED BY <1>13, <3>1, <3>2, <3>3 DEF RatesFollow
  <2> QED BY <2>1, <2>2
<1>18. ASSUME collateralAsset # debtAsset PROVE RatesFollow(collateralAsset)
  <2>1. c = reserves[collateralAsset] /\ c \in Reserve
    BY <1>1, <1>7, <1>11, <1>18 DEF c
  <2>2. reserves'[collateralAsset] = c1
    BY <1>12, <1>13, <1>18
  <2>3. CASE asATokens
    <3>1. SameQuotation(c, c1)
      BY <1>16, <2>1, <2>3 DEF SameQuotation, Reserve
    <3> QED BY <1>1, <1>15, <2>1, <2>2, <3>1 DEF RatesFollow, LentKept
  <2>4. CASE ~asATokens
    <3> DEFINE c2 == updateState(c, now)
               c3 == updateInterestRates(c2, 0, seized, now)
    <3>1. updateStateAccepted(c, now)
      BY <1>4, <2>4 DEF seizureAccepted
    <3>2. c2 \in Reserve
      BY <1>1, <2>1, <3>1, InvFacts, AccruedUpdateState, AccruedFields
    <3>3. c1 = withFunds(c3, c3.liquidity - seized, burn(c3.aToken, user, seized, c3.liquidityIndex))
      BY <2>4 DEF c1, seizeFunds, withFunds, seized
    <3> HIDE DEF c2
    <3>4. Quoted(c1)
      BY <1>6, <3>2, <3>3, QuotedOutgoing
    <3> QED BY <2>2, <3>4 DEF RatesFollow
  <2> QED BY <2>3, <2>4
<1>19. \A b \in reservesList : RatesFollow(b)
  <2> SUFFICES ASSUME NEW b \in reservesList PROVE RatesFollow(b)
    OBVIOUS
  <2>1. CASE b \in {debtAsset, collateralAsset}
    BY <1>17, <1>18, <2>1
  <2>2. CASE b \notin {debtAsset, collateralAsset}
    <3>1. reserves'[b] = reserves[b]
      BY <1>7, <1>14, <2>2
    <3> QED BY <1>15, <3>1 DEF RatesFollow, SameQuotation, LentKept
  <2> QED BY <2>1, <2>2
<1> QED BY <1>1, <1>5, <1>14, <1>19, RateStep

-----------------------------------------------------------------------------
(* Flash loans lend what was quoted *)

\* The legs lent of an asset stay so when each finds itself in the next stack.
LEMMA LegsStayLent ==
    ASSUME NEW b,
           \A k \in DOMAIN flashLoans : \A i \in unsettled(flashLoans[k]) :
              flashLoans[k].legs[i].asset = b =>
                 /\ k \in DOMAIN flashLoans' /\ i \in unsettled(flashLoans'[k])
                 /\ flashLoans'[k].legs = flashLoans[k].legs
    PROVE  lentOut(b) => lentOut(b)'
<1> SUFFICES ASSUME lentOut(b) PROVE lentOut(b)'
    OBVIOUS
<1>1. PICK k \in DOMAIN flashLoans : \E i \in unsettled(flashLoans[k]) :
                flashLoans[k].legs[i].asset = b
    BY DEF lentOut
<1>2. PICK i \in unsettled(flashLoans[k]) : flashLoans[k].legs[i].asset = b
    BY <1>1
<1>3. /\ k \in DOMAIN flashLoans' /\ i \in unsettled(flashLoans'[k])
      /\ flashLoans'[k].legs[i].asset = b
    BY <1>2
<1> QED BY <1>3 DEF lentOut, unsettled

\* The innermost frame goes on to another stage or another leg.
LEMMA FrameReplaced ==
    ASSUME IInv, flashLoans # <<>>, NEW f, f.legs = currentLoan.legs, NEW b,
           flashLoans' = [flashLoans EXCEPT ![Len(flashLoans)] = f],
           \A i \in unsettled(currentLoan) :
              currentLoan.legs[i].asset = b => i \in unsettled(f)
    PROVE  lentOut(b) => lentOut(b)'
<1>1. /\ DOMAIN flashLoans' = DOMAIN flashLoans
      /\ flashLoans'[Len(flashLoans)] = f /\ flashLoans[Len(flashLoans)] = currentLoan
      /\ \A k \in DOMAIN flashLoans \ {Len(flashLoans)} : flashLoans'[k] = flashLoans[k]
  <2>1. flashLoans \in Seq(FlashLoanFrame) /\ Len(flashLoans) \in 1 .. Len(flashLoans)
    BY InvFacts, CurrentLoanOK
  <2>2. DOMAIN flashLoans = 1 .. Len(flashLoans)
    BY <2>1, LenProperties
  <2> QED BY <2>1, <2>2 DEF currentLoan
<1>2. ASSUME NEW k \in DOMAIN flashLoans, NEW i \in unsettled(flashLoans[k]),
             flashLoans[k].legs[i].asset = b
      PROVE  /\ k \in DOMAIN flashLoans' /\ i \in unsettled(flashLoans'[k])
             /\ flashLoans'[k].legs = flashLoans[k].legs
    BY <1>1, <1>2
<1> QED BY <1>2, LegsStayLent

\* The frames of the two ways of going on.
LEMMA StageFrame ==
    ASSUME IInv, flashLoans # <<>>, NEW stage, enterStage(stage)
    PROVE  flashLoans' = [flashLoans EXCEPT ![Len(flashLoans)] =
                             [currentLoan EXCEPT !.stage = stage, !.next = 1]]
<1>1. flashLoans \in Seq(FlashLoanFrame) /\ Len(flashLoans) \in 1 .. Len(flashLoans)
    BY InvFacts, CurrentLoanOK
<1>2. DOMAIN flashLoans = 1 .. Len(flashLoans)
    BY <1>1, LenProperties
<1> QED BY <1>1, <1>2 DEF enterStage, currentLoan

\* LendingPool.flashLoan begins: nothing is lent yet, of this loan.
LEMMA FlashLoanBeginRates ==
    ASSUME IInv, RInv, NEW initiator \in Account, NEW receiver \in Account,
           NEW legs \in Seq(FlashLoanLeg), NEW onBehalfOf \in Account,
           FlashLoanBegin(initiator, receiver, legs, onBehalfOf)
    PROVE  RInv'
<1>1. PICK f : f = [initiator |-> initiator, receiver |-> receiver, onBehalfOf |-> onBehalfOf,
                    legs |-> legs, stage |-> IF legs = <<>> THEN CALLBACK ELSE LENDING, next |-> 1]
    OBVIOUS
<1>2. flashLoans' = Append(flashLoans, f) /\ UNCHANGED <<reserves, reservesList, now>>
    BY <1>1 DEF FlashLoanBegin, poolVars
<1>3. flashLoans \in Seq(FlashLoanFrame) /\ f \in FlashLoanFrame
    BY <1>1, InvFacts DEF FlashLoanFrame
<1>4. \A k \in DOMAIN flashLoans : k \in DOMAIN flashLoans' /\ flashLoans'[k] = flashLoans[k]
  <2>1. /\ flashLoans' \in Seq(FlashLoanFrame) /\ Len(flashLoans') = Len(flashLoans) + 1
        /\ \A i \in 1 .. Len(flashLoans) : flashLoans'[i] = flashLoans[i]
        /\ Len(flashLoans) \in Nat
    BY <1>2, <1>3, AppendProperties, LenProperties
  <2>2. DOMAIN flashLoans' = 1 .. Len(flashLoans) + 1 /\ DOMAIN flashLoans = 1 .. Len(flashLoans)
    BY <1>3, <2>1, LenProperties
  <2> QED BY <2>1, <2>2
<1>5. LentKept
  <2>1. ASSUME NEW b PROVE lentOut(b) => lentOut(b)'
    BY <1>4, LegsStayLent
  <2> QED BY <2>1 DEF LentKept
<1> QED BY <1>2, <1>5, OtherRates

\* What is lent and not settled, stage by stage.
LEMMA UnsettledLegs ==
    ASSUME NEW f
    PROVE  /\ f.stage = LENDING  => unsettled(f) = {i \in DOMAIN f.legs : i < f.next}
           /\ f.stage = CALLBACK => unsettled(f) = DOMAIN f.legs
           /\ f.stage = SETTLING => unsettled(f) = {i \in DOMAIN f.legs : i >= f.next}
<1>1. LENDING # CALLBACK /\ LENDING # SETTLING /\ CALLBACK # SETTLING
    BY DEF LENDING, CALLBACK, SETTLING
<1>2. CASE f.stage = LENDING
    BY <1>1, <1>2, Zenon DEF unsettled
<1>3. CASE f.stage = CALLBACK
    BY <1>1, <1>3, Zenon DEF unsettled
<1>4. CASE f.stage = SETTLING
    BY <1>1, <1>4, Zenon DEF unsettled
<1> QED BY <1>1, <1>2, <1>3, <1>4

\* The end of a loan settles what was left of it, and nothing else.
LEMMA FrameDropped ==
    ASSUME IInv, flashLoans # <<>>, endFlashLoan, NEW b,
           \A i \in unsettled(currentLoan) : currentLoan.legs[i].asset # b
    PROVE  lentOut(b) => lentOut(b)'
<1>1. /\ \A k \in DOMAIN flashLoans \ {Len(flashLoans)} :
            k \in DOMAIN flashLoans' /\ flashLoans'[k] = flashLoans[k]
      /\ flashLoans[Len(flashLoans)] = currentLoan
  <2>1. flashLoans \in Seq(FlashLoanFrame) /\ Len(flashLoans) \in 1 .. Len(flashLoans)
    BY InvFacts, CurrentLoanOK
  <2> DEFINE k == Len(flashLoans) - 1
  <2>2. k \in Nat /\ 1 .. k \subseteq 1 .. Len(flashLoans)
    BY <2>1
  <2>3. flashLoans' = SubSeq(flashLoans, 1, k)
    BY DEF endFlashLoan
  <2>4. \A i \in 1 .. k : flashLoans[i] \in FlashLoanFrame
    BY <2>1, <2>2, ElementOfSeq
  <2>5. k = Len(flashLoans) - 1
    OBVIOUS
  <2> HIDE DEF k
  <2>6. /\ flashLoans' \in Seq(FlashLoanFrame) /\ Len(flashLoans') = k
        /\ \A i \in 1 .. k : flashLoans'[i] = flashLoans[i]
    BY <2>2, <2>3, <2>4, SubSeqProperties
  <2>7. DOMAIN flashLoans' = 1 .. k /\ DOMAIN flashLoans = 1 .. Len(flashLoans)
    BY <2>1, <2>6, LenProperties
  <2> QED BY <2>1, <2>2, <2>5, <2>6, <2>7 DEF currentLoan
<1>2. ASSUME NEW k \in DOMAIN flashLoans, NEW i \in unsettled(flashLoans[k]),
             flashLoans[k].legs[i].asset = b
      PROVE  /\ k \in DOMAIN flashLoans' /\ i \in unsettled(flashLoans'[k])
             /\ flashLoans'[k].legs = flashLoans[k].legs
    BY <1>1, <1>2
<1> QED BY <1>2, LegsStayLent

\* The funds of a leg leave for the receiver: its reserve is lent out.
LEMMA FlashLoanLendRates ==
    ASSUME IInv, RInv, FlashLoanLend
    PROVE  RInv'
<1> DEFINE asset == currentLeg.asset
           last  == Len(flashLoans)
           j     == currentLoan.next
<1>1. /\ flashLoans # <<>> /\ currentLoan.stage = LENDING
      /\ asset \in reservesList
      /\ reserves' = [reserves EXCEPT ![asset].liquidity = @ - currentLeg.amount]
      /\ IF currentLoan.next = Len(currentLoan.legs) THEN enterStage(CALLBACK) ELSE nextLeg
      /\ UNCHANGED <<reservesList, now>>
    BY DEF FlashLoanLend, inStage, Listed
<1>2. LENDING # CALLBACK
    BY DEF LENDING, CALLBACK
<1>3. /\ currentLoan \in FlashLoanFrame /\ currentLoan.legs \in Seq(FlashLoanLeg)
      /\ DOMAIN currentLoan.legs = 1 .. Len(currentLoan.legs)
      /\ j \in DOMAIN currentLoan.legs
      /\ last \in DOMAIN flashLoans /\ last \in 1 .. Len(flashLoans)
      /\ currentLeg = currentLoan.legs[j]
  <2>1. currentLoan \in FlashLoanFrame /\ j \in 1 .. Len(currentLoan.legs)
    BY <1>1, <1>2, CurrentLoanOK DEF FrameOK
  <2>2. currentLoan.legs \in Seq(FlashLoanLeg)
    BY <2>1 DEF FlashLoanFrame
  <2>3. flashLoans \in Seq(FlashLoanFrame) /\ last \in 1 .. Len(flashLoans)
    BY <1>1, InvFacts, CurrentLoanOK
  <2> QED BY <2>1, <2>2, <2>3, LenProperties DEF currentLeg
<1>4. unsettled(currentLoan) = {i \in DOMAIN currentLoan.legs : i < j}
    BY <1>1, UnsettledLegs
<1>5. PICK f : /\ flashLoans' = [flashLoans EXCEPT ![Len(flashLoans)] = f]
               /\ f.legs = currentLoan.legs
               /\ j \in unsettled(f) /\ unsettled(currentLoan) \subseteq unsettled(f)
  <2>1. CASE currentLoan.next = Len(currentLoan.legs)
    <3> DEFINE f == [currentLoan EXCEPT !.stage = CALLBACK, !.next = 1]
    <3>1. flashLoans' = [flashLoans EXCEPT ![Len(flashLoans)] = f]
      BY <1>1, <2>1, StageFrame
    <3>2. f.legs = currentLoan.legs /\ f.stage = CALLBACK
      BY <1>3 DEF FlashLoanFrame
    <3> HIDE DEF f
    <3>3. unsettled(f) = DOMAIN currentLoan.legs
      BY <3>2, UnsettledLegs
    <3> QED BY <1>3, <1>4, <3>1, <3>2, <3>3
  <2>2. CASE currentLoan.next # Len(currentLoan.legs)
    <3> DEFINE f == [currentLoan EXCEPT !.next = @ + 1]
    <3>1. flashLoans' = [flashLoans EXCEPT ![Len(flashLoans)] = f]
      BY <1>1, <2>2 DEF nextLeg, currentLoan
    <3>2. f.legs = currentLoan.legs /\ f.stage = LENDING /\ f.next = j + 1
      BY <1>1, <1>3 DEF FlashLoanFrame
    <3> HIDE DEF f
    <3>3. unsettled(f) = {i \in DOMAIN currentLoan.legs : i < j + 1}
      BY <3>2, UnsettledLegs
    <3>4. j \in unsettled(f) /\ unsettled(currentLoan) \subseteq unsettled(f)
      <4> HIDE DEF j
      <4> QED BY <1>3, <1>4, <3>3
    <3> QED BY <3>1, <3>2, <3>4
  <2> QED BY <2>1, <2>2
<1>6. LentKept
    BY <1>1, <1>5, FrameReplaced DEF LentKept
<1>7. PICK a : a = asset
    OBVIOUS
<1>8. lentOut(a)'
  <2>1. last \in DOMAIN flashLoans' /\ flashLoans'[last] = f
    BY <1>3, <1>5
  <2>2. j \in unsettled(flashLoans'[last]) /\ flashLoans'[last].legs[j].asset = a
    BY <1>3, <1>5, <1>7, <2>1
  <2>3. \E k \in DOMAIN flashLoans' : \E i \in unsettled(flashLoans'[k]) :
            flashLoans'[k].legs[i].asset = a
    BY <2>1, <2>2
  <2> QED BY <2>3 DEF lentOut, unsettled
<1>9. /\ a \in Asset /\ reserves \in [Asset -> Reserve] /\ reservesList \subseteq Asset
      /\ \A b \in Asset \ {a} : reserves'[b] = reserves[b]
    BY <1>1, <1>7, InvFacts
<1>10. \A b \in reservesList : RatesFollow(b)
    BY <1>6, <1>8, <1>9 DEF RatesFollow, SameQuotation, LentKept
<1>11. \A b \in Asset \ reservesList :
           reserves'[b].lastUpdateTimestamp = reserves[b].lastUpdateTimestamp
    BY <1>1, <1>7, <1>9
<1> QED BY <1>1, <1>10, <1>11, RateStep

\* The callback returns: nothing is settled yet, and a loan of no leg ends.
LEMMA FlashLoanReturnRates ==
    ASSUME IInv, RInv, FlashLoanReturn
    PROVE  RInv'
<1>1. /\ flashLoans # <<>> /\ currentLoan.stage = CALLBACK
      /\ UNCHANGED <<reserves, reservesList, now>>
      /\ IF currentLoan.legs = <<>> THEN endFlashLoan ELSE enterStage(SETTLING)
    BY DEF FlashLoanReturn, inStage, poolVars
<1>2. /\ currentLoan \in FlashLoanFrame /\ currentLoan.legs \in Seq(FlashLoanLeg)
      /\ DOMAIN currentLoan.legs = 1 .. Len(currentLoan.legs)
      /\ Len(currentLoan.legs) \in Nat
  <2>1. currentLoan \in FlashLoanFrame
    BY <1>1, CurrentLoanOK DEF FrameOK
  <2>2. currentLoan.legs \in Seq(FlashLoanLeg)
    BY <2>1 DEF FlashLoanFrame
  <2> QED BY <2>1, <2>2, LenProperties
<1>3. unsettled(currentLoan) = DOMAIN currentLoan.legs
    BY <1>1, UnsettledLegs
<1>4. CASE currentLoan.legs = <<>>
  <2>1. unsettled(currentLoan) = {}
    <3>1. Len(currentLoan.legs) = 0
      BY <1>2, <1>4, EmptySeq
    <3> QED BY <1>2, <1>3, <3>1
  <2>2. LentKept
    BY <1>1, <1>4, <2>1, FrameDropped DEF LentKept
  <2> QED BY <1>1, <2>2, OtherRates
<1>5. CASE currentLoan.legs # <<>>
  <2> DEFINE f == [currentLoan EXCEPT !.stage = SETTLING, !.next = 1]
  <2>1. flashLoans' = [flashLoans EXCEPT ![Len(flashLoans)] = f]
    BY <1>1, <1>5, StageFrame
  <2>2. f.legs = currentLoan.legs /\ f.stage = SETTLING /\ f.next = 1
    BY <1>2 DEF FlashLoanFrame
  <2> HIDE DEF f
  <2>3. unsettled(f) = {i \in DOMAIN currentLoan.legs : i >= 1}
    BY <2>2, UnsettledLegs
  <2>4. unsettled(currentLoan) \subseteq unsettled(f)
    BY <1>2, <1>3, <2>3
  <2>5. LentKept
    BY <1>1, <2>1, <2>2, <2>4, FrameReplaced DEF LentKept
  <2> QED BY <1>1, <2>5, OtherRates
<1> QED BY <1>4, <1>5

\* What a leg paid back brings is in the liquidity its rates were quoted for.
LEMMA PayBackQuotes ==
    ASSUME IInv, NEW leg \in FlashLoanLeg, NEW receiver \in Account, leg.asset \in reservesList,
           payBack(leg, receiver)
    PROVE  \E n : setReserve(leg.asset, n) /\ Quoted(n)
<1> DEFINE r   == reserves[leg.asset]
           premium == flashLoanPremium(leg.amount)
           due == leg.amount + premium
           r1  == updateState(r, now)
           total == aTokenTotalSupply(r1, now)
           r2  == cumulateToLiquidityIndex(r1, total, premium)
           r3  == updateInterestRates(r2, due, 0, now)
           r4  == [r3 EXCEPT !.liquidity = @ + due]
<1>1. updateStateAccepted(r, now) /\ total # 0 /\ setReserve(leg.asset, r4)
    BY DEF payBack
<1>2. premium \in Nat /\ due \in Nat
  <2>1. leg.amount \in Nat
    BY DEF FlashLoanLeg
  <2>2. leg.amount * FLASHLOAN_PREMIUM_TOTAL \in Nat
    BY <2>1, PoolConstantsAssumption
  <2>3. premium \in Nat
    BY <2>2, DivProp, ScalePositive DEF flashLoanPremium
  <2> HIDE DEF premium
  <2> QED BY <2>1, <2>3
<1>3. now \in Nat /\ ListedOK(r1, now)
    BY <1>1, InvFacts, AccruedUpdateState DEF Accrued
<1>4. total \in Nat \ {0}
    BY <1>1, <1>3, ReserveViews, TreasuryAssumption
<1> HIDE DEF r, premium, due, r1, total
<1>5. ListedOK(r2, now)
    BY <1>2, <1>3, <1>4, CumulateToLiquidityIndex
<1>6. r2 \in Reserve
    BY <1>5 DEF ListedOK, ReserveOK
<1> HIDE DEF r2
<1>7. Quoted(r4)
    BY <1>2, <1>6, QuotedIncoming
<1> QED BY <1>1, <1>7

\* The second loop of LendingPool.flashLoan: the leg's reserve is quoted anew,
\* whether the leg is paid back or becomes a debt.
LEMMA FlashLoanSettleRates ==
    ASSUME IInv, RInv, FlashLoanSettle
    PROVE  RInv'
<1> DEFINE j == currentLoan.next
<1>1. /\ flashLoans # <<>> /\ currentLoan.stage = SETTLING
      /\ currentLeg.asset \in reservesList
      /\ IF currentLeg.mode = NONE
         THEN payBack(currentLeg, currentLoan.receiver)
         ELSE ExecuteBorrow(currentLeg.asset, currentLoan.initiator, currentLoan.onBehalfOf,
                            currentLeg.amount, currentLeg.mode, FALSE)
      /\ IF currentLoan.next = Len(currentLoan.legs) THEN endFlashLoan ELSE nextLeg
      /\ UNCHANGED <<reservesList, now>>
    BY DEF FlashLoanSettle, keepAsDebt, inStage, Listed
<1>2. SETTLING # CALLBACK
    BY DEF SETTLING, CALLBACK
<1>3. /\ currentLoan \in FlashLoanFrame /\ currentLeg \in FlashLoanLeg
      /\ DOMAIN currentLoan.legs = 1 .. Len(currentLoan.legs) /\ Len(currentLoan.legs) \in Nat
      /\ j \in 1 .. Len(currentLoan.legs)
      /\ currentLeg = currentLoan.legs[j]
  <2>1. currentLoan \in FlashLoanFrame /\ j \in 1 .. Len(currentLoan.legs)
    BY <1>1, <1>2, CurrentLoanOK DEF FrameOK
  <2>2. currentLoan.legs \in Seq(FlashLoanLeg) /\ currentLeg \in FlashLoanLeg
    BY <1>1, <2>1, CurrentLoanOK DEF FlashLoanFrame, currentLeg
  <2> QED BY <2>1, <2>2, LenProperties DEF currentLeg
<1>4. unsettled(currentLoan) = {i \in DOMAIN currentLoan.legs : i >= j}
    BY <1>1, UnsettledLegs
<1>5. PICK a : a = currentLeg.asset
    OBVIOUS
<1>6. PICK n : setReserve(a, n) /\ Quoted(n)
  <2>1. CASE currentLeg.mode = NONE
    <3>1. currentLoan.receiver \in Account
      BY <1>3 DEF FlashLoanFrame
    <3> QED BY <1>1, <1>3, <1>5, <2>1, <3>1, PayBackQuotes
  <2>2. CASE currentLeg.mode # NONE
    <3>1. /\ currentLoan.initiator \in Account /\ currentLoan.onBehalfOf \in Account
          /\ currentLeg.amount \in Nat /\ currentLeg.mode \in RateMode /\ FALSE \in BOOLEAN
      BY <1>3, <2>2 DEF FlashLoanFrame, FlashLoanLeg
    <3> QED BY <1>1, <1>5, <2>2, <3>1, ExecuteBorrowQuotes
  <2> QED BY <2>1, <2>2
<1>7. ASSUME NEW b, b # a PROVE lentOut(b) => lentOut(b)'
  <2>1. CASE currentLoan.next = Len(currentLoan.legs)
    <3>1. unsettled(currentLoan) = {j}
      <4> HIDE DEF j
      <4>1. j = Len(currentLoan.legs)
        BY <2>1 DEF j
      <4> QED BY <1>3, <1>4, <4>1
    <3>2. \A i \in unsettled(currentLoan) : currentLoan.legs[i].asset # b
      BY <1>3, <1>5, <1>7, <3>1
    <3> QED BY <1>1, <2>1, <3>2, FrameDropped
  <2>2. CASE currentLoan.next # Len(currentLoan.legs)
    <3> DEFINE f == [currentLoan EXCEPT !.next = @ + 1]
    <3>1. flashLoans' = [flashLoans EXCEPT ![Len(flashLoans)] = f]
      BY <1>1, <2>2 DEF nextLeg, currentLoan
    <3>2. f.legs = currentLoan.legs /\ f.stage = SETTLING /\ f.next = j + 1
      BY <1>1, <1>3 DEF FlashLoanFrame
    <3> HIDE DEF f
    <3>3. unsettled(f) = {i \in DOMAIN currentLoan.legs : i >= j + 1}
      BY <3>2, UnsettledLegs
    <3>4. \A i \in unsettled(currentLoan) : currentLoan.legs[i].asset = b => i \in unsettled(f)
      <4>1. \A i \in unsettled(currentLoan) \ {j} : i \in unsettled(f)
        <5> HIDE DEF j
        <5> QED BY <1>3, <1>4, <3>3
      <4> QED BY <1>3, <1>5, <1>7, <4>1
    <3> QED BY <1>1, <3>1, <3>2, <3>4, FrameReplaced
  <2> QED BY <2>1, <2>2
<1>8. /\ a \in reservesList /\ reserves'[a] = n /\ reservesList \subseteq Asset
      /\ \A b \in Asset \ {a} : reserves'[b] = reserves[b]
    BY <1>1, <1>5, <1>6, InvFacts DEF setReserve
<1>9. \A b \in reservesList : RatesFollow(b)
    BY <1>6, <1>7, <1>8 DEF RatesFollow, SameQuotation
<1>10. \A b \in Asset \ reservesList :
           reserves'[b].lastUpdateTimestamp = reserves[b].lastUpdateTimestamp
    BY <1>8
<1> QED BY <1>1, <1>9, <1>10, RateStep

-----------------------------------------------------------------------------
(* Rates and the admins, the oracle and the clock *)

\* A change of the configuration word keeps what is quoted, unless it gives a
\* listed reserve another reserve factor or another strategy.
LEMMA ReconfigureRates ==
    ASSUME IInv, RInv, NEW a \in Asset, NEW n,
           reserves' = [reserves EXCEPT ![a] = n],
           n.lastUpdateTimestamp = reserves[a].lastUpdateTimestamp,
           a \in reservesList => SameQuotation(reserves[a], n),
           UNCHANGED <<reservesList, now, flashLoans>>
    PROVE  RInv'
<1>1. /\ reserves'[a] = n /\ \A b \in Asset \ {a} : reserves'[b] = reserves[b]
      /\ reservesList \subseteq Asset
    BY InvFacts
<1>2. LentKept
    BY SameLoans
<1>3. \A b \in reservesList : RatesFollow(b)
    BY <1>1, <1>2 DEF RatesFollow, SameQuotation, LentKept
<1>4. \A b \in Asset \ reservesList :
          reserves'[b].lastUpdateTimestamp = reserves[b].lastUpdateTimestamp
    BY <1>1
<1> QED BY <1>3, <1>4, RateStep

\* So does one of the configuration alone.
LEMMA SetConfigurationRates ==
    ASSUME IInv, RInv, NEW a \in Asset, NEW c, setConfiguration(a, c),
           a \in reservesList => c.reserveFactor = reserves[a].config.reserveFactor
    PROVE  RInv'
<1> DEFINE n == [reserves[a] EXCEPT !.config = c]
<1>1. reserves[a] \in Reserve /\ reserves \in [Asset -> Reserve]
    BY InvFacts
<1>2. reserves' = [reserves EXCEPT ![a] = n] /\ UNCHANGED <<reservesList, now, flashLoans>>
    BY <1>1 DEF setConfiguration
<1>3. /\ n.lastUpdateTimestamp = reserves[a].lastUpdateTimestamp
      /\ a \in reservesList => SameQuotation(reserves[a], n)
    BY <1>1 DEF SameQuotation, Reserve
<1> HIDE DEF n
<1> QED BY <1>2, <1>3, ReconfigureRates

\* The configurations that the admin may write, but for the reserve factor.
LEMMA AdminRates ==
    ASSUME IInv, RInv, NEW a \in Asset,
           \/ \E b \in BOOLEAN : EnableBorrowingOnReserve(a, b)
           \/ DisableBorrowingOnReserve(a)
           \/ \E ltv, threshold, bonus \in Nat :
                ConfigureReserveAsCollateral(a, ltv, threshold, bonus)
           \/ EnableReserveStableRate(a)
           \/ DisableReserveStableRate(a)
           \/ ActivateReserve(a)
           \/ DeactivateReserve(a)
           \/ FreezeReserve(a)
           \/ UnfreezeReserve(a)
    PROVE  RInv'
<1> DEFINE c == reserves[a].config
<1>1. c \in Configuration
    BY InvFacts, ReserveFields
<1>2. ASSUME NEW d, d.reserveFactor = c.reserveFactor, setConfiguration(a, d) PROVE RInv'
    BY <1>2, SetConfigurationRates
<1> HIDE DEF c
<1>3. ASSUME NEW b \in BOOLEAN, EnableBorrowingOnReserve(a, b) PROVE RInv'
  <2> DEFINE d == [c EXCEPT !.borrowingEnabled = TRUE, !.stableRateBorrowingEnabled = b]
  <2>1. d.reserveFactor = c.reserveFactor
    BY <1>1 DEF Configuration
  <2>2. setConfiguration(a, d)
    BY <1>3 DEF EnableBorrowingOnReserve, c
  <2> HIDE DEF d
  <2> QED BY <1>2, <2>1, <2>2
<1>4. ASSUME NEW ltv \in Nat, NEW threshold \in Nat, NEW bonus \in Nat,
             ConfigureReserveAsCollateral(a, ltv, threshold, bonus)
      PROVE  RInv'
  <2> DEFINE d == [c EXCEPT !.ltv = ltv, !.liquidationThreshold = threshold,
                            !.liquidationBonus = bonus]
  <2>1. d.reserveFactor = c.reserveFactor
    BY <1>1 DEF Configuration
  <2>2. setConfiguration(a, d)
    BY <1>4 DEF ConfigureReserveAsCollateral, c
  <2> HIDE DEF d
  <2> QED BY <1>2, <2>1, <2>2
<1>5. ASSUME NEW d, \/ d = [c EXCEPT !.borrowingEnabled = FALSE]
                    \/ d = [c EXCEPT !.stableRateBorrowingEnabled = TRUE]
                    \/ d = [c EXCEPT !.stableRateBorrowingEnabled = FALSE]
                    \/ d = [c EXCEPT !.active = TRUE]
                    \/ d = [c EXCEPT !.active = FALSE]
                    \/ d = [c EXCEPT !.frozen = TRUE]
                    \/ d = [c EXCEPT !.frozen = FALSE],
             setConfiguration(a, d)
      PROVE  RInv'
  <2>1. d.reserveFactor = c.reserveFactor
    BY <1>1, <1>5 DEF Configuration
  <2> QED BY <1>2, <1>5, <2>1
<1>6. CASE DisableBorrowingOnReserve(a)
    BY <1>5, <1>6 DEF DisableBorrowingOnReserve, c
<1>7. CASE EnableReserveStableRate(a)
    BY <1>5, <1>7 DEF EnableReserveStableRate, c
<1>8. CASE DisableReserveStableRate(a)
    BY <1>5, <1>8 DEF DisableReserveStableRate, c
<1>9. CASE ActivateReserve(a)
    BY <1>5, <1>9 DEF ActivateReserve, c
<1>10. CASE DeactivateReserve(a)
    BY <1>5, <1>10 DEF DeactivateReserve, c
<1>11. CASE FreezeReserve(a)
    BY <1>5, <1>11 DEF FreezeReserve, c
<1>12. CASE UnfreezeReserve(a)
    BY <1>5, <1>12 DEF UnfreezeReserve, c
<1> QED BY <1>3, <1>4, <1>6, <1>7, <1>8, <1>9, <1>10, <1>11, <1>12

\* LendingPoolConfigurator.initReserve: no rates are stored before the first
\* operation, and no operation has stamped the reserve.
LEMMA InitReserveRates ==
    ASSUME IInv, RInv, NEW asset \in Asset, NEW strategy \in Strategy, NEW unit \in Nat,
           InitReserve(asset, strategy, unit)
    PROVE  RInv'
<1> DEFINE r == reserves[asset]
           n == [initReserve(r, strategy) EXCEPT
                    !.config = [@ EXCEPT !.unit = unit, !.active = TRUE, !.frozen = FALSE]]
<1>1. /\ asset \notin reservesList /\ reservesList' = reservesList \cup {asset}
      /\ reserves' = [reserves EXCEPT ![asset] = n]
      /\ now' = now /\ flashLoans' = flashLoans
    BY DEF InitReserve, Listed, setReserve
<1>2. n.lastUpdateTimestamp = r.lastUpdateTimestamp
    BY InvFacts DEF initReserve, Reserve
<1> HIDE DEF n
<1>3. /\ reserves'[asset].lastUpdateTimestamp = 0
      /\ \A b \in Asset \ {asset} : reserves'[b] = reserves[b]
      /\ reservesList \subseteq Asset
    BY <1>1, <1>2, InvFacts DEF RInv
<1>4. ASSUME NEW b \in reservesList', b # asset PROVE QuotedOrLent(b)'
  <2>1. b \in reservesList /\ reserves'[b] = reserves[b]
    BY <1>1, <1>3, <1>4
  <2>2. QuotedOrLent(b)
    BY <2>1 DEF RInv
  <2>3. lentOut(b) => lentOut(b)'
    BY <1>1, <2>1, SameLoans DEF LentKept
  <2>4. Quoted(reserves[b]) => Quoted(reserves[b])'
    BY <1>1, <2>1, QuotedNext
  <2> QED BY <1>1, <2>1, <2>2, <2>3, <2>4 DEF QuotedOrLent
<1>5. PICK d : d = asset
    OBVIOUS
<1>6. QuotedOrLent(d)'
    BY <1>1, <1>3, <1>5 DEF QuotedOrLent, RInv
<1>7. \A b \in reservesList' : QuotedOrLent(b)'
    BY <1>4, <1>5, <1>6
<1>8. \A b \in Asset \ reservesList' : reserves'[b].lastUpdateTimestamp = 0
    BY <1>1, <1>3 DEF RInv
<1>9. now' # 0
    BY <1>1 DEF RInv
<1> QED BY <1>7, <1>8, <1>9 DEF RInv

\* A later block: no reserve is stamped with it yet.
LEMMA TickRates ==
    ASSUME IInv, RInv, Tick
    PROVE  RInv'
<1>1. PICK dt \in TimeSteps : now' = now + dt
    BY DEF Tick
<1>2. now \in Nat /\ dt \in Nat
    BY InvFacts, InputAssumption
<1>3. UNCHANGED <<reserves, reservesList, flashLoans>>
    BY DEF Tick, poolVars
<1>4. CASE dt = 0
    BY <1>1, <1>2, <1>3, <1>4, SameLoans, OtherRates
<1>5. CASE dt # 0
  <2>1. \A b \in reservesList : reserves[b].lastUpdateTimestamp # now'
    <3> SUFFICES ASSUME NEW b \in reservesList
                 PROVE  reserves[b].lastUpdateTimestamp # now'
      OBVIOUS
    <3>1. reserves[b] \in Reserve /\ reserves[b].lastUpdateTimestamp <= now
      BY InvFacts DEF ListedOK, ReserveOK
    <3>2. reserves[b].lastUpdateTimestamp \in Nat
      BY <3>1, ReserveFields
    <3> QED BY <1>1, <1>2, <1>5, <3>1, <3>2
  <2>2. \A b \in reservesList' : QuotedOrLent(b)'
    BY <1>3, <2>1 DEF QuotedOrLent
  <2>3. \A b \in Asset \ reservesList' : reserves'[b].lastUpdateTimestamp = 0
    BY <1>3 DEF RInv
  <2>4. now' # 0
    BY <1>1, <1>2, <1>5
  <2> QED BY <2>2, <2>3, <2>4 DEF RInv
<1> QED BY <1>4, <1>5

-----------------------------------------------------------------------------
(* Rates, whatever is done *)

\* The steps that leave rates behind: a listed reserve is given another reserve
\* factor or another strategy, and the seizure, in funds, of collateral of the
\* reserve of the debt, whose rates are computed before the repayment is pulled.
LeavesRatesBehind ==
    \/ \E a \in reservesList :
          \/ reserves'[a].config.reserveFactor # reserves[a].config.reserveFactor
          \/ reserves'[a].strategy # reserves[a].strategy
    \/ \E u, v \in User, a \in Asset, n \in LiquidationAmounts :
          LiquidationCall(u, a, a, v, n, FALSE)

\* Users and the treasury quote what they move.
LEMMA UserRates ==
    ASSUME IInv, RInv, UserStep \/ TreasuryStep, ~LeavesRatesBehind
    PROVE  RInv'
<1>1. /\ User \subseteq Account /\ Treasury \in Account
      /\ DepositAmounts \subseteq Nat /\ WithdrawAmounts \subseteq Nat
      /\ BorrowAmounts \subseteq Nat /\ RepayAmounts \subseteq Nat
      /\ TransferAmounts \subseteq Nat /\ LiquidationAmounts \subseteq Nat
      /\ AllowanceAmounts \subseteq Nat
    BY InputAssumption, TreasuryAssumption
<1>2. CASE TreasuryStep
    BY <1>1, <1>2, WithdrawRates DEF TreasuryStep
<1>3. CASE UserStep
  <2>1. CASE DepositStep
    BY <1>1, <2>1, DepositRates DEF DepositStep
  <2>2. CASE WithdrawStep
    BY <1>1, <2>2, WithdrawRates DEF WithdrawStep
  <2>3. CASE BorrowStep
    BY <1>1, <2>3, BorrowRates DEF BorrowStep
  <2>4. CASE RepayStep
    BY <1>1, <2>4, RepayRates DEF RepayStep
  <2>5. CASE SwapStep
    BY <1>1, <2>5, SwapRates DEF SwapStep
  <2>6. CASE RebalanceStep
    BY <1>1, <2>6, RebalanceRates DEF RebalanceStep
  <2>7. CASE CollateralStep
    BY <2>7, SameLoans, OtherRates DEF CollateralStep, SetUserUseReserveAsCollateral
  <2>8. CASE TransferStep
    BY <1>1, <2>8, TransferRates DEF TransferStep
  <2>9. CASE ApproveStep
    BY <2>9, SameLoans, OtherRates DEF ApproveStep, ApproveDelegation
  <2>10. CASE LiquidationStep
    <3>1. PICK u \in User, v \in User, a \in Asset, d \in Asset, n \in LiquidationAmounts,
               b \in BOOLEAN : LiquidationCall(u, a, d, v, n, b)
      BY <2>10 DEF LiquidationStep
    <3>2. b \/ a # d
      BY <3>1 DEF LeavesRatesBehind
    <3> QED BY <1>1, <3>1, <3>2, LiquidationRates
  <2> QED BY <1>3, <2>1, <2>2, <2>3, <2>4, <2>5, <2>6, <2>7, <2>8, <2>9, <2>10 DEF UserStep
<1> QED BY <1>2, <1>3

\* Flash loans leave the rates behind only while they are lent out.
LEMMA FlashLoanRates ==
    ASSUME IInv, RInv, FlashLoanStep
    PROVE  RInv'
<1>1. ASSUME NEW u \in User, NEW v \in User, NEW w \in User, NEW legs \in FlashLoanLegs,
             FlashLoanBegin(u, v, legs, w)
      PROVE  RInv'
    BY <1>1, InputAssumption, FlashLoanBeginRates
<1> QED BY <1>1, FlashLoanLendRates, FlashLoanReturnRates, FlashLoanSettleRates
        DEF FlashLoanStep, FlashLoanBeginStep

\* The admins change what is quoted only as LeavesRatesBehind says.
LEMMA ConfiguratorRates ==
    ASSUME IInv, RInv, AdminStep, ~LeavesRatesBehind
    PROVE  RInv'
<1>1. ASSUME NEW a \in Asset, NEW s \in Strategies, NEW n \in Units, InitReserve(a, s, n)
      PROVE  RInv'
    BY <1>1, InputAssumption, InitReserveRates
<1>2. ASSUME NEW a \in AdminAssets, NEW p \in CollateralParams,
             ConfigureReserveAsCollateral(a, p.ltv, p.liquidationThreshold, p.liquidationBonus)
      PROVE  RInv'
    BY <1>2, InputAssumption, AdminRates
<1>3. ASSUME NEW a \in AdminAssets, NEW s \in Strategies,
             SetReserveInterestRateStrategyAddress(a, s)
      PROVE  RInv'
  <2>1. a \in Asset /\ reserves[a] \in Reserve /\ reserves \in [Asset -> Reserve]
    BY InvFacts, InputAssumption
  <2> DEFINE n == [reserves[a] EXCEPT !.strategy = s]
  <2>2. reserves' = [reserves EXCEPT ![a] = n] /\ UNCHANGED <<reservesList, now, flashLoans>>
    BY <1>3, <2>1 DEF SetReserveInterestRateStrategyAddress
  <2>3. a \in reservesList => s = reserves[a].strategy
    BY <2>1, <2>2 DEF LeavesRatesBehind, Reserve
  <2>4. /\ n.lastUpdateTimestamp = reserves[a].lastUpdateTimestamp
        /\ a \in reservesList => SameQuotation(reserves[a], n)
    BY <2>1, <2>3 DEF SameQuotation, Reserve
  <2> HIDE DEF n
  <2> QED BY <2>1, <2>2, <2>4, ReconfigureRates
<1>4. ASSUME NEW b \in PauseValues, SetPoolPause(b)
      PROVE  RInv'
    BY <1>4, SameLoans, OtherRates DEF SetPoolPause
<1>5. ASSUME NEW a \in AdminAssets, NEW f \in ReserveFactors, SetReserveFactor(a, f)
      PROVE  RInv'
  <2> DEFINE d == [reserves[a].config EXCEPT !.reserveFactor = f]
  <2>1. a \in Asset /\ reserves[a] \in Reserve /\ reserves \in [Asset -> Reserve]
        /\ reserves[a].config \in Configuration
    BY InvFacts, InputAssumption, ReserveFields
  <2>2. setConfiguration(a, d) /\ d.reserveFactor = f
    BY <1>5, <2>1 DEF SetReserveFactor, Configuration
  <2> HIDE DEF d
  <2>3. reserves'[a].config = d
    BY <2>1, <2>2 DEF setConfiguration, Reserve
  <2>4. a \in reservesList => d.reserveFactor = reserves[a].config.reserveFactor
    BY <2>3 DEF LeavesRatesBehind
  <2> QED BY <2>1, <2>2, <2>4, SetConfigurationRates
<1>6. ASSUME NEW a \in AdminAssets,
             \/ \E b \in BOOLEAN : EnableBorrowingOnReserve(a, b)
             \/ DisableBorrowingOnReserve(a)
             \/ EnableReserveStableRate(a)
             \/ DisableReserveStableRate(a)
             \/ ActivateReserve(a)
             \/ DeactivateReserve(a)
             \/ FreezeReserve(a)
             \/ UnfreezeReserve(a)
      PROVE  RInv'
    BY <1>6, InputAssumption, AdminRates
<1> QED BY <1>1, <1>2, <1>3, <1>4, <1>5, <1>6 DEF AdminStep

\* Whatever is done, the invariant is kept but for those two ways.
LEMMA RatesNext == IInv /\ RInv /\ [Next /\ ~LeavesRatesBehind]_vars => RInv'
<1> SUFFICES ASSUME IInv, RInv, [Next /\ ~LeavesRatesBehind]_vars PROVE RInv'
    OBVIOUS
<1>1. CASE UNCHANGED vars
    BY <1>1, SameLoans, OtherRates DEF vars, poolVars
<1>2. CASE PriceChange
    BY <1>2, SameLoans, OtherRates DEF PriceChange, poolVars
<1> QED BY <1>1, <1>2, TickRates, UserRates, FlashLoanRates, ConfiguratorRates DEF Next

\* The rates stored for a reserve that an operation touched in this block are those
\* the strategy quotes for the funds and the debts the operation left, whatever calls
\* of whichever users came before and whichever loans were nested in it: every
\* operation of the pool quotes before the funds move, and is told the difference.
\* The two ways to leave them behind are those of LeavesRatesBehind.
THEOREM RatesFollowTheFunds ==
    Spec /\ [][~LeavesRatesBehind]_vars => []RatesFollowUtilization
<1>1. Init => RInv
  <2> SUFFICES ASSUME Init PROVE RInv
    OBVIOUS
  <2>1. now = 1 /\ reservesList = {} /\ \A a \in Asset : reserves[a].lastUpdateTimestamp = 0
    BY DEF Init, EmptyReserve
  <2> QED BY <2>1 DEF RInv
<1>2. IInv /\ RInv /\ [Next /\ ~LeavesRatesBehind]_vars => RInv'
    BY RatesNext
<1>3. [Next]_vars /\ [~LeavesRatesBehind]_vars => [Next /\ ~LeavesRatesBehind]_vars
    OBVIOUS
<1>4. IInv /\ RInv => RatesFollowUtilization
  <2> SUFFICES ASSUME IInv, RInv, NEW a \in reservesList, flashLoans = <<>>,
                      reserves[a].lastUpdateTimestamp = now
               PROVE  updateInterestRates(reserves[a], 0, 0, now) = reserves[a]
    BY DEF RatesFollowUtilization
  <2>1. ~lentOut(a)
    BY DEF lentOut
  <2>2. Quoted(reserves[a])
    BY <2>1 DEF RInv, QuotedOrLent
  <2>3. reserves[a] \in Reserve
    BY InvFacts
  <2> QED BY <2>2, <2>3, QuotedIsFixed
<1> QED BY <1>1, <1>2, <1>3, <1>4, InvariantHolds, PTL DEF Spec

-----------------------------------------------------------------------------
(* What a liquidation takes *)

\* What is shown is rounded by a positive number of units.
LEMMA RoundingType ==
    ASSUME NEW i \in Nat
    PROVE  rounding(i) \in Nat \ {0}
<1>1. i \div (2 * RAY) \in Nat
    BY HalfUnitInNat
<1> QED BY <1>1 DEF rounding

\* Burning an amount takes as much of what is shown, but for the rounding.
LEMMA BurnedShown ==
    ASSUME NEW b \in Nat, NEW amount \in Nat, NEW i \in Nat \ {0}, rayDiv(amount, i) <= b
    PROVE  /\ rayMul(b, i) <= rayMul(b - rayDiv(amount, i), i) + amount + rounding(i)
           /\ rayMul(b - rayDiv(amount, i), i) + amount <= rayMul(b, i) + rounding(i)
<1> DEFINE s == rayDiv(amount, i)
           c == b - s
           x == rayMul(b, i)
           y == rayMul(c, i)
           h == RAY \div 2
           g == i \div 2
           k == i \div (2 * RAY)
<1>1. s \in Nat /\ RAY \in Nat \ {0} /\ h \in Nat /\ k \in Nat /\ s <= b
    BY RoundedInNat, ScalePositive, HalfUnitInNat
<1>2. c \in Nat /\ c + s = b
  <2> HIDE DEF s
  <2> QED BY <1>1
<1>3. rayMul(b, i) <= rayMul(c, i) + amount + rounding(i)
  <2>1. rayMul(c + s, i) <= rayMul(c, i) + amount + 1 + i \div (2 * RAY)
    BY <1>2, MintedShown
  <2>2. x \in Nat /\ y \in Nat /\ i \div (2 * RAY) \in Nat
    BY <1>1, <1>2, RoundedInNat
  <2> HIDE DEF s, c
  <2> QED BY <1>2, <2>1, <2>2 DEF rounding
<1>4. g \in Nat /\ i <= 2 * g + 1
  <2>1. 2 \in Nat \ {0}
    OBVIOUS
  <2> QED BY <2>1, DivProp
<1>5. amount * RAY <= i * s + g
  <2>1. amount * RAY + g \in Nat
    BY <1>1, <1>4
  <2>2. amount * RAY + g < i * s + i
    BY <2>1, DivProp DEF rayDiv
  <2>3. amount * RAY \in Nat /\ i * s \in Nat
    BY <1>1
  <2> HIDE DEF s, g
  <2> QED BY <1>4, <2>2, <2>3
<1>6. x \in Nat /\ y \in Nat /\ b * i + h < RAY * x + RAY /\ RAY * y <= c * i + h
  <2>1. b * i + h \in Nat /\ c * i + h \in Nat
    BY <1>1, <1>2
  <2> QED BY <1>1, <1>2, <2>1, DivProp, RoundedInNat DEF rayMul
<1>7. g < RAY * (k + 1)
  <2>1. i < (2 * RAY) * k + 2 * RAY /\ 2 * g <= i
    BY HalfUnitInNat, DivProp
  <2> HIDE DEF k, g
  <2>2. (2 * RAY) * k + 2 * RAY = 2 * (RAY * (k + 1)) /\ RAY * (k + 1) \in Nat
    BY <1>1
  <2> QED BY <1>4, <2>1, <2>2
<1> HIDE DEF s, c, x, y, h, g, k
<1>8. b * i = c * i + i * s /\ c * i \in Nat /\ i * s \in Nat
  <2>1. (c + s) * i = c * i + i * s
    BY <1>1, <1>2
  <2> QED BY <1>1, <1>2, <2>1
<1>9. RAY * y + amount * RAY < RAY * x + RAY + RAY * (k + 1)
  <2>1. RAY * y \in Nat /\ RAY * x \in Nat /\ amount * RAY \in Nat /\ RAY * (k + 1) \in Nat
    BY <1>1, <1>6
  <2> QED BY <1>1, <1>4, <1>5, <1>6, <1>7, <1>8, <2>1
<1>10. y + amount < x + k + 2
  <2> DEFINE w == y + amount
             z == x + k + 2
  <2>1. w \in Nat /\ z \in Nat
    BY <1>1, <1>6
  <2>2. RAY * w < RAY * z
    <3>1. RAY * w = RAY * y + amount * RAY /\ RAY * z = RAY * x + RAY + RAY * (k + 1)
      BY <1>1, <1>6
    <3> QED BY <1>9, <3>1
  <2> HIDE DEF w, z
  <2>3. ASSUME z <= w PROVE FALSE
    <3>1. z * RAY <= w * RAY /\ z * RAY \in Nat /\ w * RAY \in Nat
      BY <1>1, <2>1, <2>3, ProductMonotone
    <3>2. z * RAY = RAY * z /\ w * RAY = RAY * w
      BY <1>1, <2>1
    <3> QED BY <2>2, <3>1, <3>2
  <2>4. w < z
    BY <2>1, <2>3
  <2> QED BY <2>4 DEF w, z
<1>11. y + amount <= x + (1 + k)
    BY <1>1, <1>6, <1>10
<1> QED BY <1>3, <1>11 DEF x, y, c, s, k, rounding

\* Nobody is shown another debt, or a smaller deposit, of the later record n.
DebtsKept(r, n) == \A u \in Account : owed(n, u) = owed(r, u)

DepositsKept(r, n) ==
    \A u \in Account : aTokenBalanceOf(r, u, now) <= aTokenBalanceOf(n, u, now)

\* What is owed and what is deposited are numbers.
LEMMA ShownTypes ==
    ASSUME NEW r, now \in Nat, ListedOK(r, now), NEW u \in Account
    PROVE  owed(r, u) \in Nat /\ aTokenBalanceOf(r, u, now) \in Nat
BY ReserveViews DEF owed

\* A reserve with the same debts, and the same index if anybody has a variable debt.
LEMMA SameDebts ==
    ASSUME NEW r, NEW n, now \in Nat, ListedOK(r, now), ListedOK(n, now),
           n.variableDebt = r.variableDebt, n.stableDebt = r.stableDebt,
           r.variableDebt.supply # 0 => getNormalizedDebt(n, now) = getNormalizedDebt(r, now)
    PROVE  DebtsKept(r, n)
<1> SUFFICES ASSUME NEW u \in Account PROVE owed(n, u) = owed(r, u)
    BY DEF DebtsKept
<1>1. variableDebtBalanceOf(n, u, now) = variableDebtBalanceOf(r, u, now)
  <2>1. CASE r.variableDebt.supply # 0
    BY <2>1 DEF variableDebtBalanceOf
  <2>2. CASE r.variableDebt.supply = 0
    <3>1. r.variableDebt.balance[u] = 0
      <4>1. r.variableDebt.balance[u] \in Nat /\ r.variableDebt.balance[u] <= r.variableDebt.supply
        BY ReserveBooks, BalancedTokenFields
      <4> QED BY <2>2, <4>1
    <3>2. getNormalizedDebt(r, now) \in Nat /\ getNormalizedDebt(n, now) \in Nat
      BY NormalizedIndexes
    <3> QED BY <3>1, <3>2, RayMulZero DEF variableDebtBalanceOf, balanceOf
  <2> QED BY <2>1, <2>2
<1> QED BY <1>1 DEF owed, stableDebtBalanceOf

\* More aTokens, at no lower an index, are no smaller a deposit.
LEMMA MoreTokens ==
    ASSUME NEW r, NEW n, now \in Nat, ListedOK(r, now), ListedOK(n, now), NEW u \in Account,
           getNormalizedIncome(r, now) <= getNormalizedIncome(n, now),
           r.aToken.balance[u] <= n.aToken.balance[u]
    PROVE  aTokenBalanceOf(r, u, now) <= aTokenBalanceOf(n, u, now)
<1> DEFINE x == r.aToken.balance[u]
           y == n.aToken.balance[u]
           i == getNormalizedIncome(r, now)
           j == getNormalizedIncome(n, now)
<1>1. x \in Nat /\ y \in Nat /\ i \in Nat /\ j \in Nat /\ x <= y /\ i <= j
    BY NormalizedIndexes, ReserveBooks, BalancedTokenFields
<1>2. aTokenBalanceOf(r, u, now) = rayMul(x, i) /\ aTokenBalanceOf(n, u, now) = rayMul(y, j)
    BY DEF aTokenBalanceOf, balanceOf
<1> HIDE DEF x, y, i, j
<1>3. rayMul(x, i) <= rayMul(y, i) /\ rayMul(y, i) <= rayMul(y, j)
    BY <1>1, RayMulMonotone
<1>4. rayMul(x, i) \in Nat /\ rayMul(y, i) \in Nat /\ rayMul(y, j) \in Nat
    BY <1>1, RoundedInNat
<1> QED BY <1>2, <1>3, <1>4

\* The index of the deposits that is shown is the one stored once the interest is committed.
LEMMA CommittedIncome ==
    ASSUME NEW r, NEW n, Accrued(r, n)
    PROVE  getNormalizedIncome(n, now) = n.liquidityIndex
BY DEF Accrued, getNormalizedIncome

\* The accrual shows the depositors what they were shown, and so the debtors if they are charged.
LEMMA UpdateStateKeeps ==
    ASSUME NEW r, now \in Nat, ListedOK(r, now)
    PROVE  LET n == updateState(r, now)
           IN  /\ Accrued(r, n) /\ getNormalizedIncome(n, now) = getNormalizedIncome(r, now)
               /\ DepositsKept(r, n)
               /\ (DebtorsAreCharged(r) => DebtsKept(r, n))
<1> DEFINE n == updateState(r, now)
<1>1. updateStateAccepted(r, now)
    BY AccrualIsAccepted
<1>2. /\ Accrued(r, n) /\ n.variableDebt = r.variableDebt /\ n.stableDebt = r.stableDebt
      /\ n.liquidityIndex = getNormalizedIncome(r, now)
    BY <1>1, AccruedUpdateState, UpdateState
<1>3. PICK fee \in Nat : n.aToken.balance = [r.aToken.balance EXCEPT ![Treasury] = @ + fee]
    BY <1>1, UpdateState
<1>4. r.variableDebt.supply # 0 /\ DebtorsAreCharged(r)
        => n.variableBorrowIndex = getNormalizedDebt(r, now)
    BY ShownIsCommitted
<1> HIDE DEF n
<1>5. ListedOK(n, now) /\ getNormalizedIncome(n, now) = getNormalizedIncome(r, now)
    BY <1>2, CommittedIncome DEF Accrued
<1>6. DepositsKept(r, n)
  <2> SUFFICES ASSUME NEW u \in Account
               PROVE  aTokenBalanceOf(r, u, now) <= aTokenBalanceOf(n, u, now)
    BY DEF DepositsKept
  <2>1. r.aToken.balance \in [Account -> Nat] /\ r.aToken.balance[u] \in Nat
    BY ReserveBooks, BalancedTokenFields
  <2>2. r.aToken.balance[u] <= n.aToken.balance[u]
    BY <1>3, <2>1
  <2>3. getNormalizedIncome(r, now) <= getNormalizedIncome(n, now)
    BY <1>5, NormalizedIndexes
  <2> QED BY <1>5, <2>2, <2>3, MoreTokens
<1>7. DebtorsAreCharged(r) => DebtsKept(r, n)
    BY <1>2, <1>4, <1>5, CommittedIndex, SameDebts
<1> QED BY <1>2, <1>5, <1>6, <1>7 DEF n

\* New rates change nothing that is shown once the interest is committed.
LEMMA RatesKeep ==
    ASSUME NEW r, NEW n, now \in Nat, Accrued(r, n), NEW added \in Nat, NEW taken \in Nat,
           updateInterestRatesAccepted(n, added, taken)
    PROVE  LET q == updateInterestRates(n, added, taken, now)
           IN  /\ Accrued(r, q) /\ getNormalizedIncome(q, now) = getNormalizedIncome(n, now)
               /\ q.aToken = n.aToken /\ DebtsKept(n, q)
               /\ q.liquidityIndex = n.liquidityIndex
<1> DEFINE q == updateInterestRates(n, added, taken, now)
<1>1. ListedOK(n, now)
    BY DEF Accrued
<1>2. /\ Accrued(r, q) /\ q.variableDebt = n.variableDebt /\ q.stableDebt = n.stableDebt
      /\ q.aToken = n.aToken
    BY AccruedUpdateInterestRates
<1>3. q.variableBorrowIndex = n.variableBorrowIndex /\ q.liquidityIndex = n.liquidityIndex
    BY <1>1, UpdateInterestRates
<1> HIDE DEF q
<1>4. /\ getNormalizedDebt(q, now) = getNormalizedDebt(n, now)
      /\ getNormalizedIncome(q, now) = getNormalizedIncome(n, now)
    BY <1>2, <1>3, CommittedIndex, CommittedIncome
<1>5. ListedOK(q, now)
    BY <1>2 DEF Accrued
<1>6. DebtsKept(n, q)
    BY <1>1, <1>2, <1>4, <1>5, SameDebts
<1> QED BY <1>2, <1>3, <1>4, <1>6 DEF q

\* Funds and aTokens that move leave the debts and the indexes that are shown.
LEMMA FundsKeep ==
    ASSUME NEW r, now \in Nat, ListedOK(r, now), NEW l \in Nat, NEW t \in BalancedToken
    PROVE  LET n == withFunds(r, l, t)
           IN  /\ ListedOK(n, now) /\ getNormalizedIncome(n, now) = getNormalizedIncome(r, now)
               /\ n.aToken = t /\ DebtsKept(r, n)
<1> DEFINE n == withFunds(r, l, t)
<1>1. r \in Reserve
    BY DEF ListedOK, ReserveOK
<1>2. /\ n.variableDebt = r.variableDebt /\ n.stableDebt = r.stableDebt /\ n.aToken = t
      /\ n.lastUpdateTimestamp = r.lastUpdateTimestamp
      /\ n.variableBorrowIndex = r.variableBorrowIndex
      /\ n.currentVariableBorrowRate = r.currentVariableBorrowRate
      /\ n.liquidityIndex = r.liquidityIndex /\ n.currentLiquidityRate = r.currentLiquidityRate
    BY <1>1 DEF withFunds, Reserve
<1>3. ListedOK(n, now)
    BY MoveFunds
<1> HIDE DEF n
<1>4. /\ getNormalizedDebt(n, now) = getNormalizedDebt(r, now)
      /\ getNormalizedIncome(n, now) = getNormalizedIncome(r, now)
    BY <1>2 DEF getNormalizedDebt, getNormalizedIncome
<1> QED BY <1>2, <1>3, <1>4, SameDebts DEF n

\* The debt of u in the record n is the one in r less the amount, but for k units.
Taken(r, n, u, amount, k) ==
    /\ owed(r, u) <= owed(n, u) + amount + k
    /\ owed(n, u) + amount <= owed(r, u) + k

OthersOwe(r, n, u) == \A v \in Account \ {u} : owed(n, v) = owed(r, v)

\* The deposits are as they were: the aTokens, and what one is worth.
SameDeposits(r, n) == n.aToken = r.aToken /\ n.liquidityIndex = r.liquidityIndex

\* A burn takes the amount from what one account owes, exactly if it is of a stable debt
\* or of the whole variable debt, and leaves the others and the deposits.
LEMMA BurnOwes ==
    ASSUME NEW r, NEW n, now \in Nat, Accrued(r, n), NEW u \in Account, NEW amount \in Nat,
           NEW m \in RateMode, burnDebtAccepted(n, u, amount, m)
    PROVE  LET q == burnDebt(n, u, amount, m)
           IN  /\ Accrued(r, q) /\ SameDeposits(n, q) /\ OthersOwe(n, q, u)
               /\ Taken(n, q, u, amount, rounding(getNormalizedDebt(n, now)))
               /\ m = STABLE \/ amount = variableDebtBalanceOf(n, u, now)
                     => Taken(n, q, u, amount, 0)
<1> DEFINE q == burnDebt(n, u, amount, m)
           i == n.variableBorrowIndex
           k == rounding(i)
<1>1. /\ n \in Reserve /\ ListedOK(n, now) /\ i \in Nat \ {0} /\ i >= RAY
      /\ n.stableDebt \in StableToken /\ StablePast(n.stableDebt, now)
      /\ n.variableDebt \in Token
      /\ n.variableDebt.balance \in [Account -> Nat]
    BY AccruedFields, ReserveFields, ReserveBooks, BalancedTokenFields, ScalePositive
       DEF ListedOK, ReserveOK
<1>2. Accrued(r, q) /\ getNormalizedDebt(n, now) = i /\ getNormalizedDebt(q, now) = i
  <2>1. Accrued(r, q) /\ q.variableBorrowIndex = i
    BY <1>1, AccruedBurnDebt, BurnDebt DEF Accrued
  <2> QED BY <2>1, CommittedIndex
<1>3. q.aToken = n.aToken /\ q.liquidityIndex = n.liquidityIndex
    BY <1>1 DEF burnDebt, Reserve
<1>4. \A v \in Account : /\ owed(n, v) = stableBalanceOf(n.stableDebt, v, now)
                                          + rayMul(n.variableDebt.balance[v], i)
                         /\ owed(q, v) = stableBalanceOf(q.stableDebt, v, now)
                                          + rayMul(q.variableDebt.balance[v], i)
    BY <1>2 DEF owed, stableDebtBalanceOf, variableDebtBalanceOf, balanceOf
<1>5. \A v \in Account : /\ stableBalanceOf(n.stableDebt, v, now) \in Nat
                         /\ rayMul(n.variableDebt.balance[v], i) \in Nat
    BY <1>1, StableViews, RoundedInNat
<1>6. k \in Nat
    BY <1>1, RoundingType
<1> HIDE DEF k
<1>7. CASE m = STABLE
  <2> DEFINE t == burnStable(n.stableDebt, u, amount, now)
  <2>1. q.stableDebt = t /\ q.variableDebt = n.variableDebt
    BY <1>1, <1>7 DEF burnDebt, Reserve
  <2>2. /\ stableBalanceOf(t, u, now) = stableBalanceOf(n.stableDebt, u, now) - amount
        /\ \A v \in Account \ {u} :
              stableBalanceOf(t, v, now) = stableBalanceOf(n.stableDebt, v, now)
    BY <1>1, <1>7, BurnStableTakes DEF burnDebtAccepted
  <2> HIDE DEF t, q, i
  <2>3. OthersOwe(n, q, u)
    BY <1>4, <2>1, <2>2 DEF OthersOwe
  <2>4. Taken(n, q, u, amount, k) /\ Taken(n, q, u, amount, 0)
    BY <1>4, <1>5, <1>6, <2>1, <2>2 DEF Taken
  <2> QED BY <1>2, <1>3, <2>3, <2>4 DEF q, k, SameDeposits
<1>8. CASE m # STABLE
  <2> DEFINE b == n.variableDebt.balance
             s == rayDiv(amount, i)
  <2>1. q.stableDebt = n.stableDebt /\ q.variableDebt.balance = [b EXCEPT ![u] = @ - s]
    BY <1>1, <1>8 DEF burnDebt, burn, burnScaled, Reserve, Token
  <2>2. s <= b[u]
    BY <1>8 DEF burnDebtAccepted, burnAccepted, burnScaledAccepted
  <2> HIDE DEF q
  <2>3. /\ q.variableDebt.balance[u] = b[u] - s
        /\ \A v \in Account \ {u} : q.variableDebt.balance[v] = b[v]
    BY <1>1, <2>1
  <2>4. b[u] \in Nat /\ s \in Nat
    BY <1>1, RoundedInNat
  <2>5. /\ rayMul(b[u], i) <= rayMul(b[u] - s, i) + amount + k
        /\ rayMul(b[u] - s, i) + amount <= rayMul(b[u], i) + k
    BY <1>1, <2>2, <2>4, BurnedShown DEF k
  <2>6. rayMul(b[u] - s, i) \in Nat /\ rayMul(b[u], i) \in Nat
    <3> HIDE DEF s, b, i
    <3>1. b[u] - s \in Nat
      BY <2>2, <2>4
    <3> QED BY <1>1, <2>4, <3>1, RoundedInNat
  <2>7. amount = rayMul(b[u], i) => rayMul(b[u] - s, i) = 0
    <3>1. CASE amount = rayMul(b[u], i)
      <4>1. s = b[u]
        BY <1>1, <2>4, <3>1, RoundTrip
      <4>2. b[u] - s = 0 /\ i \in Nat
        BY <1>1, <2>4, <4>1
      <4> QED BY <4>2, RayMulZero
    <3> QED BY <3>1
  <2>8. variableDebtBalanceOf(n, u, now) = rayMul(b[u], i)
    BY <1>2 DEF variableDebtBalanceOf, balanceOf
  <2> HIDE DEF i, b, s
  <2>9. OthersOwe(n, q, u)
    BY <1>4, <2>1, <2>3 DEF OthersOwe, b
  <2>10. Taken(n, q, u, amount, k)
    BY <1>4, <1>5, <1>6, <2>1, <2>3, <2>5, <2>6 DEF Taken, b
  <2>11. amount = variableDebtBalanceOf(n, u, now) => Taken(n, q, u, amount, 0)
    BY <1>4, <1>5, <2>1, <2>3, <2>6, <2>7, <2>8 DEF Taken, b
  <2> QED BY <1>2, <1>3, <1>8, <2>9, <2>10, <2>11 DEF q, k, SameDeposits
<1> QED BY <1>7, <1>8

\* The burns of a liquidation, of all the variable debt before any stable one.
LEMMA LiquidationBurnOwes ==
    ASSUME NEW r, NEW n, now \in Nat, Accrued(r, n), NEW u \in Account, NEW amount \in Nat,
           NEW debt \in Nat, debt = variableDebtBalanceOf(n, u, now),
           burnLiquidatedAccepted(n, u, amount, debt)
    PROVE  LET q == burnLiquidated(n, u, amount, debt)
           IN  /\ Accrued(r, q) /\ SameDeposits(n, q) /\ OthersOwe(n, q, u)
               /\ Taken(n, q, u, amount, rounding(getNormalizedDebt(n, now)))
<1>1. STABLE \in RateMode /\ VARIABLE_RATE \in RateMode /\ STABLE # VARIABLE_RATE
    BY DEF RateMode, STABLE, VARIABLE_RATE
<1>2. CASE debt >= amount
  <2>1. burnLiquidated(n, u, amount, debt) = burnDebt(n, u, amount, VARIABLE_RATE)
    BY <1>2 DEF burnLiquidated
  <2>2. burnDebtAccepted(n, u, amount, VARIABLE_RATE)
    BY <1>2 DEF burnLiquidatedAccepted
  <2> QED BY <1>1, <2>1, <2>2, BurnOwes
<1>3. CASE ~(debt >= amount)
  <2> DEFINE k == IF debt > 0 THEN burnDebt(n, u, debt, VARIABLE_RATE) ELSE n
             rest == amount - debt
             q == burnDebt(k, u, rest, STABLE)
             x == rounding(getNormalizedDebt(n, now))
  <2>1. burnLiquidated(n, u, amount, debt) = q
    BY <1>3 DEF burnLiquidated
  <2>2. /\ debt > 0 => burnDebtAccepted(n, u, debt, VARIABLE_RATE)
        /\ burnStableAccepted(n.stableDebt, u, rest, now)
    BY <1>3 DEF burnLiquidatedAccepted
  <2>3. rest \in Nat /\ rest + debt = amount
    BY <1>3
  <2>4. n \in Reserve /\ ListedOK(n, now)
    BY AccruedFields
  <2>5. k.stableDebt = n.stableDebt
    BY <1>1, <2>4 DEF burnDebt, Reserve
  <2>6. x \in Nat
    BY <2>4, NormalizedIndexes, RoundingType
  <2>7. Accrued(r, k) /\ SameDeposits(n, k) /\ OthersOwe(n, k, u) /\ Taken(n, k, u, debt, 0)
    <3>1. CASE debt > 0
      BY <1>1, <2>2, <3>1, BurnOwes
    <3>2. CASE ~(debt > 0)
      <4>1. k = n /\ debt = 0 /\ owed(n, u) \in Nat
        BY <2>4, <3>2, ShownTypes
      <4> HIDE DEF k
      <4> QED BY <4>1 DEF SameDeposits, OthersOwe, Taken
    <3> QED BY <3>1, <3>2
  <2> HIDE DEF k, rest, x
  <2>8. burnDebtAccepted(k, u, rest, STABLE)
    BY <2>2, <2>5 DEF burnDebtAccepted
  <2>9. Accrued(r, q) /\ SameDeposits(k, q) /\ OthersOwe(k, q, u) /\ Taken(k, q, u, rest, 0)
    BY <1>1, <2>3, <2>7, <2>8, BurnOwes
  <2> HIDE DEF q
  <2>10. owed(n, u) \in Nat /\ owed(k, u) \in Nat /\ owed(q, u) \in Nat
    BY <2>4, <2>7, <2>9, AccruedFields, ShownTypes
  <2>11. Taken(n, q, u, amount, x)
    BY <2>3, <2>6, <2>7, <2>9, <2>10 DEF Taken
  <2>12. SameDeposits(n, q) /\ OthersOwe(n, q, u)
    BY <2>7, <2>9 DEF SameDeposits, OthersOwe
  <2> QED BY <2>1, <2>9, <2>11, <2>12 DEF x
<1> QED BY <1>2, <1>3

\* What u deposited shows less by no more than the amount, but for the rounding; nobody
\* else's deposit shows less.
DepositsBut(r, n, u) ==
    \A v \in Account \ {u} : aTokenBalanceOf(r, v, now) <= aTokenBalanceOf(n, v, now)

Leaves(r, n, u, amount) ==
    /\ DepositsBut(r, n, u)
    /\ aTokenBalanceOf(r, u, now)
         <= aTokenBalanceOf(n, u, now) + amount + rounding(getNormalizedIncome(r, now))

\* aTokens that leave an account, worth an amount.
LEMMA TokensLeave ==
    ASSUME NEW r, NEW n, now \in Nat, ListedOK(r, now), ListedOK(n, now), NEW u \in Account,
           getNormalizedIncome(n, now) = getNormalizedIncome(r, now), NEW amount \in Nat,
           rayDiv(amount, getNormalizedIncome(r, now)) <= r.aToken.balance[u],
           n.aToken.balance[u]
             >= r.aToken.balance[u] - rayDiv(amount, getNormalizedIncome(r, now)),
           \A v \in Account \ {u} : n.aToken.balance[v] >= r.aToken.balance[v]
    PROVE  Leaves(r, n, u, amount)
<1> DEFINE i == getNormalizedIncome(r, now)
           b == r.aToken.balance[u]
           c == n.aToken.balance[u]
           s == rayDiv(amount, i)
           k == rounding(i)
<1>1. /\ i \in Nat \ {0} /\ k \in Nat
      /\ \A v \in Account : r.aToken.balance[v] \in Nat /\ n.aToken.balance[v] \in Nat
    BY NormalizedIndexes, ReserveBooks, BalancedTokenFields, ScalePositive, RoundingType
<1>2. b \in Nat /\ c \in Nat /\ s \in Nat
    BY <1>1, RoundedInNat
<1>3. DepositsBut(r, n, u)
  <2> SUFFICES ASSUME NEW v \in Account \ {u}
               PROVE  aTokenBalanceOf(r, v, now) <= aTokenBalanceOf(n, v, now)
    BY DEF DepositsBut
  <2>1. v \in Account /\ i <= i
    BY <1>1
  <2>2. r.aToken.balance[v] <= n.aToken.balance[v]
    BY <1>1
  <2> QED BY <2>1, <2>2, MoreTokens
<1>4. rayMul(b, i) <= rayMul(b - s, i) + amount + k
    BY <1>1, <1>2, BurnedShown
<1>5. rayMul(b - s, i) <= rayMul(c, i) /\ rayMul(b - s, i) \in Nat /\ rayMul(c, i) \in Nat
      /\ rayMul(b, i) \in Nat
  <2> HIDE DEF b, c, s, i
  <2>1. b - s \in Nat /\ b - s <= c /\ i \in Nat
    BY <1>1, <1>2 DEF b, c, s, i
  <2>2. i <= i
    BY <2>1
  <2> QED BY <1>2, <2>1, <2>2, RayMulMonotone, RoundedInNat
<1>6. aTokenBalanceOf(r, u, now) = rayMul(b, i) /\ aTokenBalanceOf(n, u, now) = rayMul(c, i)
    BY DEF aTokenBalanceOf, balanceOf
<1> HIDE DEF b, c, s, i, k
<1>7. rayMul(b, i) <= rayMul(c, i) + amount + k
    BY <1>1, <1>4, <1>5
<1> QED BY <1>3, <1>6, <1>7 DEF Leaves, k, i

\* Kept deposits before, or after, those that leave.
LEMMA LeavesLater ==
    ASSUME NEW r, NEW n, NEW q, now \in Nat, ListedOK(r, now), ListedOK(n, now),
           ListedOK(q, now), getNormalizedIncome(n, now) = getNormalizedIncome(r, now),
           NEW u \in Account, NEW amount \in Nat, DepositsKept(r, n), Leaves(n, q, u, amount)
    PROVE  Leaves(r, q, u, amount)
<1> DEFINE k == rounding(getNormalizedIncome(r, now))
           before(v) == aTokenBalanceOf(r, v, now)
           middle(v) == aTokenBalanceOf(n, v, now)
           after(v)  == aTokenBalanceOf(q, v, now)
<1>1. /\ k \in Nat
      /\ \A v \in Account : before(v) \in Nat /\ middle(v) \in Nat /\ after(v) \in Nat
    BY NormalizedIndexes, RoundingType, ShownTypes
<1>2. \A v \in Account : before(v) <= middle(v)
    BY DEF DepositsKept
<1>3. /\ \A v \in Account \ {u} : middle(v) <= after(v)
      /\ middle(u) <= after(u) + amount + k
    BY DEF Leaves, DepositsBut
<1> HIDE DEF before, middle, after, k
<1>4. /\ \A v \in Account \ {u} : before(v) <= after(v)
      /\ before(u) <= after(u) + amount + k
    BY <1>1, <1>2, <1>3
<1> QED BY <1>4 DEF Leaves, DepositsBut, before, middle, after, k

LEMMA LeavesBefore ==
    ASSUME NEW r, NEW n, NEW q, now \in Nat, ListedOK(r, now), ListedOK(n, now),
           ListedOK(q, now),
           NEW u \in Account, NEW amount \in Nat, Leaves(r, n, u, amount), DepositsKept(n, q)
    PROVE  Leaves(r, q, u, amount)
<1> DEFINE k == rounding(getNormalizedIncome(r, now))
           before(v) == aTokenBalanceOf(r, v, now)
           middle(v) == aTokenBalanceOf(n, v, now)
           after(v)  == aTokenBalanceOf(q, v, now)
<1>1. /\ k \in Nat
      /\ \A v \in Account : before(v) \in Nat /\ middle(v) \in Nat /\ after(v) \in Nat
    BY NormalizedIndexes, RoundingType, ShownTypes
<1>2. \A v \in Account : middle(v) <= after(v)
    BY DEF DepositsKept
<1>3. /\ \A v \in Account \ {u} : before(v) <= middle(v)
      /\ before(u) <= middle(u) + amount + k
    BY DEF Leaves, DepositsBut
<1> HIDE DEF before, middle, after, k
<1>4. /\ \A v \in Account \ {u} : before(v) <= after(v)
      /\ before(u) <= after(u) + amount + k
    BY <1>1, <1>2, <1>3
<1> QED BY <1>4 DEF Leaves, DepositsBut, before, middle, after, k

\* Debts kept twice.
LEMMA DebtsKeptAgain ==
    ASSUME NEW r, NEW n, NEW q, DebtsKept(r, n), DebtsKept(n, q)
    PROVE  DebtsKept(r, q)
BY DEF DebtsKept

\* The seizure, as aTokens or as funds, takes what the user is charged for.
LEMMA SeizureLeaves ==
    ASSUME IInv, NEW c, ListedOK(c, now), NEW liquidator \in Account,
           NEW user \in Account, NEW seized \in Nat, NEW asATokens \in BOOLEAN,
           seizureAccepted(c, user, seized, asATokens), DebtorsAreCharged(c)
    PROVE  LET n == IF asATokens THEN seizeATokens(c, liquidator, user, seized)
                                 ELSE seizeFunds(c, user, seized)
           IN  ListedOK(n, now) /\ DebtsKept(c, n) /\ Leaves(c, n, user, seized)
<1> DEFINE n == IF asATokens THEN seizeATokens(c, liquidator, user, seized)
                             ELSE seizeFunds(c, user, seized)
           i == getNormalizedIncome(c, now)
<1>1. now \in Nat /\ 0 \in Nat /\ c \in Reserve
    BY InvFacts DEF ListedOK, ReserveOK
<1>2. ListedOK(n, now)
    BY SeizurePreserves DEF Continues
<1>3. i \in Nat \ {0} /\ c.liquidity \in Nat /\ c.aToken \in BalancedToken
    BY <1>1, NormalizedIndexes, ReserveFields, ReserveBooks, ScalePositive
<1>4. CASE asATokens
  <2> DEFINE s == rayDiv(seized, i)
             t == transferScaled(c.aToken, user, liquidator, s)
             k == withFunds(c, c.liquidity, t)
             b == c.aToken.balance
             d == [b EXCEPT ![user] = @ - s]
             e == [d EXCEPT ![liquidator] = @ + s]
  <2>1. /\ n = [c EXCEPT !.aToken = t] /\ transferScaledAccepted(c.aToken, user, s)
    BY <1>4 DEF seizeATokens, seizureAccepted
  <2>2. [c EXCEPT !.aToken = t] = k
    BY <1>1 DEF withFunds, Reserve
  <2>3. s \in Nat
    BY <1>3, RoundedInNat
  <2>4. b \in [Account -> Nat] /\ s <= b[user] /\ c.aToken \in Token
    BY <1>3, <2>1, BalancedTokenFields DEF transferScaledAccepted
  <2>5. t.balance = e
    BY <2>4 DEF transferScaled, Token
  <2> HIDE DEF n, s, i
  <2>6. t \in BalancedToken
    BY <1>3, <2>1, <2>3, ScaledTokenType
  <2> HIDE DEF t
  <2>7. n.aToken = t /\ DebtsKept(c, n) /\ getNormalizedIncome(n, now) = i
    <3>1. k.aToken = t /\ DebtsKept(c, k) /\ getNormalizedIncome(k, now) = i
      BY <1>1, <1>3, <2>6, FundsKeep DEF i
    <3> HIDE DEF k
    <3> QED BY <2>1, <2>2, <3>1
  <2> HIDE DEF b
  <2>8. e[user] >= b[user] - s /\ \A v \in Account \ {user} : e[v] >= b[v]
    <3>1. DOMAIN d = Account /\ d[user] = b[user] - s
          /\ \A v \in Account \ {user} : d[v] = b[v]
      BY <2>4
    <3> HIDE DEF d
    <3>2. \A v \in Account : e[v] \in {d[v], d[v] + s}
      BY <3>1
    <3> QED BY <2>3, <2>4, <3>1, <3>2
  <2>9. Leaves(c, n, user, seized)
    <3>1. \A v \in Account : n.aToken.balance[v] = e[v] /\ c.aToken.balance[v] = b[v]
      BY <2>5, <2>7 DEF b
    <3>2. /\ rayDiv(seized, getNormalizedIncome(c, now)) <= c.aToken.balance[user]
          /\ n.aToken.balance[user]
               >= c.aToken.balance[user] - rayDiv(seized, getNormalizedIncome(c, now))
          /\ \A v \in Account \ {user} : n.aToken.balance[v] >= c.aToken.balance[v]
          /\ getNormalizedIncome(n, now) = getNormalizedIncome(c, now)
      BY <2>4, <2>7, <2>8, <3>1 DEF s, i
    <3> HIDE DEF e
    <3> QED BY <1>1, <1>2, <3>2, TokensLeave DEF n
  <2> QED BY <1>2, <2>7, <2>9 DEF n
<1>5. CASE ~asATokens
  <2> DEFINE c1 == updateState(c, now)
             c2 == updateInterestRates(c1, 0, seized, now)
             t  == burn(c2.aToken, user, seized, c2.liquidityIndex)
             k  == withFunds(c2, c2.liquidity - seized, t)
             s  == rayDiv(seized, c2.liquidityIndex)
             b  == c2.aToken.balance
  <2>1. /\ n = k
        /\ updateStateAccepted(c, now) /\ updateInterestRatesAccepted(c1, 0, seized)
        /\ burnAccepted(c1.aToken, user, seized, c1.liquidityIndex)
    BY <1>5 DEF seizeFunds, seizureAccepted, withFunds
  <2> HIDE DEF n, c1, c2, t, k, i
  <2>2. /\ Accrued(c, c1) /\ DepositsKept(c, c1) /\ DebtsKept(c, c1)
        /\ getNormalizedIncome(c1, now) = i
    BY <1>1, <2>1, UpdateStateKeeps DEF c1, i
  <2>3. /\ Accrued(c, c2) /\ DebtsKept(c1, c2) /\ c2.aToken = c1.aToken
        /\ c2.liquidity + 0 - seized \in Nat
        /\ getNormalizedIncome(c2, now) = i /\ c2.liquidityIndex = c1.liquidityIndex
    BY <1>1, <2>1, <2>2, AccruedUpdateInterestRates, RatesKeep DEF c2
  <2>4. /\ ListedOK(c1, now) /\ ListedOK(c2, now)
        /\ c2.aToken \in BalancedToken /\ c2.liquidity \in Nat
        /\ c2.liquidityIndex \in Nat \ {0} /\ c2.liquidityIndex >= RAY
        /\ c2.liquidityIndex = i
    BY <2>2, <2>3, AccruedFields, ScalePositive, CommittedIncome
  <2>5. t \in BalancedToken
    BY <2>1, <2>3, <2>4, TokenOperationsType DEF t
  <2>6. c2.liquidity - seized \in Nat
    BY <2>3, <2>4
  <2>7. /\ getNormalizedIncome(n, now) = getNormalizedIncome(c2, now)
        /\ n.aToken = t /\ DebtsKept(c2, n)
    BY <1>1, <2>1, <2>4, <2>5, <2>6, FundsKeep DEF k
  <2>8. b \in [Account -> Nat] /\ s \in Nat /\ s <= b[user]
        /\ t.balance = [b EXCEPT ![user] = @ - s]
    BY <2>1, <2>3, <2>4, BalancedTokenFields, RoundedInNat
       DEF t, burn, burnScaled, burnAccepted, burnScaledAccepted
  <2>9. Leaves(c2, n, user, seized)
    <3> HIDE DEF s, b
    <3>1. t.balance[user] = b[user] - s /\ \A v \in Account \ {user} : t.balance[v] = b[v]
      BY <2>8
    <3>2. /\ rayDiv(seized, getNormalizedIncome(c2, now)) <= c2.aToken.balance[user]
          /\ n.aToken.balance[user]
               >= c2.aToken.balance[user] - rayDiv(seized, getNormalizedIncome(c2, now))
          /\ \A v \in Account \ {user} : n.aToken.balance[v] >= c2.aToken.balance[v]
          /\ getNormalizedIncome(n, now) = getNormalizedIncome(c2, now)
      <4>1. b[user] - s \in Nat /\ \A v \in Account : b[v] \in Nat
        BY <2>8
      <4> QED BY <2>3, <2>4, <2>7, <2>8, <3>1, <4>1 DEF s, b
    <3> QED BY <1>1, <1>2, <2>4, <3>2, TokensLeave DEF n
  <2>10. DepositsKept(c, c2)
    BY <2>2, <2>3 DEF DepositsKept, aTokenBalanceOf
  <2>11. Leaves(c, n, user, seized)
    BY <1>1, <1>2, <2>3, <2>4, <2>9, <2>10, LeavesLater DEF n, i
  <2>12. DebtsKept(c, n)
    BY <2>2, <2>3, <2>7, DebtsKeptAgain
  <2> QED BY <1>2, <2>11, <2>12 DEF n
<1> QED BY <1>4, <1>5

\* All that is owed once an amount of u's debt in d is cleared, and all that is deposited
\* once an amount has left his deposit in c.
DebtsTaken(rs, d, u, amount) ==
    \A a \in reservesList :
        IF a = d
        THEN /\ OthersOwe(reserves[a], rs[a], u)
             /\ Taken(reserves[a], rs[a], u, amount, debtRounding(a))
        ELSE DebtsKept(reserves[a], rs[a])

DepositsTaken(rs, c, u, amount) ==
    \A a \in reservesList :
        IF a = c THEN Leaves(reserves[a], rs[a], u, amount)
                 ELSE DepositsKept(reserves[a], rs[a])

\* The reserves in the course of an operation.
AllListed(rs) == rs \in [Asset -> Reserve] /\ \A a \in reservesList : ListedOK(rs[a], now)

\* A reserve that becomes n, in which the debts are the same.
LEMMA DebtsTakenLater ==
    ASSUME IInv, NEW rs, AllListed(rs), NEW d, NEW u \in Account, NEW amount,
           DebtsTaken(rs, d, u, amount), NEW a \in reservesList, NEW n, ListedOK(n, now),
           DebtsKept(rs[a], n), NEW w, w = withReserve(rs, a, n)
    PROVE  /\ AllListed(w) /\ DebtsTaken(w, d, u, amount) /\ w[a] = n
           /\ \A b \in reservesList \ {a} : w[b] = rs[b]
<1>1. /\ rs \in [Asset -> Reserve] /\ a \in Asset /\ n \in Reserve /\ reservesList \subseteq Asset
    BY InvFacts DEF AllListed, ListedOK, ReserveOK
<1>2. w \in [Asset -> Reserve] /\ w[a] = n /\ \A b \in Asset \ {a} : w[b] = rs[b]
    BY <1>1 DEF withReserve
<1>3. AllListed(w) /\ \A b \in reservesList \ {a} : w[b] = rs[b]
    BY <1>1, <1>2 DEF AllListed
<1>4. ASSUME NEW b \in reservesList
      PROVE  IF b = d
             THEN /\ OthersOwe(reserves[b], w[b], u)
                  /\ Taken(reserves[b], w[b], u, amount, debtRounding(b))
             ELSE DebtsKept(reserves[b], w[b])
  <2>1. \A v \in Account : owed(w[b], v) = owed(rs[b], v)
    BY <1>2, <1>3 DEF DebtsKept
  <2>2. CASE b = d
    <3>1. /\ OthersOwe(reserves[b], rs[b], u)
          /\ Taken(reserves[b], rs[b], u, amount, debtRounding(b))
      BY <2>2 DEF DebtsTaken
    <3>2. OthersOwe(reserves[b], w[b], u)
      BY <2>1, <3>1 DEF OthersOwe
    <3>3. Taken(reserves[b], w[b], u, amount, debtRounding(b))
      BY <2>1, <3>1 DEF Taken
    <3> QED BY <2>2, <3>2, <3>3
  <2>3. CASE b # d
    <3>1. DebtsKept(reserves[b], rs[b])
      BY <2>3 DEF DebtsTaken
    <3> QED BY <2>1, <2>3, <3>1 DEF DebtsKept
  <2> QED BY <2>2, <2>3
<1> QED BY <1>2, <1>3, <1>4 DEF DebtsTaken

\* The accrual shows no larger an index of the debtors.
LEMMA AccrualRounding ==
    ASSUME NEW r, now \in Nat, ListedOK(r, now)
    PROVE  rounding(getNormalizedDebt(updateState(r, now), now))
             <= rounding(getNormalizedDebt(r, now))
<1> DEFINE i == getNormalizedDebt(updateState(r, now), now)
           j == getNormalizedDebt(r, now)
<1>1. Accrued(r, updateState(r, now)) /\ updateState(r, now).variableBorrowIndex <= j
    BY AccrualIsAccepted, AccruedUpdateState
<1>2. i <= j /\ i \in Nat /\ j \in Nat
    BY <1>1, CommittedIndex, AccruedFields, NormalizedIndexes
<1>3. 2 * RAY \in Nat \ {0}
    BY ScalePositive
<1> HIDE DEF i, j
<1>4. i \div (2 * RAY) <= j \div (2 * RAY)
    BY <1>2, <1>3, DivMonotone
<1>5. i \div (2 * RAY) \in Nat /\ j \div (2 * RAY) \in Nat
    BY <1>2, HalfUnitInNat
<1> QED BY <1>4, <1>5 DEF rounding, i, j

\* Taking is rounded by no less if more may be missing.
LEMMA TakenWithin ==
    ASSUME NEW r, NEW n, now \in Nat, ListedOK(r, now), ListedOK(n, now), NEW u \in Account,
           NEW amount \in Nat, NEW j \in Nat, NEW k \in Nat, j <= k, Taken(r, n, u, amount, j)
    PROVE  Taken(r, n, u, amount, k)
<1>1. owed(r, u) \in Nat /\ owed(n, u) \in Nat
    BY ShownTypes
<1> QED BY <1>1 DEF Taken

\* The repaid reserve: the debt is cleared, the deposits show what they showed.
LEMMA RepaidReserve ==
    ASSUME NEW r, now \in Nat, ListedOK(r, now), DebtorsAreCharged(r), NEW u \in Account,
           NEW amount \in Nat, NEW debt \in Nat, debt = variableDebtBalanceOf(r, u, now),
           burnLiquidatedAccepted(updateState(r, now), u, amount, debt),
           updateInterestRatesAccepted(burnLiquidated(updateState(r, now), u, amount, debt),
                                       amount, 0)
    PROVE  LET n == updateInterestRates(
                        burnLiquidated(updateState(r, now), u, amount, debt), amount, 0, now)
           IN  /\ Accrued(r, n) /\ DepositsKept(r, n) /\ OthersOwe(r, n, u)
               /\ Taken(r, n, u, amount, rounding(getNormalizedDebt(r, now)))
               /\ getNormalizedIncome(n, now) = getNormalizedIncome(r, now)
<1> DEFINE d1 == updateState(r, now)
           d2 == burnLiquidated(d1, u, amount, debt)
           n  == updateInterestRates(d2, amount, 0, now)
           k  == rounding(getNormalizedDebt(r, now))
<1>1. /\ Accrued(r, d1) /\ DepositsKept(r, d1) /\ DebtsKept(r, d1)
      /\ getNormalizedIncome(d1, now) = getNormalizedIncome(r, now)
    BY UpdateStateKeeps
<1>2. d1.stableDebt = r.stableDebt
    BY AccrualIsAccepted, UpdateState
<1>3. k \in Nat /\ rounding(getNormalizedDebt(d1, now)) \in Nat
      /\ rounding(getNormalizedDebt(d1, now)) <= k
  <2>1. ListedOK(d1, now)
    BY <1>1, AccruedFields
  <2> QED BY <2>1, AccrualRounding, NormalizedIndexes, RoundingType
<1>4. burnLiquidatedAccepted(d1, u, amount, debt) /\ updateInterestRatesAccepted(d2, amount, 0)
    OBVIOUS
<1> HIDE DEF d1, d2, n, k
<1>5. debt = variableDebtBalanceOf(d1, u, now)
  <2>1. /\ owed(d1, u) = stableDebtBalanceOf(d1, u, now) + variableDebtBalanceOf(d1, u, now)
        /\ owed(r, u) = stableDebtBalanceOf(r, u, now) + variableDebtBalanceOf(r, u, now)
        /\ stableDebtBalanceOf(d1, u, now) = stableDebtBalanceOf(r, u, now)
        /\ owed(d1, u) = owed(r, u)
    BY <1>1, <1>2 DEF owed, stableDebtBalanceOf, DebtsKept
  <2>2. /\ stableDebtBalanceOf(r, u, now) \in Nat /\ variableDebtBalanceOf(r, u, now) \in Nat
        /\ variableDebtBalanceOf(d1, u, now) \in Nat
    BY <1>1, ReserveViews, AccruedFields
  <2> QED BY <2>1, <2>2
<1>6. /\ Accrued(r, d2) /\ SameDeposits(d1, d2) /\ OthersOwe(d1, d2, u)
      /\ Taken(d1, d2, u, amount, rounding(getNormalizedDebt(d1, now)))
    BY <1>1, <1>4, <1>5, LiquidationBurnOwes DEF d2
<1>7. /\ Accrued(r, n) /\ getNormalizedIncome(n, now) = getNormalizedIncome(d2, now)
      /\ n.aToken = d2.aToken /\ DebtsKept(d2, n)
  <2>1. 0 \in Nat
    OBVIOUS
  <2> QED BY <1>4, <1>6, <2>1, RatesKeep DEF n
<1>8. ListedOK(d1, now) /\ ListedOK(d2, now) /\ ListedOK(n, now)
    BY <1>1, <1>6, <1>7, AccruedFields
<1>9. Taken(d1, d2, u, amount, k)
    BY <1>3, <1>6, <1>8, TakenWithin
<1>10. OthersOwe(r, n, u) /\ Taken(r, n, u, amount, k)
  <2>1. \A v \in Account : owed(d1, v) = owed(r, v) /\ owed(n, v) = owed(d2, v)
    BY <1>1, <1>7 DEF DebtsKept
  <2> QED BY <1>6, <1>9, <2>1 DEF OthersOwe, Taken
<1>11. getNormalizedIncome(n, now) = getNormalizedIncome(r, now)
       /\ getNormalizedIncome(n, now) = getNormalizedIncome(d1, now)
  <2>1. getNormalizedIncome(d2, now) = d2.liquidityIndex
        /\ getNormalizedIncome(d1, now) = d1.liquidityIndex
    BY <1>1, <1>6, CommittedIncome
  <2> QED BY <1>1, <1>6, <1>7, <2>1 DEF SameDeposits
<1>12. DepositsKept(r, n)
  <2>1. n.aToken = d1.aToken
    BY <1>6, <1>7 DEF SameDeposits
  <2> QED BY <1>1, <1>11, <2>1 DEF DepositsKept, aTokenBalanceOf
<1> QED BY <1>7, <1>10, <1>11, <1>12 DEF n, d2, d1, k

\* The interest shown to the debtors is charged by the next accrual of every reserve.
InterestIsCharged == \A a \in reservesList : DebtorsAreCharged(reserves[a])

\* LendingPoolCollateralManager.liquidationCall clears what is repaid of one debt and takes
\* what is seized of one deposit, of two reserves or one.
LEMMA LiquidationOutcome ==
    ASSUME IInv, InterestIsCharged, NEW liquidator \in Account, NEW collateralAsset \in Asset,
           NEW debtAsset \in Asset, NEW user \in Account \ {Treasury}, NEW debtToCover \in Nat,
           NEW asATokens \in BOOLEAN,
           LiquidationCall(liquidator, collateralAsset, debtAsset, user, debtToCover, asATokens)
    PROVE  LET terms == liquidationTerms(collateralAsset, debtAsset, user, debtToCover)
           IN  /\ AllListed(reserves')
               /\ DebtsTaken(reserves', debtAsset, user, terms.repaid)
               /\ DepositsTaken(reserves', collateralAsset, user, terms.seized)
<1> DEFINE terms == liquidationTerms(collateralAsset, debtAsset, user, debtToCover)
           d   == reserves[debtAsset]
           d1  == updateState(d, now)
           d2  == burnLiquidated(d1, user, terms.repaid, terms.variableDebt)
           d3  == updateInterestRates(d2, terms.repaid, 0, now)
           rs1 == withReserve(reserves, debtAsset, d3)
           c   == rs1[collateralAsset]
           c1  == IF asATokens THEN seizeATokens(c, liquidator, user, terms.seized)
                               ELSE seizeFunds(c, user, terms.seized)
           rs2 == withReserve(rs1, collateralAsset, c1)
           e   == rs2[debtAsset]
           n   == withFunds(e, e.liquidity + terms.repaid, e.aToken)
           rs3 == withReserve(rs2, debtAsset, n)
<1>1. /\ collateralAsset \in reservesList /\ debtAsset \in reservesList
      /\ reserves[collateralAsset].config.liquidationThreshold > 0
      /\ priceUsable(collateralAsset)
    BY DEF LiquidationCall, LiquidationAccepted, Listed, validateLiquidationCall
<1>2. /\ burnLiquidatedAccepted(d1, user, terms.repaid, terms.variableDebt)
      /\ updateInterestRatesAccepted(d2, terms.repaid, 0)
    BY DEF LiquidationCall, LiquidationAccepted, repaymentAccepted
<1>3. afterRepayment(debtAsset, user, terms) = rs1
    BY DEF afterRepayment, withReserve
<1>4. seizureAccepted(c, user, terms.seized, asATokens)
    BY <1>3 DEF LiquidationCall, LiquidationAccepted
<1>5. reserves' = [rs2 EXCEPT ![debtAsset].liquidity = @ + terms.repaid]
    BY <1>3 DEF LiquidationCall, withReserve
<1>6. terms.seized \in Nat /\ terms.repaid \in Nat /\ terms.variableDebt \in Nat
    BY <1>1, LiquidationTermsType
<1>7. terms.variableDebt = variableDebtBalanceOf(d, user, now)
    BY DEF liquidationTerms, debtOfMode, STABLE, VARIABLE_RATE
<1>8. /\ ListedOK(d, now) /\ DebtorsAreCharged(d) /\ user \in Account /\ AllListed(reserves)
      /\ reserves \in [Asset -> Reserve] /\ now \in Nat
      /\ \A a \in reservesList : ListedOK(reserves[a], now)
    BY <1>1, InvFacts DEF InterestIsCharged, AllListed
<1> HIDE DEF terms, d, c1, rs1, rs2, rs3, c, e, n
<1>9. /\ Accrued(d, d3) /\ DepositsKept(d, d3) /\ OthersOwe(d, d3, user)
      /\ Taken(d, d3, user, terms.repaid, rounding(getNormalizedDebt(d, now)))
      /\ getNormalizedIncome(d3, now) = getNormalizedIncome(d, now)
    BY <1>2, <1>6, <1>7, <1>8, RepaidReserve
<1> HIDE DEF d1, d2, d3
<1>10. /\ ListedOK(d3, now) /\ d3 \in Reserve /\ DebtorsAreCharged(d3)
    BY <1>9, AccruedFields DEF Accrued, DebtorsAreCharged
<1>11. /\ rs1 \in [Asset -> Reserve] /\ rs1[debtAsset] = d3
       /\ \A a \in Asset \ {debtAsset} : rs1[a] = reserves[a]
    BY <1>8, <1>10 DEF rs1, withReserve
<1>12. ASSUME NEW a \in reservesList
       PROVE  /\ ListedOK(rs1[a], now) /\ DebtorsAreCharged(rs1[a])
              /\ getNormalizedIncome(rs1[a], now) = getNormalizedIncome(reserves[a], now)
              /\ DepositsKept(reserves[a], rs1[a])
              /\ IF a = debtAsset
                 THEN /\ OthersOwe(reserves[a], rs1[a], user)
                      /\ Taken(reserves[a], rs1[a], user, terms.repaid, debtRounding(a))
                 ELSE DebtsKept(reserves[a], rs1[a])
  <2>1. CASE a = debtAsset
    BY <1>9, <1>10, <1>11, <2>1 DEF d, debtRounding
  <2>2. CASE a # debtAsset
    <3>1. rs1[a] = reserves[a]
      BY <1>11, <2>2, InvFacts
    <3>2. ListedOK(rs1[a], now) /\ DebtorsAreCharged(rs1[a])
      BY <1>8, <3>1 DEF InterestIsCharged
    <3>3. \A u \in Account : aTokenBalanceOf(reserves[a], u, now) \in Nat
      BY <1>8, ShownTypes
    <3>4. DepositsKept(reserves[a], rs1[a]) /\ DebtsKept(reserves[a], rs1[a])
      BY <3>1, <3>3 DEF DepositsKept, DebtsKept
    <3> QED BY <2>2, <3>1, <3>2, <3>4
  <2> QED BY <2>1, <2>2
<1>13. AllListed(rs1) /\ DebtsTaken(rs1, debtAsset, user, terms.repaid)
    BY <1>11, <1>12 DEF AllListed, DebtsTaken
<1>14. /\ ListedOK(c, now) /\ DebtorsAreCharged(c)
       /\ DepositsKept(reserves[collateralAsset], c)
       /\ getNormalizedIncome(c, now) = getNormalizedIncome(reserves[collateralAsset], now)
    BY <1>1, <1>12 DEF c
<1>15. ListedOK(c1, now) /\ DebtsKept(c, c1) /\ Leaves(c, c1, user, terms.seized)
    BY <1>4, <1>6, <1>8, <1>14, SeizureLeaves DEF c1
<1>16. /\ AllListed(rs2) /\ DebtsTaken(rs2, debtAsset, user, terms.repaid)
       /\ rs2[collateralAsset] = c1
       /\ \A a \in reservesList \ {collateralAsset} : rs2[a] = rs1[a]
  <2>1. /\ collateralAsset \in reservesList /\ user \in Account
        /\ ListedOK(c1, now) /\ DebtsKept(rs1[collateralAsset], c1)
    BY <1>1, <1>8, <1>15 DEF c
  <2>2. rs2 = withReserve(rs1, collateralAsset, c1)
    BY DEF rs2
  <2> QED BY ONLY IInv, <1>13, <2>1, <2>2, DebtsTakenLater
<1>17. ListedOK(e, now) /\ e \in Reserve
    BY <1>1, <1>16 DEF AllListed, ListedOK, ReserveOK, e
<1>18. e.liquidity + terms.repaid \in Nat /\ e.aToken \in BalancedToken
    BY <1>6, <1>8, <1>17, ReserveFields, ReserveBooks
<1>19. /\ ListedOK(n, now) /\ getNormalizedIncome(n, now) = getNormalizedIncome(e, now)
       /\ n.aToken = e.aToken /\ DebtsKept(e, n)
    BY <1>8, <1>17, <1>18, FundsKeep DEF n
<1>20. DepositsKept(e, n)
  <2>1. \A u \in Account : aTokenBalanceOf(e, u, now) \in Nat
    BY <1>8, <1>17, ShownTypes
  <2> QED BY <1>19, <2>1 DEF DepositsKept, aTokenBalanceOf
<1>21. /\ AllListed(rs3) /\ DebtsTaken(rs3, debtAsset, user, terms.repaid)
       /\ rs3[debtAsset] = n
       /\ \A a \in reservesList \ {debtAsset} : rs3[a] = rs2[a]
  <2>1. /\ debtAsset \in reservesList /\ user \in Account
        /\ ListedOK(n, now) /\ DebtsKept(rs2[debtAsset], n)
    BY <1>1, <1>8, <1>19 DEF e
  <2>2. rs3 = withReserve(rs2, debtAsset, n)
    BY DEF rs3
  <2> QED BY ONLY IInv, <1>16, <2>1, <2>2, DebtsTakenLater
<1>22. DepositsTaken(rs3, collateralAsset, user, terms.seized)
  <2> SUFFICES ASSUME NEW a \in reservesList
               PROVE  IF a = collateralAsset
                      THEN Leaves(reserves[a], rs3[a], user, terms.seized)
                      ELSE DepositsKept(reserves[a], rs3[a])
    BY DEF DepositsTaken
  <2>1. /\ ListedOK(reserves[a], now) /\ ListedOK(rs1[a], now) /\ ListedOK(rs2[a], now)
        /\ ListedOK(rs3[a], now)
    BY <1>8, <1>13, <1>16, <1>21 DEF AllListed
  <2>2. \A v \in Account : /\ aTokenBalanceOf(reserves[a], v, now) \in Nat
                           /\ aTokenBalanceOf(rs1[a], v, now) \in Nat
                           /\ aTokenBalanceOf(rs2[a], v, now) \in Nat
                           /\ aTokenBalanceOf(rs3[a], v, now) \in Nat
    BY <1>8, <2>1, ShownTypes
  <2>3. DepositsKept(rs2[a], rs3[a])
    <3>1. CASE a = debtAsset
      BY <1>20, <1>21, <3>1 DEF e
    <3>2. CASE a # debtAsset
      <4>1. rs3[a] = rs2[a]
        BY <1>21, <3>2
      <4> QED BY <2>2, <4>1 DEF DepositsKept
    <3> QED BY <3>1, <3>2
  <2>4. CASE a = collateralAsset
    <3>1. Leaves(reserves[a], rs2[a], user, terms.seized)
      <4>1. /\ rs1[a] = c /\ rs2[a] = c1 /\ ListedOK(c, now) /\ ListedOK(c1, now)
            /\ DepositsKept(reserves[a], c) /\ Leaves(c, c1, user, terms.seized)
            /\ getNormalizedIncome(c, now) = getNormalizedIncome(reserves[a], now)
        BY <1>14, <1>15, <1>16, <2>4 DEF c
      <4>2. Leaves(reserves[a], c1, user, terms.seized)
        BY <1>6, <1>8, <2>1, <4>1, LeavesLater
      <4> QED BY <4>1, <4>2
    <3>2. Leaves(reserves[a], rs3[a], user, terms.seized)
      BY <1>6, <1>8, <2>1, <2>3, <3>1, LeavesBefore
    <3> QED BY <2>4, <3>2
  <2>5. CASE a # collateralAsset
    <3>1. rs2[a] = rs1[a] /\ DepositsKept(reserves[a], rs1[a])
      BY <1>12, <1>16, <2>5
    <3>2. DepositsKept(reserves[a], rs3[a])
      BY <2>2, <2>3, <3>1 DEF DepositsKept
    <3> QED BY <2>5, <3>2
  <2> QED BY <2>4, <2>5
<1>23. reserves' = rs3
  <2>1. rs2 \in [Asset -> Reserve]
    BY <1>16 DEF AllListed
  <2>2. n = [e EXCEPT !.liquidity = @ + terms.repaid]
    BY <1>17 DEF n, withFunds, Reserve
  <2> HIDE DEF n
  <2> QED BY <1>5, <2>1, <2>2 DEF rs3, withReserve, e
<1> QED BY <1>21, <1>22, <1>23 DEF terms
-----------------------------------------------------------------------------
(* Who loses deposits, and whose debts are cleared *)

\* The aTokens of a record.
Holds(n, t) == "aToken" \in DOMAIN n /\ n.aToken = t

\* Debts that are minted or burnt, and rates and indexes that change, leave the aTokens.
LEMMA SameTokens ==
    ASSUME NEW n, NEW t, Holds(n, t), NEW u, NEW x, NEW y, NEW m
    PROVE  /\ Holds(mintDebt(n, u, x, m), t) /\ Holds(burnDebt(n, u, x, m), t)
           /\ Holds(updateInterestRates(n, x, y, now), t)
           /\ Holds(cumulateToLiquidityIndex(n, x, y), t)
           /\ Holds([n EXCEPT !.liquidity = x], t) /\ Holds([n EXCEPT !.config = x], t)
           /\ Holds([n EXCEPT !.strategy = x], t)
<1>1. Holds(mintDebt(n, u, x, m), t)
    BY DEF Holds, mintDebt
<1>2. Holds(burnDebt(n, u, x, m), t)
    BY DEF Holds, burnDebt
<1>3. Holds(updateInterestRates(n, x, y, now), t)
    BY DEF Holds, updateInterestRates
<1>4. Holds(cumulateToLiquidityIndex(n, x, y), t)
    BY DEF Holds, cumulateToLiquidityIndex
<1>5. /\ Holds([n EXCEPT !.liquidity = x], t) /\ Holds([n EXCEPT !.config = x], t)
      /\ Holds([n EXCEPT !.strategy = x], t)
    BY DEF Holds
<1> QED BY <1>1, <1>2, <1>3, <1>4, <1>5

\* Nobody holds fewer aTokens of the later record n, or after an action.
TokensKept(r, n) == \A u \in Account : r.aToken.balance[u] <= n.aToken.balance[u]

KeepsTokens == \A a \in reservesList : TokensKept(reserves[a], reserves'[a])

\* The accrual only mints to the treasury.
LEMMA AccruedTokens ==
    ASSUME NEW r, now \in Nat, ListedOK(r, now), updateStateAccepted(r, now)
    PROVE  LET n == updateState(r, now)
           IN  TokensKept(r, n) /\ Holds(n, n.aToken) /\ ListedOK(n, now)
<1> DEFINE n == updateState(r, now)
<1>1. PICK fee \in Nat : n.aToken.balance = [r.aToken.balance EXCEPT ![Treasury] = @ + fee]
    BY UpdateState
<1>2. r.aToken.balance \in [Account -> Nat]
    BY ReserveBooks, BalancedTokenFields
<1>3. ListedOK(n, now)
    BY UpdateState
<1> HIDE DEF n
<1>4. Holds(n, n.aToken)
    BY <1>3 DEF Holds, ListedOK, ReserveOK, Reserve
<1>5. TokensKept(r, n)
  <2>1. \A u \in Account : r.aToken.balance[u] \in Nat
    BY <1>2
  <2> QED BY <1>1, <1>2, <2>1 DEF TokensKept
<1> QED BY <1>3, <1>4, <1>5 DEF n

\* An operation on one reserve, and an action that leaves the reserves alone.
LEMMA ReserveKeepsTokens ==
    ASSUME IInv, NEW a \in reservesList, NEW n, setReserve(a, n), TokensKept(reserves[a], n)
    PROVE  KeepsTokens
<1> SUFFICES ASSUME NEW b \in reservesList
             PROVE  TokensKept(reserves[b], reserves'[b])
    BY DEF KeepsTokens
<1>1. /\ now \in Nat /\ ListedOK(reserves[b], now)
      /\ reserves'[a] = n /\ (b # a => reserves'[b] = reserves[b])
    BY InvFacts DEF setReserve
<1>2. \A u \in Account : reserves[b].aToken.balance[u] \in Nat
    BY <1>1, ReserveBooks, BalancedTokenFields
<1> QED BY <1>1, <1>2 DEF TokensKept

LEMMA OthersKeepTokens ==
    ASSUME IInv, reserves' = reserves
    PROVE  KeepsTokens
<1> SUFFICES ASSUME NEW b \in reservesList, NEW u \in Account
             PROVE  reserves[b].aToken.balance[u] <= reserves'[b].aToken.balance[u]
    BY DEF KeepsTokens, TokensKept
<1>1. reserves[b].aToken.balance[u] \in Nat
    BY InvFacts, ReserveBooks, BalancedTokenFields
<1> QED BY <1>1

\* LendingPool.deposit.
LEMMA DepositKeepsTokens ==
    ASSUME IInv, NEW sender \in Account, NEW asset \in Asset, NEW amount \in Nat,
           NEW onBehalfOf \in Account, Deposit(sender, asset, amount, onBehalfOf)
    PROVE  KeepsTokens
<1> DEFINE r  == reserves[asset]
           r1 == updateState(r, now)
           r2 == updateInterestRates(r1, amount, 0, now)
           t  == mint(r2.aToken, onBehalfOf, amount, r2.liquidityIndex)
           r3 == [r2 EXCEPT !.liquidity = @ + amount, !.aToken = t]
           s  == rayDiv(amount, r2.liquidityIndex)
<1>1. /\ asset \in reservesList /\ updateStateAccepted(r, now)
      /\ updateInterestRatesAccepted(r1, amount, 0)
      /\ setReserve(asset, r3)
    BY DEF Deposit, Listed
<1>2. ListedOK(r, now) /\ now \in Nat /\ 0 \in Nat
    BY <1>1, InvFacts
<1>3. TokensKept(r, r1) /\ Holds(r1, r1.aToken) /\ ListedOK(r1, now)
    BY <1>1, <1>2, AccruedTokens
<1>4. Holds(r2, r1.aToken)
    BY <1>3, SameTokens
<1>5. r3.aToken.balance = [r1.aToken.balance EXCEPT ![onBehalfOf] = @ + s]
  <2>1. r3.aToken = t
    BY <1>4 DEF Holds
  <2>2. t.balance = [r2.aToken.balance EXCEPT ![onBehalfOf] = @ + s]
    BY DEF mint, mintScaled
  <2> QED BY <1>4, <2>1, <2>2 DEF Holds
<1>6. s \in Nat
  <2>1. ListedOK(r2, now)
    BY <1>1, <1>2, <1>3, UpdateInterestRates
  <2>2. r2.liquidityIndex \in Nat \ {0}
    BY <2>1, ReserveFields, ScalePositive DEF ListedOK, ReserveOK
  <2> QED BY <2>2, RoundedInNat
<1>7. /\ \A u \in Account : r.aToken.balance[u] \in Nat /\ r1.aToken.balance[u] \in Nat
      /\ r1.aToken.balance \in [Account -> Nat]
    BY <1>2, <1>3, ReserveBooks, BalancedTokenFields
<1> HIDE DEF s, r1, r2, r3, t, r
<1>8. TokensKept(r, r3)
    BY <1>3, <1>5, <1>6, <1>7 DEF TokensKept
<1> QED BY <1>1, <1>8, ReserveKeepsTokens DEF r

\* An operation that only moves debts and funds, after the accrual.
LEMMA DebtsKeepTokens ==
    ASSUME IInv, NEW a \in reservesList, updateStateAccepted(reserves[a], now), NEW n,
           Holds(n, updateState(reserves[a], now).aToken), setReserve(a, n)
    PROVE  KeepsTokens
<1>1. now \in Nat /\ ListedOK(reserves[a], now)
    BY InvFacts
<1>2. TokensKept(reserves[a], updateState(reserves[a], now))
    BY <1>1, AccruedTokens
<1>3. TokensKept(reserves[a], n)
    BY <1>2 DEF TokensKept, Holds
<1> QED BY <1>3, ReserveKeepsTokens

\* _executeBorrow.
LEMMA BorrowKeepsTokens ==
    ASSUME IInv, NEW asset \in reservesList, NEW user, NEW onBehalfOf, NEW amount, NEW m,
           NEW release, ExecuteBorrow(asset, user, onBehalfOf, amount, m, release)
    PROVE  KeepsTokens
<1> DEFINE x  == IF release THEN amount ELSE 0
           r1 == updateState(reserves[asset], now)
           r2 == mintDebt(r1, onBehalfOf, amount, m)
           r3 == updateInterestRates(r2, 0, x, now)
           r4 == [r3 EXCEPT !.liquidity = @ - x]
<1>1. updateStateAccepted(reserves[asset], now) /\ setReserve(asset, r4)
    BY DEF ExecuteBorrow
<1>2. Holds(r1, r1.aToken)
    BY <1>1, InvFacts, AccruedTokens
<1> DEFINE t == r1.aToken
<1> HIDE DEF r1, t
<1>3. Holds(r2, t)
    BY <1>2, SameTokens DEF t
<1> HIDE DEF r2
<1>4. Holds(r3, t)
    BY <1>3, SameTokens
<1> HIDE DEF r3
<1>5. Holds(r4, t)
    BY <1>4, SameTokens
<1> QED BY <1>1, <1>5, DebtsKeepTokens DEF t, r1

\* LendingPool.repay.
LEMMA RepayKeepsTokens ==
    ASSUME IInv, NEW sender, NEW asset, NEW amount, NEW m, NEW onBehalfOf,
           Repay(sender, asset, amount, m, onBehalfOf)
    PROVE  KeepsTokens
<1> DEFINE p  == paybackAmount(asset, amount, m, onBehalfOf)
           r1 == updateState(reserves[asset], now)
           r2 == burnDebt(r1, onBehalfOf, p, m)
           r3 == updateInterestRates(r2, p, 0, now)
           r4 == [r3 EXCEPT !.liquidity = @ + p]
           t  == r1.aToken
<1>1. /\ asset \in reservesList /\ updateStateAccepted(reserves[asset], now)
      /\ setReserve(asset, r4)
    BY DEF Repay, RepayAccepted, Listed
<1>2. Holds(r1, t)
    BY <1>1, InvFacts, AccruedTokens
<1> HIDE DEF p, r1, t
<1>3. Holds(r2, t)
    BY <1>2, SameTokens
<1> HIDE DEF r2
<1>4. Holds(r3, t)
    BY <1>3, SameTokens
<1> HIDE DEF r3
<1>5. Holds(r4, t)
    BY <1>4, SameTokens
<1> QED BY <1>1, <1>5, DebtsKeepTokens DEF t, r1

\* LendingPool.swapBorrowRateMode and LendingPool.rebalanceStableBorrowRate.
LEMMA RewriteKeepsTokens ==
    ASSUME IInv, NEW asset \in reservesList, NEW user, NEW x, NEW m, NEW o,
           updateStateAccepted(reserves[asset], now),
           setReserve(asset,
               updateInterestRates(
                   mintDebt(burnDebt(updateState(reserves[asset], now), user, x, m), user, x, o),
                   0, 0, now))
    PROVE  KeepsTokens
<1> DEFINE r1 == updateState(reserves[asset], now)
           r2 == burnDebt(r1, user, x, m)
           r3 == mintDebt(r2, user, x, o)
           r4 == updateInterestRates(r3, 0, 0, now)
           t  == r1.aToken
<1>1. Holds(r1, t) /\ setReserve(asset, r4)
    BY InvFacts, AccruedTokens
<1> HIDE DEF r1, t
<1>2. Holds(r2, t)
    BY <1>1, SameTokens
<1> HIDE DEF r2
<1>3. Holds(r3, t)
    BY <1>2, SameTokens
<1> HIDE DEF r3
<1>4. Holds(r4, t)
    BY <1>3, SameTokens
<1> QED BY <1>1, <1>4, DebtsKeepTokens DEF t, r1

\* A leg of a flash loan that is lent, and one that is paid back.
LEMMA LendKeepsTokens ==
    ASSUME IInv, FlashLoanLend
    PROVE  KeepsTokens
<1> DEFINE a == currentLeg.asset
           r == reserves[a]
           n == [r EXCEPT !.liquidity = @ - currentLeg.amount]
<1>1. a \in reservesList /\ setReserve(a, n)
    BY DEF FlashLoanLend, Listed, setReserve
<1>2. Holds(r, r.aToken)
    BY <1>1, InvFacts DEF Holds, Reserve
<1> HIDE DEF a, r
<1>3. Holds(n, r.aToken)
    BY <1>2, SameTokens
<1> HIDE DEF n
<1>4. ListedOK(r, now)
    BY <1>1, InvFacts DEF r
<1>5. \A u \in Account : r.aToken.balance[u] \in Nat
    BY <1>4, ReserveBooks, BalancedTokenFields
<1>6. TokensKept(r, n)
    BY <1>3, <1>5 DEF TokensKept, Holds
<1> QED BY <1>1, <1>6, ReserveKeepsTokens DEF r

LEMMA PayBackKeepsTokens ==
    ASSUME IInv, NEW leg, leg.asset \in reservesList, NEW receiver, payBack(leg, receiver)
    PROVE  KeepsTokens
<1> DEFINE p  == flashLoanPremium(leg.amount)
           w  == leg.amount + p
           r1 == updateState(reserves[leg.asset], now)
           r2 == cumulateToLiquidityIndex(r1, aTokenTotalSupply(r1, now), p)
           r3 == updateInterestRates(r2, w, 0, now)
           r4 == [r3 EXCEPT !.liquidity = @ + w]
           t  == r1.aToken
<1>1. updateStateAccepted(reserves[leg.asset], now) /\ setReserve(leg.asset, r4)
    BY DEF payBack
<1>2. Holds(r1, t)
    BY <1>1, InvFacts, AccruedTokens
<1> HIDE DEF p, w, r1, t
<1>3. Holds(r2, t)
    BY <1>2, SameTokens
<1> HIDE DEF r2
<1>4. Holds(r3, t)
    BY <1>3, SameTokens
<1> HIDE DEF r3
<1>5. Holds(r4, t)
    BY <1>4, SameTokens
<1> QED BY <1>1, <1>5, DebtsKeepTokens DEF t, r1

\* A flash loan that ends a leg, in funds or as a debt.
LEMMA SettleKeepsTokens ==
    ASSUME IInv, FlashLoanSettle
    PROVE  KeepsTokens
<1>1. /\ currentLeg.asset \in reservesList
      /\ IF currentLeg.mode = NONE
         THEN payBack(currentLeg, currentLoan.receiver)
         ELSE ExecuteBorrow(currentLeg.asset, currentLoan.initiator, currentLoan.onBehalfOf,
                            currentLeg.amount, currentLeg.mode, FALSE)
    BY DEF FlashLoanSettle, keepAsDebt, Listed
<1>2. CASE currentLeg.mode = NONE
    BY <1>1, <1>2, PayBackKeepsTokens
<1>3. CASE currentLeg.mode # NONE
    BY <1>1, <1>3, BorrowKeepsTokens
<1> QED BY <1>2, <1>3

\* The admins write to the configuration, to the strategy, or list a reserve.
LEMMA AdminKeepsTokens ==
    ASSUME IInv, AdminStep
    PROVE  KeepsTokens
<1>1. ASSUME NEW a \in Asset, NEW n, reserves' = [reserves EXCEPT ![a] = n],
             a \in reservesList => Holds(n, reserves[a].aToken)
      PROVE  KeepsTokens
  <2> SUFFICES ASSUME NEW b \in reservesList, NEW u \in Account
               PROVE  reserves[b].aToken.balance[u] <= reserves'[b].aToken.balance[u]
    BY DEF KeepsTokens, TokensKept
  <2>1. reserves[b].aToken.balance[u] \in Nat /\ reserves \in [Asset -> Reserve] /\ b \in Asset
    BY InvFacts, ReserveBooks, BalancedTokenFields
  <2>2. reserves'[b].aToken = reserves[b].aToken
    BY <1>1, <2>1 DEF Holds
  <2> QED BY <2>1, <2>2
<1>2. \A a \in Asset : Holds(reserves[a], reserves[a].aToken)
    BY InvFacts DEF Holds, Reserve
<1>3. ASSUME NEW a \in Asset, NEW c, setConfiguration(a, c)
      PROVE  KeepsTokens
  <2> DEFINE n == [reserves[a] EXCEPT !.config = c]
  <2>1. reserves' = [reserves EXCEPT ![a] = n]
    BY <1>3, InvFacts DEF setConfiguration
  <2>2. Holds(n, reserves[a].aToken)
    BY <1>2, SameTokens
  <2> HIDE DEF n
  <2> QED BY <1>1, <2>1, <2>2
<1>4. ASSUME NEW a \in Asset, NEW s, SetReserveInterestRateStrategyAddress(a, s)
      PROVE  KeepsTokens
  <2> DEFINE n == [reserves[a] EXCEPT !.strategy = s]
  <2>1. reserves' = [reserves EXCEPT ![a] = n]
    BY <1>4, InvFacts DEF SetReserveInterestRateStrategyAddress
  <2>2. Holds(n, reserves[a].aToken)
    BY <1>2, SameTokens
  <2> HIDE DEF n
  <2> QED BY <1>1, <2>1, <2>2
<1>5. ASSUME NEW a \in Asset, NEW s, NEW k, InitReserve(a, s, k)
      PROVE  KeepsTokens
  <2>1. a \notin reservesList /\ \E n : setReserve(a, n)
    BY <1>5 DEF InitReserve, Listed
  <2> QED BY <1>1, <2>1 DEF setReserve
<1>6. ASSUME NEW b, SetPoolPause(b)
      PROVE  KeepsTokens
    BY <1>6, OthersKeepTokens DEF SetPoolPause
<1>7. AdminAssets \subseteq Asset
    BY InputAssumption
<1> QED BY <1>3, <1>4, <1>5, <1>6, <1>7
        DEF AdminStep, EnableBorrowingOnReserve, DisableBorrowingOnReserve,
            ConfigureReserveAsCollateral, EnableReserveStableRate, DisableReserveStableRate,
            ActivateReserve, DeactivateReserve, FreezeReserve, UnfreezeReserve, SetReserveFactor

\* Only these take aTokens from anybody.
TakesTokens == WithdrawStep \/ TreasuryStep \/ TransferStep \/ LiquidationStep

LEMMA StepKeepsTokens ==
    ASSUME IInv, [Next]_vars, ~TakesTokens
    PROVE  KeepsTokens
<1>1. CASE Tick \/ PriceChange \/ UNCHANGED vars
    BY <1>1, OthersKeepTokens DEF Tick, PriceChange, vars, poolVars
<1>2. CASE UserStep
  <2>1. User \subseteq Account /\ DepositAmounts \subseteq Nat
    BY InputAssumption
  <2>2. CASE DepositStep
    BY <2>1, <2>2, DepositKeepsTokens DEF DepositStep
  <2>3. CASE BorrowStep
    BY <2>3, BorrowKeepsTokens DEF BorrowStep, Borrow, Listed
  <2>4. CASE RepayStep
    BY <2>4, RepayKeepsTokens DEF RepayStep
  <2>5. CASE SwapStep
    <3>1. PICK u \in User, a \in Asset, m \in RateMode : SwapBorrowRateMode(u, a, m)
      BY <2>5 DEF SwapStep
    <3> DEFINE x == IF m = STABLE THEN stableDebtBalanceOf(reserves[a], u, now)
                                  ELSE variableDebtBalanceOf(reserves[a], u, now)
    <3>2. /\ a \in reservesList /\ updateStateAccepted(reserves[a], now)
          /\ setReserve(a, updateInterestRates(
                 mintDebt(burnDebt(updateState(reserves[a], now), u, x, m), u, x, otherMode(m)),
                 0, 0, now))
      BY <3>1 DEF SwapBorrowRateMode, Listed
    <3> HIDE DEF x
    <3> QED BY <3>2, RewriteKeepsTokens
  <2>6. CASE RebalanceStep
    <3>1. PICK u \in User, v \in User, a \in Asset : RebalanceStableBorrowRate(u, a, v)
      BY <2>6 DEF RebalanceStep
    <3> DEFINE x == stableDebtBalanceOf(reserves[a], v, now)
    <3>2. /\ a \in reservesList /\ updateStateAccepted(reserves[a], now)
          /\ setReserve(a, updateInterestRates(
                 mintDebt(burnDebt(updateState(reserves[a], now), v, x, STABLE), v, x, STABLE),
                 0, 0, now))
      BY <3>1 DEF RebalanceStableBorrowRate, Listed
    <3> HIDE DEF x
    <3> QED BY <3>2, RewriteKeepsTokens
  <2>7. CASE CollateralStep
    BY <2>7, OthersKeepTokens DEF CollateralStep, SetUserUseReserveAsCollateral
  <2>8. CASE ApproveStep
    BY <2>8, OthersKeepTokens DEF ApproveStep, ApproveDelegation
  <2> QED BY <1>2, <2>2, <2>3, <2>4, <2>5, <2>6, <2>7, <2>8 DEF UserStep, TakesTokens
<1>3. CASE FlashLoanStep
  <2>1. CASE FlashLoanBeginStep
    BY <2>1, OthersKeepTokens DEF FlashLoanBeginStep, FlashLoanBegin, poolVars
  <2>2. CASE FlashLoanReturn
    BY <2>2, OthersKeepTokens DEF FlashLoanReturn, poolVars
  <2> QED BY <1>3, <2>1, <2>2, LendKeepsTokens, SettleKeepsTokens DEF FlashLoanStep
<1> QED BY <1>1, <1>2, <1>3, AdminKeepsTokens DEF Next, TakesTokens

\* What an action does to all the deposits, and to all the debts, if it takes from neither.
KeepsDeposits == \A a \in reservesList : DepositsKept(reserves[a], reserves'[a])
KeepsDebts    == \A a \in reservesList : DebtsKept(reserves[a], reserves'[a])

\* Whoever keeps his aTokens keeps what they show, as the indexes never fall.
LEMMA TokensShow ==
    ASSUME IInv, IInv', [Next]_vars, now' = now, KeepsTokens
    PROVE  KeepsDeposits
<1> SUFFICES ASSUME NEW a \in reservesList, NEW u \in Account
             PROVE  aTokenBalanceOf(reserves[a], u, now) <= aTokenBalanceOf(reserves'[a], u, now)
    BY DEF KeepsDeposits, DepositsKept
<1>1. now \in Nat /\ ListedOK(reserves[a], now)
    BY InvFacts
<1>2. ListedOK(reserves'[a], now)
    BY ReservesStayListed DEF IInv, ReservesOK, TypeOK
<1>3. getNormalizedIncome(reserves'[a], now) >= getNormalizedIncome(reserves[a], now)
  <2>1. CASE IndexStep
    BY <2>1 DEF IndexStep
  <2>2. CASE UNCHANGED vars
    <3>1. reserves' = reserves /\ getNormalizedIncome(reserves[a], now) \in Nat
      BY <1>1, <2>2, NormalizedIndexes DEF vars, poolVars
    <3> QED BY <3>1
  <2> QED BY <2>1, <2>2, NextPreserves
<1>4. getNormalizedIncome(reserves[a], now) <= getNormalizedIncome(reserves'[a], now)
    BY <1>1, <1>2, <1>3, NormalizedIndexes
<1>5. reserves[a].aToken.balance[u] <= reserves'[a].aToken.balance[u]
    BY DEF KeepsTokens, TokensKept
<1> QED BY <1>1, <1>2, <1>4, <1>5, MoreTokens

\* An operation on one reserve keeps the debts if what it makes of it does.
LEMMA ReserveKeepsDebts ==
    ASSUME IInv, NEW a \in reservesList, NEW n, setReserve(a, n), DebtsKept(reserves[a], n)
    PROVE  KeepsDebts
<1> SUFFICES ASSUME NEW b \in reservesList
             PROVE  DebtsKept(reserves[b], reserves'[b])
    BY DEF KeepsDebts
<1>1. reserves'[a] = n /\ (b # a => reserves'[b] = reserves[b])
    BY InvFacts DEF setReserve
<1> QED BY <1>1 DEF DebtsKept

\* LendingPool.withdraw, by a user or by the treasury.
LEMMA WithdrawKeepsDebts ==
    ASSUME IInv, InterestIsCharged, NEW sender \in Account, NEW asset \in Asset,
           NEW amount \in Nat, NEW to \in Account, Withdraw(sender, asset, amount, to)
    PROVE  KeepsDebts
<1> DEFINE r  == reserves[asset]
           w  == amountToWithdraw(sender, asset, amount)
           r1 == updateState(r, now)
           r2 == updateInterestRates(r1, 0, w, now)
           t  == burn(r2.aToken, sender, w, r2.liquidityIndex)
           r3 == withFunds(r2, r2.liquidity - w, t)
<1>1. /\ asset \in reservesList /\ updateStateAccepted(r, now)
      /\ updateInterestRatesAccepted(r1, 0, w)
      /\ burnAccepted(r1.aToken, sender, w, r1.liquidityIndex)
      /\ setReserve(asset, r3)
    BY DEF Withdraw, WithdrawAccepted, Listed, withFunds
<1> HIDE DEF r1, r2, t, r3
<1>2. ListedOK(r, now) /\ now \in Nat /\ 0 \in Nat /\ DebtorsAreCharged(r)
    BY <1>1, InvFacts DEF r, InterestIsCharged
<1>3. w \in Nat
    BY <1>2, ReserveViews DEF amountToWithdraw
<1> HIDE DEF r, w
<1>4. Accrued(r, r1) /\ DebtsKept(r, r1)
    BY <1>2, UpdateStateKeeps DEF r1
<1>5. /\ Accrued(r, r2) /\ DebtsKept(r1, r2) /\ r2.liquidityIndex = r1.liquidityIndex
      /\ r2.aToken = r1.aToken /\ r2.liquidity + 0 - w \in Nat
    BY <1>1, <1>2, <1>3, <1>4, AccruedUpdateInterestRates, RatesKeep DEF r2
<1>6. /\ ListedOK(r2, now) /\ r2.aToken \in BalancedToken /\ r2.liquidity \in Nat
      /\ r2.liquidityIndex \in Nat /\ r2.liquidityIndex >= RAY
    BY <1>5, AccruedFields
<1>7. t \in BalancedToken /\ r2.liquidity - w \in Nat
  <2>1. burnAccepted(r2.aToken, sender, w, r2.liquidityIndex)
    BY <1>1, <1>5
  <2>2. t \in BalancedToken
    BY <1>3, <1>6, <2>1, TokenOperationsType DEF t
  <2> QED BY <1>3, <1>5, <1>6, <2>2
<1>8. DebtsKept(r2, r3)
    BY <1>2, <1>6, <1>7, FundsKeep DEF r3
<1>9. DebtsKept(r, r3)
    BY <1>4, <1>5, <1>8, DebtsKeptAgain
<1> QED BY <1>1, <1>9, ReserveKeepsDebts DEF r

\* AToken.transfer.
LEMMA TransferKeepsDebts ==
    ASSUME IInv, NEW sender \in Account, NEW asset \in Asset, NEW recipient \in Account,
           NEW amount \in Nat, Transfer(sender, asset, recipient, amount)
    PROVE  KeepsDebts
<1> DEFINE r      == reserves[asset]
           scaled == rayDiv(amount, getNormalizedIncome(r, now))
           t      == transferScaled(r.aToken, sender, recipient, scaled)
           n      == withFunds(r, r.liquidity, t)
<1>1. /\ asset \in reservesList
      /\ transferScaledAccepted(r.aToken, sender, scaled)
      /\ setReserve(asset, [r EXCEPT !.aToken = t])
    BY DEF Transfer, Listed
<1>2. ListedOK(r, now) /\ now \in Nat /\ r \in Reserve
    BY <1>1, InvFacts DEF r, ListedOK, ReserveOK
<1>3. [r EXCEPT !.aToken = t] = n
    BY <1>2 DEF withFunds, Reserve
<1>4. getNormalizedIncome(r, now) \in Nat \ {0} /\ r.liquidity \in Nat
      /\ r.aToken \in BalancedToken
    BY <1>2, NormalizedIndexes, ReserveFields, ReserveBooks, ScalePositive
<1>5. scaled \in Nat
    BY <1>4, RoundedInNat
<1> HIDE DEF r, scaled
<1>6. t \in BalancedToken
    BY <1>1, <1>4, <1>5, ScaledTokenType
<1> HIDE DEF t
<1>7. DebtsKept(r, n)
    BY <1>2, <1>4, <1>6, FundsKeep
<1> HIDE DEF n
<1> QED BY <1>1, <1>3, <1>7, ReserveKeepsDebts DEF r

\* What a liquidation does with its terms, in the reserves c and d.
Liquidates(user, c, d, amount) ==
    LET terms == liquidationTerms(c, d, user, amount)
    IN  /\ c \in reservesList /\ d \in reservesList
        /\ reserves[c].config.liquidationThreshold > 0 /\ price[c] > 0
        /\ DebtsTaken(reserves', d, user, terms.repaid)
        /\ DepositsTaken(reserves', c, user, terms.seized)

\* An action takes from nobody's deposits, or from nobody's debts, or is a liquidation.
LEMMA StepOutcome ==
    ASSUME IInv, IInv', Treasury \notin User, InterestIsCharged, [Next]_vars, now' = now
    PROVE  \/ KeepsDeposits
           \/ KeepsDebts
           \/ \E user \in Account, c, d \in Asset, amount \in Nat : Liquidates(user, c, d, amount)
<1>1. /\ User \subseteq Account \ {Treasury} /\ User \subseteq Account /\ Treasury \in Account
      /\ WithdrawAmounts \subseteq Nat /\ TransferAmounts \subseteq Nat
      /\ LiquidationAmounts \subseteq Nat
    BY InputAssumption, TreasuryAssumption
<1>2. CASE WithdrawStep \/ TreasuryStep
    BY <1>1, <1>2, WithdrawKeepsDebts DEF WithdrawStep, TreasuryStep
<1>3. CASE TransferStep
    BY <1>1, <1>3, TransferKeepsDebts DEF TransferStep
<1>4. CASE LiquidationStep
  <2>1. PICK u \in User, v \in User, a \in Asset, d \in Asset, n \in LiquidationAmounts,
             b \in BOOLEAN : LiquidationCall(u, a, d, v, n, b)
    BY <1>4 DEF LiquidationStep
  <2>2. u \in Account /\ v \in Account \ {Treasury} /\ v \in Account /\ n \in Nat
    BY <1>1
  <2>3. LET terms == liquidationTerms(a, d, v, n)
        IN  /\ DebtsTaken(reserves', d, v, terms.repaid)
            /\ DepositsTaken(reserves', a, v, terms.seized)
    BY <2>1, <2>2, LiquidationOutcome
  <2>4. /\ a \in reservesList /\ d \in reservesList
        /\ reserves[a].config.liquidationThreshold > 0 /\ price[a] > 0
    BY <2>1 DEF LiquidationCall, LiquidationAccepted, Listed, validateLiquidationCall, priceUsable
  <2>5. Liquidates(v, a, d, n)
    BY <2>3, <2>4 DEF Liquidates
  <2> QED BY <2>2, <2>5
<1>5. CASE ~TakesTokens
    BY <1>5, StepKeepsTokens, TokensShow
<1> QED BY <1>2, <1>3, <1>4, <1>5 DEF TakesTokens
-----------------------------------------------------------------------------
(* What is lost and cleared, in ETH *)

\* The sums of what the reserves hold of an account are totals.
LEMMA DepositsTotal ==
    ASSUME NEW rs, NEW prices, NEW u, NEW time, IsFiniteSet(reservesList),
           NEW f, \A a \in reservesList : f[a] = collateralInETH(rs, prices, u, a, time)
    PROVE  depositsInETH(rs, prices, u, time) = Total(f, reservesList)
<1> DEFINE S == reservesList
           amount(a) == collateralInETH(rs, prices, u, a, time)
           iter == CHOOSE g : g = [s \in SUBSET S |->
                                      IF s = {} THEN 0 ELSE amount(anyOf(s)) + g[s \ {anyOf(s)}]]
<1>1. PICK h : Sums(h, f, S)
    BY SumExists
<1>2. depositsInETH(rs, prices, u, time) = iter[S]
    BY DEF depositsInETH, MapThenSumSet, MapThenFoldSet, anyOf
<1>3. \A s \in SUBSET S : s # {} => f[anyOf(s)] = amount(anyOf(s))
    BY DEF anyOf
<1> HIDE DEF amount
<1>4. \A g : Sums(g, f, S)
               <=> g = [s \in SUBSET S |->
                           IF s = {} THEN 0 ELSE amount(anyOf(s)) + g[s \ {anyOf(s)}]]
    BY <1>3 DEF Sums, summed
<1>5. Sums(iter, f, S)
    BY <1>1, <1>4
<1> HIDE DEF iter
<1> QED BY <1>2, <1>5, TotalIsTheSum

LEMMA OwedTotal ==
    ASSUME NEW rs, NEW prices, NEW u, NEW time, IsFiniteSet(reservesList),
           NEW f, \A a \in reservesList : f[a] = debtInETH(rs, prices, u, a, time)
    PROVE  debtsInETH(rs, prices, u, time) = Total(f, reservesList)
<1> DEFINE S == reservesList
           amount(a) == debtInETH(rs, prices, u, a, time)
           iter == CHOOSE g : g = [s \in SUBSET S |->
                                      IF s = {} THEN 0 ELSE amount(anyOf(s)) + g[s \ {anyOf(s)}]]
<1>1. PICK h : Sums(h, f, S)
    BY SumExists
<1>2. debtsInETH(rs, prices, u, time) = iter[S]
    BY DEF debtsInETH, MapThenSumSet, MapThenFoldSet, anyOf
<1>3. \A s \in SUBSET S : s # {} => f[anyOf(s)] = amount(anyOf(s))
    BY DEF anyOf
<1> HIDE DEF amount
<1>4. \A g : Sums(g, f, S)
               <=> g = [s \in SUBSET S |->
                           IF s = {} THEN 0 ELSE amount(anyOf(s)) + g[s \ {anyOf(s)}]]
    BY <1>3 DEF Sums, summed
<1>5. Sums(iter, f, S)
    BY <1>1, <1>4
<1> HIDE DEF iter
<1> QED BY <1>2, <1>5, TotalIsTheSum

\* What a record of reserve a shows u, at the prices and the configuration of the market.
depositValue(n, a, u) == valueInETH(reserves, price, a, aTokenBalanceOf(n, u, now))
debtValue(n, a, u)    == valueInETH(reserves, price, a, owed(n, u))

depositValues(rs, u) == [a \in reservesList |-> depositValue(rs[a], a, u)]
debtValues(rs, u)    == [a \in reservesList |-> debtValue(rs[a], a, u)]

\* The collateral lost and the debt cleared by a step of the same market.
LEMMA MarketTotals ==
    ASSUME IInv, sameMarket, NEW u
    PROVE  /\ collateralLost(u) = Total(depositValues(reserves, u), reservesList)
                                    - Total(depositValues(reserves', u), reservesList)
           /\ debtCleared(u) = Total(debtValues(reserves, u), reservesList)
                                 - Total(debtValues(reserves', u), reservesList)
<1>1. IsFiniteSet(reservesList) /\ reservesList \subseteq Asset
    BY InvFacts, AssetAssumption, FS_Subset
<1>2. ASSUME NEW a \in reservesList
      PROVE  /\ depositValues(reserves, u)[a] = collateralInETH(reserves, price, u, a, now)
             /\ depositValues(reserves', u)[a] = collateralInETH(reserves', price', u, a, now')
             /\ debtValues(reserves, u)[a] = debtInETH(reserves, price, u, a, now)
             /\ debtValues(reserves', u)[a] = debtInETH(reserves', price', u, a, now')
  <2>1. \A x : valueInETH(reserves', price', a, x) = valueInETH(reserves, price, a, x)
    BY <1>1 DEF valueInETH, sameMarket
  <2>2. now' = now
    BY DEF sameMarket
  <2> QED BY <2>1, <2>2 DEF depositValues, debtValues, depositValue, debtValue, collateralInETH,
                            debtInETH, owed
<1>3. /\ depositsInETH(reserves, price, u, now) = Total(depositValues(reserves, u), reservesList)
      /\ depositsInETH(reserves', price', u, now')
           = Total(depositValues(reserves', u), reservesList)
    BY <1>1, <1>2, DepositsTotal
<1>4. /\ debtsInETH(reserves, price, u, now) = Total(debtValues(reserves, u), reservesList)
      /\ debtsInETH(reserves', price', u, now') = Total(debtValues(reserves', u), reservesList)
    BY <1>1, <1>2, OwedTotal
<1> QED BY <1>3, <1>4 DEF collateralLost, debtCleared

\* More is worth no less.
LEMMA WorthMore ==
    ASSUME IInv, NEW a \in reservesList, NEW x \in Nat, NEW y \in Nat
    PROVE  /\ valueInETH(reserves, price, a, x) \in Nat
           /\ x <= y => valueInETH(reserves, price, a, x) <= valueInETH(reserves, price, a, y)
<1>1. PICK p \in Nat, k \in Nat \ {0} : p = price[a] /\ k = reserves[a].config.unit
  <2>1. price[a] \in Nat /\ reserves[a] \in Reserve
    BY InvFacts
  <2> QED BY <2>1 DEF Reserve, Configuration
<1>2. p * x \in Nat /\ p * y \in Nat
    OBVIOUS
<1>3. x <= y => p * x <= p * y
    BY ProductMonotone
<1>4. (p * x) \div k \in Nat
    BY <1>2, DivProp
<1>5. x <= y => (p * x) \div k <= (p * y) \div k
    BY <1>2, <1>3, DivMonotone
<1> QED BY <1>1, <1>4, <1>5 DEF valueInETH

\* Two sums that differ, to the advantage of the later, but in one term.
LEMMA TotalLost ==
    ASSUME NEW S, IsFiniteSet(S), NEW f, \A x \in S : f[x] \in Int,
           NEW g, \A x \in S : g[x] \in Int, NEW x \in S, \A y \in S \ {x} : f[y] <= g[y]
    PROVE  Total(f, S) - Total(g, S) <= f[x] - g[x]
<1>1. Total(f, S) = f[x] + Total(f, S \ {x}) /\ Total(g, S) = g[x] + Total(g, S \ {x})
    BY TotalRemove
<1>2. IsFiniteSet(S \ {x})
    BY PartsAreFinite
<1>3. Total(f, S \ {x}) <= Total(g, S \ {x})
    BY <1>2, TotalMonotone
<1>4. Total(f, S \ {x}) \in Int /\ Total(g, S \ {x}) \in Int
    BY TotalType
<1> QED BY <1>1, <1>3, <1>4

\* The records of the listed reserves, before and after a step of a block, show numbers.
LEMMA StepShows ==
    ASSUME IInv, IInv', [Next]_vars, now' = now, NEW a \in reservesList, NEW u \in Account
    PROVE  /\ aTokenBalanceOf(reserves[a], u, now) \in Nat /\ owed(reserves[a], u) \in Nat
           /\ aTokenBalanceOf(reserves'[a], u, now) \in Nat /\ owed(reserves'[a], u) \in Nat
<1>1. now \in Nat /\ ListedOK(reserves[a], now)
    BY InvFacts
<1>2. ListedOK(reserves'[a], now)
    BY ReservesStayListed DEF IInv, ReservesOK, TypeOK
<1> QED BY <1>1, <1>2, ShownTypes

\* ... and what they show is worth numbers.
LEMMA StepValues ==
    ASSUME IInv, IInv', [Next]_vars, now' = now, NEW a \in reservesList, NEW u \in Account
    PROVE  /\ depositValues(reserves, u)[a] = depositValue(reserves[a], a, u)
           /\ depositValues(reserves', u)[a] = depositValue(reserves'[a], a, u)
           /\ debtValues(reserves, u)[a] = debtValue(reserves[a], a, u)
           /\ debtValues(reserves', u)[a] = debtValue(reserves'[a], a, u)
           /\ depositValues(reserves, u)[a] \in Nat /\ depositValues(reserves', u)[a] \in Nat
           /\ debtValues(reserves, u)[a] \in Nat /\ debtValues(reserves', u)[a] \in Nat
<1>1. /\ depositValue(reserves[a], a, u) \in Nat /\ depositValue(reserves'[a], a, u) \in Nat
      /\ debtValue(reserves[a], a, u) \in Nat /\ debtValue(reserves'[a], a, u) \in Nat
    BY StepShows, WorthMore DEF depositValue, debtValue
<1> QED BY <1>1 DEF depositValues, debtValues

\* Deposits that are kept are not lost, debts that are kept are not cleared.
LEMMA KeptIsNotLost ==
    ASSUME IInv, IInv', [Next]_vars, sameMarket, NEW u \in Account
    PROVE  /\ (\A a \in reservesList : aTokenBalanceOf(reserves[a], u, now)
                                         <= aTokenBalanceOf(reserves'[a], u, now))
                 => collateralLost(u) <= 0
           /\ (\A a \in reservesList : owed(reserves'[a], u) = owed(reserves[a], u))
                 => debtCleared(u) <= 0
<1> DEFINE f == depositValues(reserves, u)
           g == depositValues(reserves', u)
           h == debtValues(reserves, u)
           k == debtValues(reserves', u)
           S == reservesList
<1>1. now' = now /\ IsFiniteSet(S)
    BY InvFacts, AssetAssumption, FS_Subset DEF sameMarket
<1>2. \A a \in S : f[a] \in Nat /\ g[a] \in Nat /\ h[a] \in Nat /\ k[a] \in Nat
    BY <1>1, StepValues
<1>3. /\ Total(f, S) \in Nat /\ Total(g, S) \in Nat /\ Total(h, S) \in Nat /\ Total(k, S) \in Nat
    BY <1>1, <1>2, TotalType
<1>4. /\ collateralLost(u) = Total(f, S) - Total(g, S)
      /\ debtCleared(u) = Total(h, S) - Total(k, S)
    BY MarketTotals
<1>5. ASSUME \A a \in S : aTokenBalanceOf(reserves[a], u, now) <= aTokenBalanceOf(reserves'[a], u, now)
      PROVE  collateralLost(u) <= 0
  <2>1. ASSUME NEW a \in S PROVE f[a] <= g[a]
    <3>1. /\ aTokenBalanceOf(reserves[a], u, now) <= aTokenBalanceOf(reserves'[a], u, now)
          /\ aTokenBalanceOf(reserves[a], u, now) \in Nat
          /\ aTokenBalanceOf(reserves'[a], u, now) \in Nat
      BY <1>1, <1>5, StepShows
    <3>2. depositValue(reserves[a], a, u) <= depositValue(reserves'[a], a, u)
      BY <3>1, WorthMore DEF depositValue
    <3> QED BY <1>1, <3>2, StepValues
  <2> HIDE DEF f, g, S
  <2>2. \A a \in S : f[a] \in Int /\ g[a] \in Int
    BY <1>2
  <2>3. Total(f, S) <= Total(g, S)
    BY <1>1, <2>1, <2>2, TotalMonotone
  <2> QED BY <1>3, <1>4, <2>3
<1>6. ASSUME \A a \in S : owed(reserves'[a], u) = owed(reserves[a], u)
      PROVE  debtCleared(u) <= 0
  <2>1. ASSUME NEW a \in S PROVE k[a] = h[a]
    BY <1>1, <1>6, StepValues DEF debtValue
  <2> HIDE DEF h, k, S
  <2>2. \A a \in S : h[a] \in Int
    BY <1>2
  <2>3. Total(k, S) = Total(h, S)
    BY <1>1, <2>1, <2>2, TotalSame
  <2> QED BY <1>3, <1>4, <2>3
<1> QED BY <1>5, <1>6

\* What the liquidated user loses and what of his debt is cleared, in ETH: what his deposit
\* in c and his debt in d show less.
LEMMA LiquidationTotals ==
    ASSUME IInv, IInv', [Next]_vars, sameMarket, NEW u \in Account,
           NEW c \in reservesList, NEW d \in reservesList, NEW s, NEW x,
           DepositsTaken(reserves', c, u, s), DebtsTaken(reserves', d, u, x)
    PROVE  /\ collateralLost(u) <= depositValue(reserves[c], c, u) - depositValue(reserves'[c], c, u)
           /\ debtCleared(u) = debtValue(reserves[d], d, u) - debtValue(reserves'[d], d, u)
<1> DEFINE f == depositValues(reserves, u)
           g == depositValues(reserves', u)
           h == debtValues(reserves, u)
           k == debtValues(reserves', u)
           S == reservesList
<1>1. now' = now /\ IsFiniteSet(S)
    BY InvFacts, AssetAssumption, FS_Subset DEF sameMarket
<1>2. \A a \in S : f[a] \in Nat /\ g[a] \in Nat /\ h[a] \in Nat /\ k[a] \in Nat
    BY <1>1, StepValues
<1>3. /\ Total(h, S) \in Nat /\ Total(k, S) \in Nat
    BY <1>1, <1>2, TotalType
<1>4. /\ collateralLost(u) = Total(f, S) - Total(g, S)
      /\ debtCleared(u) = Total(h, S) - Total(k, S)
    BY MarketTotals
<1>5. ASSUME NEW a \in S \ {c} PROVE f[a] <= g[a]
  <2>1. /\ aTokenBalanceOf(reserves[a], u, now) <= aTokenBalanceOf(reserves'[a], u, now)
        /\ aTokenBalanceOf(reserves[a], u, now) \in Nat
        /\ aTokenBalanceOf(reserves'[a], u, now) \in Nat
    BY <1>1, StepShows DEF DepositsTaken, DepositsKept
  <2>2. depositValue(reserves[a], a, u) <= depositValue(reserves'[a], a, u)
    BY <2>1, WorthMore DEF depositValue
  <2> QED BY <1>1, <2>2, StepValues
<1>6. ASSUME NEW a \in S \ {d} PROVE k[a] = h[a]
  <2>1. owed(reserves'[a], u) = owed(reserves[a], u)
    BY DEF DebtsTaken, DebtsKept
  <2> QED BY <1>1, <2>1, StepValues DEF debtValue
<1>7. /\ f[c] = depositValue(reserves[c], c, u) /\ g[c] = depositValue(reserves'[c], c, u)
      /\ h[d] = debtValue(reserves[d], d, u) /\ k[d] = debtValue(reserves'[d], d, u)
    BY <1>1, StepValues
<1>8. \A a \in S : f[a] \in Int /\ g[a] \in Int /\ h[a] \in Int /\ k[a] \in Int
    BY <1>2
<1> HIDE DEF f, g, h, k
<1>9. Total(f, S) - Total(g, S) <= f[c] - g[c]
    BY <1>1, <1>5, <1>8, TotalLost
<1>10. Total(k, S) = Total(h, S) + k[d] - h[d]
    BY <1>1, <1>6, <1>8, TotalChange
<1>11. debtCleared(u) = h[d] - k[d]
    BY <1>2, <1>3, <1>4, <1>10
<1> QED BY <1>4, <1>7, <1>9, <1>11

\* Whoever loses collateral against the clearing of his debt is liquidated.
LEMMA LossIsLiquidation ==
    ASSUME IInv, IInv', Treasury \notin User, InterestIsCharged, [Next]_vars, sameMarket,
           NEW u \in Account, collateralLost(u) > 0, debtCleared(u) > 0
    PROVE  \E c, d \in Asset, amount \in Nat : Liquidates(u, c, d, amount)
<1>1. now' = now
    BY DEF sameMarket
<1>2. ~(collateralLost(u) <= 0) /\ ~(debtCleared(u) <= 0)
  <2> DEFINE S == reservesList
  <2>1. IsFiniteSet(S)
    BY InvFacts, AssetAssumption, FS_Subset
  <2>2. \A a \in S : /\ depositValues(reserves, u)[a] \in Nat /\ depositValues(reserves', u)[a] \in Nat
                     /\ debtValues(reserves, u)[a] \in Nat /\ debtValues(reserves', u)[a] \in Nat
    BY <1>1, StepValues
  <2>3. /\ Total(depositValues(reserves, u), S) \in Nat /\ Total(depositValues(reserves', u), S) \in Nat
        /\ Total(debtValues(reserves, u), S) \in Nat /\ Total(debtValues(reserves', u), S) \in Nat
    BY <2>1, <2>2, TotalType
  <2>4. collateralLost(u) \in Int /\ debtCleared(u) \in Int
    BY <2>3, MarketTotals
  <2> QED BY <2>4
<1>3. CASE KeepsDeposits
    BY <1>2, <1>3, KeptIsNotLost DEF KeepsDeposits, DepositsKept
<1>4. CASE KeepsDebts
    BY <1>2, <1>4, KeptIsNotLost DEF KeepsDebts, DebtsKept
<1>5. ASSUME NEW v \in Account, NEW c \in Asset, NEW d \in Asset, NEW amount \in Nat,
             Liquidates(v, c, d, amount)
      PROVE  v = u
  <2>1. ASSUME v # u PROVE FALSE
    <3>1. DebtsTaken(reserves', d, v, liquidationTerms(c, d, v, amount).repaid)
      BY <1>5 DEF Liquidates
    <3>2. \A a \in reservesList : owed(reserves'[a], u) = owed(reserves[a], u)
      BY <2>1, <3>1 DEF DebtsTaken, DebtsKept, OthersOwe
    <3> QED BY <1>2, <3>2, KeptIsNotLost
  <2> QED BY <2>1
<1> QED BY <1>1, <1>3, <1>4, <1>5, StepOutcome

\* No more is repaid than the close factor of the debt.
LEMMA RepaidWithinCloseFactor ==
    ASSUME IInv, NEW c \in reservesList, NEW d \in reservesList, NEW user \in Account,
           NEW amount \in Nat
    PROVE  /\ percentMul(debtOf(d, user), LIQUIDATION_CLOSE_FACTOR_PERCENT) \in Nat
           /\ liquidationTerms(c, d, user, amount).repaid \in Nat
                => liquidationTerms(c, d, user, amount).repaid
                     <= percentMul(debtOf(d, user), LIQUIDATION_CLOSE_FACTOR_PERCENT)
<1> DEFINE most   == percentMul(debtOf(d, user), LIQUIDATION_CLOSE_FACTOR_PERCENT)
           actual == actualDebtToLiquidate(amount, debtOf(d, user))
           terms  == liquidationTerms(c, d, user, amount)
           available == calculateAvailableCollateralToLiquidate(
                            c, d, actual, aTokenBalanceOf(reserves[c], user, now))
<1>1. most \in Nat
    BY DebtViews, RoundedInNat, PoolConstantsAssumption
<1>2. actual = IF amount > most THEN most ELSE amount
    BY DEF actualDebtToLiquidate
<1>3. terms.repaid = IF available.debt < actual THEN available.debt ELSE actual
    BY DEF liquidationTerms
<1> HIDE DEF most, actual, terms, available
<1>4. actual \in Nat /\ actual <= most
    BY <1>1, <1>2
<1>5. terms.repaid \in Nat => terms.repaid <= most
  <2>1. CASE available.debt < actual /\ terms.repaid \in Nat
    <3>1. terms.repaid < actual
      BY <1>3, <2>1
    <3> QED BY <1>1, <1>4, <2>1, <3>1
  <2>2. CASE ~(available.debt < actual)
    BY <1>3, <1>4, <2>2
  <2> QED BY <2>1, <2>2
<1> QED BY <1>1, <1>5 DEF most, terms

\* What a liquidation clears of a debt is within the close factor.
LEMMA LiquidationClearsPart ==
    ASSUME IInv, IInv', [Next]_vars, now' = now, NEW u \in Account, NEW c \in Asset,
           NEW d \in Asset, NEW amount \in Nat, Liquidates(u, c, d, amount),
           NEW a \in reservesList
    PROVE  owed(reserves[a], u) - owed(reserves'[a], u)
             <= percentMul(debtOf(a, u), LIQUIDATION_CLOSE_FACTOR_PERCENT) + debtRounding(a)
<1> DEFINE most == percentMul(debtOf(a, u), LIQUIDATION_CLOSE_FACTOR_PERCENT)
           x == owed(reserves[a], u)
           y == owed(reserves'[a], u)
           s == liquidationTerms(c, d, u, amount).repaid
           k == debtRounding(a)
<1> SUFFICES x - y <= most + k
    OBVIOUS
<1>1. x \in Nat /\ y \in Nat
    BY StepShows
<1>2. most \in Nat
    BY DebtViews, RoundedInNat, PoolConstantsAssumption
<1>3. k \in Nat
  <2>1. ReserveOK(reserves[a], now) /\ now \in Nat
    BY InvFacts DEF ListedOK
  <2>2. getNormalizedDebt(reserves[a], now) \in Nat
    BY <2>1, ShownDebtIndex
  <2> QED BY <2>2, RoundingType DEF debtRounding
<1>4. /\ c \in reservesList /\ d \in reservesList
      /\ DebtsTaken(reserves', d, u, s)
      /\ reserves[c].config.liquidationThreshold > 0 /\ price[c] > 0
    BY DEF Liquidates
<1>5. CASE a # d
  <2>1. y = x
    BY <1>4, <1>5 DEF DebtsTaken, DebtsKept
  <2> HIDE DEF x, y, most, k
  <2> QED BY <1>1, <1>2, <1>3, <2>1
<1>6. CASE a = d
  <2>1. x <= y + s + k
    BY <1>4, <1>6 DEF DebtsTaken, Taken
  <2>2. s \in Nat
    BY <1>4, LiquidationTermsType DEF priceUsable
  <2>3. s <= most
    BY <1>4, <1>6, <2>2, RepaidWithinCloseFactor
  <2> HIDE DEF x, y, most, k, s
  <2> QED BY <1>1, <1>2, <1>3, <2>1, <2>2, <2>3
<1> QED BY <1>5, <1>6

\* A liquidation clears no more of a debt than the close factor of it, but for the
\* rounding of the burn, wherever the interest owed is charged.
THEOREM LiquidationIsPartial ==
    ASSUME Treasury \notin User
    PROVE  Spec /\ []InterestIsCharged => CloseFactorRespected
<1> DEFINE Step ==
        \A u \in Account, a \in reservesList :
          sameMarket /\ collateralLost(u) > 0 /\ debtCleared(u) > 0 =>
              debtOf(a, u) - debtOf(a, u)'
                  <= percentMul(debtOf(a, u), LIQUIDATION_CLOSE_FACTOR_PERCENT)
                       + debtRounding(a)
<1>1. IInv /\ IInv' /\ InterestIsCharged /\ [Next]_vars => Step
  <2> SUFFICES ASSUME IInv, IInv', InterestIsCharged, [Next]_vars, sameMarket,
                      NEW u \in Account, NEW a \in reservesList,
                      collateralLost(u) > 0, debtCleared(u) > 0
               PROVE  debtOf(a, u) - debtOf(a, u)'
                        <= percentMul(debtOf(a, u), LIQUIDATION_CLOSE_FACTOR_PERCENT)
                             + debtRounding(a)
    OBVIOUS
  <2>1. now' = now /\ STABLE # VARIABLE_RATE
    BY DEF sameMarket, STABLE, VARIABLE_RATE
  <2>2. debtOf(a, u) = owed(reserves[a], u) /\ debtOf(a, u)' = owed(reserves'[a], u)
    BY <2>1 DEF debtOf, debtOfMode, owed
  <2>3. PICK c, d \in Asset, amount \in Nat : Liquidates(u, c, d, amount)
    BY LossIsLiquidation
  <2>4. owed(reserves[a], u) - owed(reserves'[a], u)
          <= percentMul(debtOf(a, u), LIQUIDATION_CLOSE_FACTOR_PERCENT) + debtRounding(a)
    BY <2>1, <2>3, LiquidationClearsPart
  <2> QED BY <2>2, <2>4
<1>2. Spec => [](IInv)
    BY InvariantHolds
<1> QED BY <1>1, <1>2, PTL DEF Spec, CloseFactorRespected
-----------------------------------------------------------------------------
(* What is seized for what is repaid *)

\* What is seized for a debt of which all is repaid: no more than the bonus on it.
LEMMA SeizedForAll ==
    ASSUME NEW p \in Nat \ {0}, NEW n \in Nat \ {0}, NEW b \in Nat, PERCENTAGE_FACTOR <= b,
           NEW r \in Nat, NEW s \in Nat, s <= percentMul(p * r, b) \div n
    PROVE  PERCENTAGE_FACTOR * (n * s) <= p * (b * (r + 2))
<1> DEFINE q == percentMul(p * r, b)
           t == q \div n
           F == PERCENTAGE_FACTOR
<1>1. p * r \in Nat /\ b \in Nat \ {0} /\ F \in Nat \ {0}
    BY ScalePositive
<1>2. q \in Nat
    BY <1>1, RoundedInNat
<1>3. t \in Nat /\ n * t <= q
    BY <1>2, DivProp
<1>4. 2 * (F * q) <= 2 * ((p * r) * b) + F
    BY <1>1, RoundedPercentage
<1> HIDE DEF q, t, F
<1>5. n * s <= q /\ n * s \in Nat
  <2>1. n * s <= n * t /\ n * s \in Nat /\ n * t \in Nat
    BY <1>3 DEF t, q
  <2> QED BY <1>2, <1>3, <2>1
<1>6. F * (n * s) <= F * q /\ F * (n * s) \in Nat /\ F * q \in Nat
    BY <1>1, <1>2, <1>5
<1>7. /\ p * (b * (r + 2)) = (p * r) * b + 2 * (p * b)
      /\ (p * r) * b \in Nat /\ p * b \in Nat
    BY <1>1
<1>8. F <= p * b
  <2>1. b <= p * b
    BY <1>1
  <2> QED BY <1>1, <1>7, <2>1 DEF F
<1>9. F * (n * s) <= p * (b * (r + 2))
  <2> DEFINE x == F * (n * s)
             y == F * q
             z == (p * r) * b
             w == p * b
             v == p * (b * (r + 2))
  <2>1. x <= y /\ x \in Nat /\ y \in Nat /\ z \in Nat /\ w \in Nat /\ F \in Nat
    BY <1>1, <1>6, <1>7
  <2>2. 2 * y <= 2 * z + F /\ F <= w /\ v = z + 2 * w
    BY <1>4, <1>7, <1>8
  <2> HIDE DEF x, y, z, w, v
  <2>3. x <= v
    BY <2>1, <2>2
  <2> QED BY <2>3 DEF x, v
<1> QED BY <1>9 DEF F

\* ... and for the debt that the collateral left is good for: two divisions may drop a
\* unit of it each.
LEMMA SeizedForPart ==
    ASSUME NEW p \in Nat \ {0}, NEW n \in Nat \ {0}, NEW b \in Nat, PERCENTAGE_FACTOR <= b,
           NEW r \in Nat, NEW s \in Nat, r = percentDiv((n * s) \div p, b)
    PROVE  PERCENTAGE_FACTOR * (n * s) <= p * (b * (r + 2))
<1> DEFINE F == PERCENTAGE_FACTOR
           m == n * s
           q == m \div p
           h == b \div 2
<1>1. m \in Nat /\ F \in Nat \ {0} /\ b \in Nat \ {0}
    BY ScalePositive
<1>2. q \in Nat /\ m < p * q + p
    BY <1>1, DivProp
<1>3. h \in Nat
    BY <1>1
<1>4. r = (q * F + h) \div b
    BY DEF percentDiv
<1> HIDE DEF F, m, q, h
<1>5. q * F \in Nat /\ q * F + h \in Nat
    BY <1>1, <1>2, <1>3
<1>6. q * F + h < b * r + b
    BY <1>1, <1>4, <1>5, DivProp
<1>7. b * (r + 2) = b * r + 2 * b /\ b * r \in Nat
    BY <1>1
<1>8. F * q + F <= b * (r + 2)
  <2>1. F * q = q * F /\ F <= b
    BY <1>1, <1>2 DEF F
  <2>2. F * q \in Nat
    BY <1>5, <2>1
  <2> DEFINE x == F * q
             y == b * r
             z == b * (r + 2)
  <2>3. x \in Nat /\ x + h < y + b /\ z = y + 2 * b /\ y \in Nat
    BY <1>6, <1>7, <2>1, <2>2
  <2> HIDE DEF x, y, z
  <2>4. x + F <= z
    BY <1>1, <1>3, <2>1, <2>3
  <2> QED BY <2>4 DEF x, z
<1>9. F * m <= F * (p * q + p)
    BY <1>1, <1>2
<1>10. F * (p * q + p) = p * (F * q + F)
    BY <1>1, <1>2
<1>11. p * (F * q + F) <= p * (b * (r + 2))
  <2> DEFINE x == F * q + F
             y == b * (r + 2)
  <2>1. x \in Nat /\ y \in Nat /\ x <= y
    BY <1>1, <1>2, <1>7, <1>8
  <2> HIDE DEF x, y
  <2>2. p * x <= p * y
    BY <2>1
  <2> QED BY <2>2 DEF x, y
<1>12. F * m \in Nat /\ p * (F * q + F) \in Nat /\ p * (b * (r + 2)) \in Nat
    BY <1>1, <1>2, <1>7
<1> QED BY <1>9, <1>10, <1>11, <1>12 DEF F, m

\* What a liquidation seizes is worth what it repays and the bonus, or two units of debt
\* more.
LEMMA SeizureWithinBonus ==
    ASSUME IInv, NEW c \in reservesList, NEW d \in reservesList, NEW user \in Account,
           NEW amount \in Nat, priceUsable(c),
           reserves[c].config.liquidationThreshold > 0
    PROVE  LET terms == liquidationTerms(c, d, user, amount)
           IN  PERCENTAGE_FACTOR * ((price[c] * reserves[d].config.unit) * terms.seized)
                 <= (price[d] * reserves[c].config.unit)
                      * (reserves[c].config.liquidationBonus * (terms.repaid + 2))
<1> DEFINE balance == aTokenBalanceOf(reserves[c], user, now)
           actual  == actualDebtToLiquidate(amount, debtOf(d, user))
           b       == reserves[c].config.liquidationBonus
           cUnit   == reserves[c].config.unit
           dUnit   == reserves[d].config.unit
           terms   == liquidationTerms(c, d, user, amount)
           available == calculateAvailableCollateralToLiquidate(c, d, actual, balance)
           maxCollateral == percentMul(price[d] * actual * cUnit, b) \div (price[c] * dUnit)
           debtNeeded == percentDiv((price[c] * balance * dUnit) \div (price[d] * cUnit), b)
           n == price[c] * dUnit
           p == price[d] * cUnit
<1>1. /\ price[c] \in Nat \ {0} /\ price[d] \in Nat
      /\ cUnit \in Nat \ {0} /\ dUnit \in Nat \ {0}
      /\ b \in Nat /\ PERCENTAGE_FACTOR <= b
  <2>1. c \in Asset /\ d \in Asset
    BY InvFacts
  <2>2. reserves[c].config \in Configuration /\ reserves[d].config \in Configuration
    BY <2>1, InvFacts, ReserveFields
  <2>3. PERCENTAGE_FACTOR < b
    BY <2>1, <2>2 DEF IInv, ReservesOK, BonusWithThreshold, Configuration
  <2>4. cUnit \in Nat \ {0} /\ dUnit \in Nat \ {0} /\ b \in Nat
    BY <2>2 DEF Configuration
  <2>5. price[c] \in Nat \ {0} /\ price[d] \in Nat
    <3>1. price[c] \in Nat /\ price[d] \in Nat
      BY <2>1, InvFacts
    <3> QED BY <3>1 DEF priceUsable
  <2> HIDE DEF b, cUnit, dUnit
  <2>6. PERCENTAGE_FACTOR <= b
    BY <2>3, <2>4, ScalePositive
  <2> QED BY <2>4, <2>5, <2>6
<1>2. balance \in Nat
    BY InvFacts, ReserveViews
<1>3. actual \in Nat
  <2>1. debtOf(d, user) \in Nat
    BY DebtViews
  <2>2. percentMul(debtOf(d, user), LIQUIDATION_CLOSE_FACTOR_PERCENT) \in Nat
    BY <2>1, RoundedInNat, PoolConstantsAssumption
  <2> QED BY <2>2 DEF actualDebtToLiquidate
<1>4. available = IF maxCollateral > balance
                  THEN [collateral |-> balance, debt |-> debtNeeded]
                  ELSE [collateral |-> maxCollateral, debt |-> actual]
    BY DEF calculateAvailableCollateralToLiquidate
<1>5. /\ terms.seized = available.collateral
      /\ terms.repaid = IF available.debt < actual THEN available.debt ELSE actual
    BY DEF liquidationTerms
<1>6. terms.seized \in Nat /\ terms.repaid \in Nat
    BY LiquidationTermsType
<1>7. SUFFICES PERCENTAGE_FACTOR * (n * terms.seized) <= p * (b * (terms.repaid + 2))
    OBVIOUS
<1> HIDE DEF balance, actual, b, cUnit, dUnit, available, terms
<1>8. n \in Nat \ {0} /\ p \in Nat
    BY <1>1, ProductPositive
<1>9. /\ price[d] * actual * cUnit = p * actual
      /\ price[c] * balance * dUnit = n * balance
    BY <1>1, <1>2, <1>3
<1>10. /\ maxCollateral = percentMul(p * actual, b) \div n
       /\ debtNeeded = percentDiv((n * balance) \div p, b)
    BY <1>9
<1>11. /\ maxCollateral \in Nat
       /\ maxCollateral > balance => p \in Nat \ {0}
  <2>1. p * actual \in Nat
    BY <1>3, <1>8
  <2>2. percentMul(p * actual, b) \in Nat
    BY <1>1, <2>1, RoundedInNat
  <2>3. maxCollateral > balance => p \in Nat \ {0}
    <3> SUFFICES ASSUME maxCollateral > balance PROVE p \in Nat \ {0}
      OBVIOUS
    <3>1. price[d] \in Nat \ {0}
      BY <1>1, <1>2, <1>3, <1>8, ShortOfWorth
    <3> QED BY <1>1, <3>1, ProductPositive
  <2> HIDE DEF n, p
  <2> QED BY <1>8, <1>10, <2>2, <2>3, DivProp
<1> HIDE DEF maxCollateral, debtNeeded, n, p
<1>12. CASE terms.repaid = actual
  <2>1. terms.seized <= maxCollateral
    BY <1>2, <1>4, <1>5, <1>11
  <2>2. terms.seized <= percentMul(p * terms.repaid, b) \div n
    BY <1>10, <1>12, <2>1
  <2>3. CASE p = 0
    <3>1. percentMul(p * terms.repaid, b) = 0 /\ 0 \div n = 0
      BY <1>1, <1>6, <1>8, <2>3, PercentOfNothing
    <3>2. terms.seized = 0
      BY <1>6, <2>2, <3>1
    <3> QED BY <1>1, <1>6, <1>8, <2>3, <3>2, ScalePositive
  <2>4. CASE p # 0
    BY <1>1, <1>6, <1>8, <2>2, <2>4, SeizedForAll
  <2> QED BY <2>3, <2>4
<1>13. CASE terms.repaid # actual
  <2>1. terms.repaid = available.debt /\ available.debt # actual
    BY <1>5, <1>13
  <2>2. maxCollateral > balance
    BY <1>4, <2>1
  <2>3. terms.repaid = debtNeeded /\ terms.seized = balance
    BY <1>4, <1>5, <2>1, <2>2
  <2>4. terms.repaid = percentDiv((n * terms.seized) \div p, b)
    BY <1>10, <2>3
  <2> QED BY <1>1, <1>6, <1>8, <1>11, <2>2, <2>4, SeizedForPart
<1> QED BY <1>12, <1>13

\* The value of an amount that is given up, in the units of the asset: two fractions of
\* a unit may be missing from the difference.
LEMMA ValueGivenUp ==
    ASSUME NEW p \in Nat, NEW k \in Nat \ {0}, NEW x \in Nat, NEW y \in Nat
    PROVE  LET difference == (p * x) \div k - (p * y) \div k
           IN  /\ k * difference <= p * x - p * y + k
               /\ p * x - p * y <= k * difference + k
<1> DEFINE v == (p * x) \div k
           w == (p * y) \div k
<1>1. p * x \in Nat /\ p * y \in Nat
    OBVIOUS
<1>2. v \in Nat /\ k * v <= p * x /\ p * x < k * v + k
    BY <1>1, DivProp
<1>3. w \in Nat /\ k * w <= p * y /\ p * y < k * w + k
    BY <1>1, DivProp
<1> HIDE DEF v, w
<1>4. k * (v - w) = k * v - k * w /\ k * v \in Nat /\ k * w \in Nat
    BY <1>2, <1>3
<1>5. k * (v - w) <= p * x - p * y + k /\ p * x - p * y <= k * (v - w) + k
  <2> DEFINE a == p * x
             b == p * y
             e == k * v
             f == k * w
             g == k * (v - w)
  <2>1. /\ a \in Nat /\ b \in Nat /\ e \in Nat /\ f \in Nat /\ g = e - f
        /\ e <= a /\ a < e + k /\ f <= b /\ b < f + k
    BY <1>1, <1>2, <1>3, <1>4
  <2> HIDE DEF a, b, e, f, g
  <2>2. g <= a - b + k /\ a - b <= g + k
    BY <2>1
  <2> QED BY <2>2 DEF a, b, g
<1> QED BY <1>5 DEF v, w

\* The worth of an amount and two units is more than a unit above the amount.
LEMMA WorthCovers ==
    ASSUME NEW p \in Nat, NEW k \in Nat \ {0}, NEW x \in Nat
    PROVE  /\ (p * x) \div k + 2 \in Nat
           /\ p * x + k < k * ((p * x) \div k + 2)
<1> DEFINE v == (p * x) \div k
<1>1. p * x \in Nat
    OBVIOUS
<1>2. v \in Nat /\ p * x < k * v + k
    BY <1>1, DivProp
<1> HIDE DEF v
<1>3. k * (v + 2) = k * v + 2 * k /\ k * v \in Nat
    BY <1>2
<1>4. p * x + k < k * (v + 2)
    BY <1>1, <1>2, <1>3
<1> QED BY <1>2, <1>4 DEF v

\* The collateral lost, less its rounding, in the units of the asset.
LEMMA LossInUnits ==
    ASSUME NEW pc \in Nat \ {0}, NEW uc \in Nat \ {0}, NEW x1 \in Nat, NEW x2 \in Nat,
           NEW s \in Nat, NEW kc \in Nat, NEW lost \in Int, NEW wc \in Nat,
           x1 <= x2 + s + kc,
           uc * lost <= pc * x1 - pc * x2 + uc,
           pc * kc + uc < uc * wc
    PROVE  uc * (lost - wc) <= pc * s
<1>1. pc * x1 <= pc * (x2 + s + kc) /\ pc * x1 \in Nat
    BY ONLY pc \in Nat \ {0}, x1 \in Nat, x2 \in Nat, s \in Nat, kc \in Nat, x1 <= x2 + s + kc
<1>2. /\ pc * (x2 + s + kc) = pc * x2 + pc * s + pc * kc
      /\ pc * x2 \in Nat /\ pc * s \in Nat /\ pc * kc \in Nat
    BY ONLY pc \in Nat \ {0}, x2 \in Nat, s \in Nat, kc \in Nat
<1>3. uc * (lost - wc) = uc * lost - uc * wc /\ uc * lost \in Int /\ uc * wc \in Int
    BY ONLY uc \in Nat \ {0}, lost \in Int, wc \in Nat
<1> DEFINE a1 == pc * x1
           a2 == pc * x2
           a3 == pc * s
           a4 == pc * kc
           a5 == uc * lost
           a6 == uc * wc
           a7 == uc * (lost - wc)
<1>4. /\ a1 <= a2 + a3 + a4 /\ a7 = a5 - a6 /\ a5 <= a1 - a2 + uc /\ a4 + uc < a6
      /\ a1 \in Nat /\ a2 \in Nat /\ a3 \in Nat /\ a4 \in Nat /\ a5 \in Int /\ a6 \in Int
    BY <1>1, <1>2, <1>3
<1> HIDE DEF a1, a2, a3, a4, a5, a6, a7
<1>5. a7 <= a3
    BY ONLY <1>4, uc \in Nat \ {0}
<1> QED BY <1>5 DEF a3, a7

\* The debt cleared, with its rounding, in the units of the asset.
LEMMA ClearedInUnits ==
    ASSUME NEW pd \in Nat \ {0}, NEW ud \in Nat \ {0}, NEW y1 \in Nat, NEW y2 \in Nat,
           NEW r \in Nat, NEW kd \in Nat, NEW cleared \in Int, NEW wd \in Nat,
           y2 + r <= y1 + kd,
           pd * y1 - pd * y2 <= ud * cleared + ud,
           pd * (kd + 2) + ud < ud * wd
    PROVE  pd * (r + 2) <= ud * (cleared + wd)
<1>1. pd * (y2 + r) <= pd * (y1 + kd)
    BY ONLY pd \in Nat \ {0}, y1 \in Nat, y2 \in Nat, r \in Nat, kd \in Nat, y2 + r <= y1 + kd
<1>2. /\ pd * (y2 + r) = pd * y2 + pd * r /\ pd * (y1 + kd) = pd * y1 + pd * kd
      /\ pd * (r + 2) = pd * r + 2 * pd /\ pd * (kd + 2) = pd * kd + 2 * pd
      /\ pd * y1 \in Nat /\ pd * y2 \in Nat /\ pd * r \in Nat /\ pd * kd \in Nat
    BY ONLY pd \in Nat \ {0}, y1 \in Nat, y2 \in Nat, r \in Nat, kd \in Nat
<1>3. ud * (cleared + wd) = ud * cleared + ud * wd /\ ud * cleared \in Int /\ ud * wd \in Int
    BY ONLY ud \in Nat \ {0}, cleared \in Int, wd \in Nat
<1> DEFINE a1 == pd * y1
           a2 == pd * y2
           a3 == pd * r
           a4 == pd * kd
           a5 == ud * cleared
           a6 == ud * wd
           a7 == ud * (cleared + wd)
           a8 == pd * (r + 2)
           a9 == pd * (kd + 2)
<1>4. /\ a2 + a3 <= a1 + a4 /\ a7 = a5 + a6 /\ a1 - a2 <= a5 + ud /\ a9 + ud < a6
      /\ a8 = a3 + 2 * pd /\ a9 = a4 + 2 * pd
      /\ a1 \in Nat /\ a2 \in Nat /\ a3 \in Nat /\ a4 \in Nat /\ a5 \in Int /\ a6 \in Int
    BY <1>1, <1>2, <1>3
<1> HIDE DEF a1, a2, a3, a4, a5, a6, a7, a8, a9
<1>5. a8 <= a7
    BY ONLY <1>4, ud \in Nat \ {0}, pd \in Nat \ {0}
<1> QED BY <1>5 DEF a7, a8

\* The terms of a liquidation, at a price p for k units of an asset each: what is seized
\* for what is repaid, at a bonus; what that is worth at most to who loses it, and at
\* least to whom it is cleared for.
SeizedFor(pc, uc, pd, ud, b, s, r) ==
    PERCENTAGE_FACTOR * ((pc * ud) * s) <= (pd * uc) * (b * (r + 2))

LosesAtMost(p, k, s, w)   == k * w <= p * s
ClearsAtLeast(p, k, r, m) == p * (r + 2) <= k * m

\* The prices put together: the collateral lost is worth the debt cleared and the bonus.
LEMMA LossWithinBonus ==
    ASSUME NEW pc \in Nat \ {0}, NEW pd \in Nat \ {0}, NEW uc \in Nat \ {0},
           NEW ud \in Nat \ {0}, NEW b \in Nat, NEW r \in Nat, NEW s \in Nat,
           NEW w \in Int, NEW m \in Int,
           SeizedFor(pc, uc, pd, ud, b, s, r),
           LosesAtMost(pc, uc, s, w), ClearsAtLeast(pd, ud, r, m)
    PROVE  PERCENTAGE_FACTOR * w <= b * m
<1> DEFINE F == PERCENTAGE_FACTOR
           k == uc * ud
<1>1. F \in Nat \ {0} /\ w \in Int /\ m \in Int
    BY ScalePositive
<1>2. uc * w <= pc * s
    BY DEF LosesAtMost
<1>3. pd * (r + 2) <= ud * m
    BY DEF ClearsAtLeast
<1> HIDE DEF F
<1>4. k \in Nat \ {0}
    BY ONLY uc \in Nat \ {0}, ud \in Nat \ {0}, ProductPositive
<1>5. (F * ud) * (uc * w) <= (F * ud) * (pc * s)
  <2> DEFINE a == F * ud
             e == uc * w
             f == pc * s
  <2>1. a \in Nat /\ e \in Int /\ f \in Int /\ e <= f
    BY ONLY <1>1, <1>2, ud \in Nat \ {0}, uc \in Nat \ {0}, pc \in Nat \ {0}, s \in Nat
  <2> HIDE DEF a, e, f
  <2>2. a * e <= a * f
    BY ONLY <2>1
  <2> QED BY <2>2 DEF a, e, f
<1>6. (uc * b) * (pd * (r + 2)) <= (uc * b) * (ud * m)
  <2> DEFINE a == uc * b
             e == pd * (r + 2)
             f == ud * m
  <2>1. a \in Nat /\ e \in Int /\ f \in Int /\ e <= f
    BY ONLY <1>1, <1>3, ud \in Nat \ {0}, uc \in Nat \ {0}, pd \in Nat \ {0}, r \in Nat, b \in Nat
  <2> HIDE DEF a, e, f
  <2>2. a * e <= a * f
    BY ONLY <2>1
  <2> QED BY <2>2 DEF a, e, f
<1>7. (F * ud) * (uc * w) = k * (F * w) /\ (F * ud) * (pc * s) = F * ((pc * ud) * s)
    BY ONLY <1>1, ud \in Nat \ {0}, uc \in Nat \ {0}, pc \in Nat \ {0}, s \in Nat
<1>8. (uc * b) * (ud * m) = k * (b * m)
    BY ONLY <1>1, ud \in Nat \ {0}, uc \in Nat \ {0}, b \in Nat
<1>9. (uc * b) * (pd * (r + 2)) = (pd * uc) * (b * (r + 2))
    BY ONLY uc \in Nat \ {0}, pd \in Nat \ {0}, r \in Nat, b \in Nat
<1>10. F * ((pc * ud) * s) <= (pd * uc) * (b * (r + 2))
    BY DEF F, SeizedFor
<1>11. F * w \in Int /\ b * m \in Int
    BY ONLY <1>1, b \in Nat
<1>12. k * (F * w) \in Int /\ k * (b * m) \in Int
    BY ONLY <1>4, <1>11
<1> DEFINE a1 == k * (F * w)
           a2 == F * ((pc * ud) * s)
           a3 == (pd * uc) * (b * (r + 2))
           a4 == k * (b * m)
<1>13. a2 \in Int /\ a3 \in Int
    BY ONLY <1>1, ud \in Nat \ {0}, uc \in Nat \ {0}, pc \in Nat \ {0}, pd \in Nat \ {0},
            s \in Nat, r \in Nat, b \in Nat
<1>14. a1 <= a2 /\ a2 <= a3 /\ a3 <= a4
    BY ONLY <1>5, <1>6, <1>7, <1>8, <1>9, <1>10
<1>15. a1 \in Int /\ a4 \in Int
    BY ONLY <1>12
<1> HIDE DEF a1, a2, a3, a4, k
<1>16. a1 <= a4
    BY ONLY <1>13, <1>14, <1>15
<1>17. F * w <= b * m
    BY <1>4, <1>11, <1>16, CancelFactor DEF a1, a4
<1> QED BY <1>17 DEF F

\* An integer is within a percentage when the scaled integer is within the product.
LEMMA WithinPercentage ==
    ASSUME NEW w \in Int, NEW m \in Nat, NEW b \in Nat, PERCENTAGE_FACTOR * w <= b * m
    PROVE  w <= percentMul(m, b)
<1>1. percentMul(m, b) \in Nat
    BY RoundedInNat
<1>2. CASE w < 0
    BY <1>1, <1>2
<1>3. CASE w >= 0
  <2> DEFINE h == PERCENTAGE_FACTOR \div 2
  <2>1. h \in Nat /\ m * b \in Nat /\ b * m = m * b /\ PERCENTAGE_FACTOR \in Nat \ {0} /\ w \in Nat
    BY <1>3, ScalePositive
  <2> HIDE DEF h
  <2>2. m * b + h \in Nat /\ PERCENTAGE_FACTOR * w <= m * b + h
    <3> DEFINE x == PERCENTAGE_FACTOR * w
               y == m * b
    <3>1. x \in Nat /\ y \in Nat /\ x <= y /\ h \in Nat
      BY <2>1
    <3> HIDE DEF x, y
    <3>2. y + h \in Nat /\ x <= y + h
      BY <3>1
    <3> QED BY <3>2 DEF x, y
  <2>3. w <= (m * b + h) \div PERCENTAGE_FACTOR
    BY <2>1, <2>2, DivAtLeast
  <2> QED BY <2>3 DEF percentMul, h
<1> QED BY <1>2, <1>3

\* Both roundings of a listed reserve are numbers.
LEMMA RoundingsOfListed ==
    ASSUME IInv, NEW a \in reservesList
    PROVE  debtRounding(a) \in Nat /\ depositRounding(a) \in Nat
<1>1. now \in Nat /\ ListedOK(reserves[a], now)
    BY InvFacts
<1>2. getNormalizedDebt(reserves[a], now) \in Nat
    BY <1>1, ShownDebtIndex DEF ListedOK
<1>3. getNormalizedIncome(reserves[a], now) \in Nat
    BY <1>1, NormalizedIndexes
<1> QED BY <1>2, <1>3, RoundingType DEF debtRounding, depositRounding

\* What a liquidation takes of the collateral is worth what it clears of the debt and the
\* bonus, but for the roundings.
LEMMA LiquidationIsPaidFor ==
    ASSUME IInv, IInv', [Next]_vars, sameMarket, NEW u \in Account, NEW c \in reservesList,
           NEW d \in reservesList, NEW amount \in Nat, Liquidates(u, c, d, amount),
           debtCleared(u) > 0
    PROVE  collateralLost(u)
             <= percentMul(debtCleared(u) + worth(d, debtRounding(d) + 2),
                           reserves[c].config.liquidationBonus)
                  + worth(c, depositRounding(c))
<1> DEFINE terms == liquidationTerms(c, d, u, amount)
           s  == terms.seized
           r  == terms.repaid
           b  == reserves[c].config.liquidationBonus
           pc == price[c]
           pd == price[d]
           uc == reserves[c].config.unit
           ud == reserves[d].config.unit
           x1 == aTokenBalanceOf(reserves[c], u, now)
           x2 == aTokenBalanceOf(reserves'[c], u, now)
           y1 == owed(reserves[d], u)
           y2 == owed(reserves'[d], u)
           kc == depositRounding(c)
           kd == debtRounding(d)
           wc == worth(c, kc)
           wd == worth(d, kd + 2)
           lost    == (pc * x1) \div uc - (pc * x2) \div uc
           cleared == (pd * y1) \div ud - (pd * y2) \div ud
<1>1. now' = now
    BY DEF sameMarket
<1>2. /\ reserves[c].config.liquidationThreshold > 0 /\ priceUsable(c)
      /\ DebtsTaken(reserves', d, u, r) /\ DepositsTaken(reserves', c, u, s)
    BY DEF Liquidates, priceUsable
<1>3. r \in Nat /\ s \in Nat
    BY <1>2, LiquidationTermsType
<1>4. /\ pc \in Nat \ {0} /\ pd \in Nat /\ uc \in Nat \ {0} /\ ud \in Nat \ {0} /\ b \in Nat
  <2>1. c \in Asset /\ d \in Asset
    BY InvFacts
  <2>2. reserves[c].config \in Configuration /\ reserves[d].config \in Configuration
    BY <2>1, InvFacts, ReserveFields
  <2>3. price[c] \in Nat /\ price[d] \in Nat
    BY <2>1, InvFacts
  <2>4. pc \in Nat \ {0} /\ pd \in Nat
    BY <1>2, <2>3 DEF priceUsable
  <2> QED BY <2>2, <2>4 DEF Configuration
<1>5. x1 \in Nat /\ x2 \in Nat /\ y1 \in Nat /\ y2 \in Nat
    BY <1>1, StepShows
<1>6. kc \in Nat /\ kd \in Nat
    BY RoundingsOfListed
<1>7. x1 <= x2 + s + kc
    BY <1>2 DEF DepositsTaken, Leaves, depositRounding
<1>8. y2 + r <= y1 + kd
    BY <1>2 DEF DebtsTaken, Taken
<1>9. PERCENTAGE_FACTOR * ((pc * ud) * s) <= (pd * uc) * (b * (r + 2))
    BY <1>2, SeizureWithinBonus
<1>10. collateralLost(u) <= lost /\ debtCleared(u) = cleared /\ pd \in Nat \ {0}
  <2>1. collateralLost(u) <= lost /\ debtCleared(u) = cleared
    BY <1>2, LiquidationTotals DEF depositValue, debtValue, valueInETH
  <2>2. ASSUME pd = 0 PROVE FALSE
    <3>1. pd * y1 = 0 /\ pd * y2 = 0
      BY <1>5, <2>2
    <3>2. 0 \div ud \in Int
      BY <1>4
    <3>3. cleared = 0
      BY <3>1, <3>2
    <3> QED BY <2>1, <3>3
  <2> QED BY <1>4, <2>1, <2>2
<1>11. wc = (pc * kc) \div uc + 2 /\ wd = (pd * (kd + 2)) \div ud + 2
    BY DEF worth, valueInETH
<1>12. collateralLost(u) \in Int
  <2> DEFINE S == reservesList
  <2>1. IsFiniteSet(S)
    BY InvFacts, AssetAssumption, FS_Subset
  <2>2. \A a \in S : depositValues(reserves, u)[a] \in Nat /\ depositValues(reserves', u)[a] \in Nat
    BY <1>1, StepValues
  <2>3. Total(depositValues(reserves, u), S) \in Nat /\ Total(depositValues(reserves', u), S) \in Nat
    BY <2>1, <2>2, TotalType
  <2> QED BY <2>3, MarketTotals
<1>13. SUFFICES collateralLost(u) <= percentMul(debtCleared(u) + wd, b) + wc
    OBVIOUS
<1> HIDE DEF terms, s, r, b, pc, pd, uc, ud, x1, x2, y1, y2, kc, kd, wc, wd
<1>14. /\ wc \in Nat /\ pc * kc + uc < uc * wc
    BY <1>4, <1>10, <1>6, <1>11, WorthCovers
<1>15. /\ wd \in Nat /\ pd * (kd + 2) + ud < ud * wd
  <2>1. kd + 2 \in Nat
    BY <1>6
  <2> QED BY <1>4, <1>10, <1>11, <2>1, WorthCovers
<1>16. uc * lost <= pc * x1 - pc * x2 + uc
    BY <1>4, <1>10, <1>5, ValueGivenUp
<1>17. pd * y1 - pd * y2 <= ud * cleared + ud
    BY <1>4, <1>10, <1>5, ValueGivenUp
<1>18. lost \in Int /\ cleared \in Int
  <2>1. pc * x1 \in Nat /\ pc * x2 \in Nat /\ pd * y1 \in Nat /\ pd * y2 \in Nat
    BY <1>4, <1>10, <1>5
  <2>2. /\ (pc * x1) \div uc \in Nat /\ (pc * x2) \div uc \in Nat
        /\ (pd * y1) \div ud \in Nat /\ (pd * y2) \div ud \in Nat
    BY <1>4, <1>10, <2>1, DivProp
  <2> QED BY <2>2
<1> HIDE DEF lost, cleared
<1>19. PERCENTAGE_FACTOR * (lost - wc) <= b * (cleared + wd)
  <2>1. uc * (lost - wc) <= pc * s
    BY <1>3, <1>4, <1>10, <1>5, <1>6, <1>7, <1>14, <1>16, <1>18, LossInUnits
  <2>2. pd * (r + 2) <= ud * (cleared + wd)
    BY <1>3, <1>4, <1>10, <1>5, <1>6, <1>8, <1>15, <1>17, <1>18, ClearedInUnits
  <2>3. lost - wc \in Int /\ cleared + wd \in Int
    BY <1>14, <1>15, <1>18
  <2> DEFINE w == lost - wc
             m == cleared + wd
  <2>4. w \in Int /\ m \in Int /\ uc * w <= pc * s /\ pd * (r + 2) <= ud * m
    BY <2>1, <2>2, <2>3
  <2> HIDE DEF w, m
  <2>5. /\ SeizedFor(pc, uc, pd, ud, b, s, r)
        /\ LosesAtMost(pc, uc, s, w) /\ ClearsAtLeast(pd, ud, r, m)
    BY <1>9, <2>4 DEF SeizedFor, LosesAtMost, ClearsAtLeast
  <2>6. PERCENTAGE_FACTOR * w <= b * m
    BY ONLY <1>3, <1>4, <1>10, <2>4, <2>5, LossWithinBonus
  <2> QED BY <2>6 DEF w, m
<1>20. lost - wc \in Int /\ cleared + wd \in Nat
  <2>1. cleared > 0
    BY <1>10
  <2> QED BY <1>14, <1>15, <1>18, <2>1
<1>21. lost - wc <= percentMul(cleared + wd, b) /\ percentMul(cleared + wd, b) \in Nat
    BY <1>4, <1>10, <1>19, <1>20, WithinPercentage, RoundedInNat
<1> QED BY <1>10, <1>12, <1>14, <1>18, <1>21

\* Whoever is liquidated loses no more than the debt and the bonus are worth, but for the
\* roundings, when the collateral is enough for the debt and when it is not, wherever the
\* interest owed is charged.
THEOREM LiquidationIsFair ==
    ASSUME Treasury \notin User
    PROVE  Spec /\ []InterestIsCharged => SeizureIsPaidFor
<1> DEFINE Step ==
        \A u \in Account :
          sameMarket /\ collateralLost(u) > 0 /\ debtCleared(u) > 0 =>
              \E c, d \in reservesList :
                  collateralLost(u)
                    <= percentMul(debtCleared(u) + worth(d, debtRounding(d) + 2),
                                  reserves[c].config.liquidationBonus)
                         + worth(c, depositRounding(c))
<1>1. IInv /\ IInv' /\ InterestIsCharged /\ [Next]_vars => Step
  <2> SUFFICES ASSUME IInv, IInv', InterestIsCharged, [Next]_vars, sameMarket,
                      NEW u \in Account, collateralLost(u) > 0, debtCleared(u) > 0
               PROVE  \E c, d \in reservesList :
                         collateralLost(u)
                           <= percentMul(debtCleared(u) + worth(d, debtRounding(d) + 2),
                                         reserves[c].config.liquidationBonus)
                                + worth(c, depositRounding(c))
    OBVIOUS
  <2>1. PICK c, d \in Asset, amount \in Nat : Liquidates(u, c, d, amount)
    BY LossIsLiquidation
  <2>2. c \in reservesList /\ d \in reservesList
    BY <2>1 DEF Liquidates
  <2>3. collateralLost(u)
          <= percentMul(debtCleared(u) + worth(d, debtRounding(d) + 2),
                        reserves[c].config.liquidationBonus)
               + worth(c, depositRounding(c))
    BY <2>1, <2>2, LiquidationIsPaidFor
  <2> QED BY <2>2, <2>3
<1>2. Spec => [](IInv)
    BY InvariantHolds
<1> QED BY <1>1, <1>2, PTL DEF Spec, SeizureIsPaidFor

-----------------------------------------------------------------------------
(* Collateral is of listed reserves *)

\* A user configuration uses listed reserves alone as collateral.
OnlyListed(c) ==
    /\ c \in [Account -> UserConfiguration]
    /\ \A u \in Account : c[u].collateral \subseteq reservesList

\* An admin may configure and activate a reserve before it is listed, but nobody uses it as
\* collateral.
CollateralIsListed == \A u \in Account : usersConfig[u].collateral \subseteq reservesList

\* Neither the collateral bits of listed reserves nor the borrowing bits change that.
LEMMA ListedBits ==
    ASSUME NEW c, OnlyListed(c), NEW u \in Account, NEW a \in reservesList, a \in Asset,
           NEW b \in BOOLEAN
    PROVE  /\ OnlyListed([c EXCEPT ![u] = setUsingAsCollateral(c[u], a, b)])
           /\ OnlyListed([c EXCEPT ![u] = setBorrowing(c[u], a, b)])
<1>1. c \in [Account -> UserConfiguration] /\ c[u] \in UserConfiguration
    BY DEF OnlyListed
<1>2. ASSUME NEW n \in UserConfiguration, n.collateral \subseteq reservesList
      PROVE  OnlyListed([c EXCEPT ![u] = n])
    BY <1>1, <1>2 DEF OnlyListed
<1>3. /\ setUsingAsCollateral(c[u], a, b) \in UserConfiguration
      /\ setBorrowing(c[u], a, b) \in UserConfiguration
    BY <1>1, ConfigurationKinds
<1>4. c[u].collateral \subseteq reservesList
    BY DEF OnlyListed
<1>5. setUsingAsCollateral(c[u], a, b).collateral
        = IF b THEN c[u].collateral \cup {a} ELSE c[u].collateral \ {a}
    BY <1>1 DEF setUsingAsCollateral, UserConfiguration
<1>6. setBorrowing(c[u], a, b).collateral = c[u].collateral
    BY <1>1 DEF setBorrowing, UserConfiguration
<1>7. setUsingAsCollateral(c[u], a, b).collateral \subseteq reservesList
    BY <1>4, <1>5
<1>8. setBorrowing(c[u], a, b).collateral \subseteq reservesList
    BY <1>4, <1>6
<1> QED BY <1>2, <1>3, <1>7, <1>8

\* The operations that set or clear a collateral bit.
LEMMA CollateralSteps ==
    ASSUME IInv, OnlyListed(usersConfig), DepositStep \/ WithdrawStep \/ TreasuryStep
                                            \/ CollateralStep
    PROVE  OnlyListed(usersConfig')
<1>1. User \subseteq Account /\ Treasury \in Account /\ reservesList \subseteq Asset
    BY InputAssumption, TreasuryAssumption, InvFacts
<1>2. ASSUME NEW u \in Account, NEW a \in reservesList, NEW b \in BOOLEAN,
             setUserConfig(u, setUsingAsCollateral(usersConfig[u], a, b))
      PROVE  OnlyListed(usersConfig')
  <2>1. a \in Asset
    BY <1>1
  <2> QED BY <1>2, <2>1, ListedBits DEF setUserConfig
<1>3. CASE DepositStep
  <2>1. PICK u \in User, v \in User, a \in Asset, n \in DepositAmounts :
             Deposit(u, a, n, v)
    BY <1>3 DEF DepositStep
  <2>2. /\ a \in reservesList
        /\ \/ setUserConfig(v, setUsingAsCollateral(usersConfig[v], a, TRUE))
           \/ UNCHANGED usersConfig
    BY <2>1 DEF Deposit, Listed
  <2> QED BY <1>1, <1>2, <2>2
<1>4. CASE WithdrawStep \/ TreasuryStep
  <2>1. PICK u \in Account, a \in Asset, n \in WithdrawAmounts, v \in User :
             Withdraw(u, a, n, v)
    BY <1>1, <1>4 DEF WithdrawStep, TreasuryStep
  <2>2. a \in reservesList
    BY <2>1 DEF Withdraw, WithdrawAccepted, Listed
  <2>3. \/ setUserConfig(u, setUsingAsCollateral(usersConfig[u], a, FALSE))
        \/ UNCHANGED usersConfig
    BY <2>1 DEF Withdraw
  <2> QED BY <1>2, <2>2, <2>3
<1>5. CASE CollateralStep
  <2>1. PICK u \in User, a \in Asset, b \in BOOLEAN : SetUserUseReserveAsCollateral(u, a, b)
    BY <1>5 DEF CollateralStep
  <2>2. a \in reservesList /\ setUserConfig(u, setUsingAsCollateral(usersConfig[u], a, b))
    BY <2>1 DEF SetUserUseReserveAsCollateral, Listed
  <2> QED BY <1>1, <1>2, <2>2
<1> QED BY <1>3, <1>4, <1>5

\* Those that move the bit from an account to another.
LEMMA CollateralMoves ==
    ASSUME IInv, OnlyListed(usersConfig), TransferStep \/ LiquidationStep
    PROVE  OnlyListed(usersConfig')
<1>1. User \subseteq Account /\ reservesList \subseteq Asset
    BY InputAssumption, InvFacts
<1>2. ASSUME NEW a \in reservesList, NEW u \in Account, NEW v \in Account,
             NEW b \in BOOLEAN, NEW e \in BOOLEAN, NEW c,
             \/ c = usersConfig
             \/ c = [usersConfig EXCEPT ![u] = setUsingAsCollateral(usersConfig[u], a, b)],
             \/ usersConfig' = c
             \/ usersConfig' = [c EXCEPT ![v] = setUsingAsCollateral(c[v], a, e)]
      PROVE  OnlyListed(usersConfig')
  <2>1. a \in Asset
    BY <1>1
  <2>2. OnlyListed([usersConfig EXCEPT ![u] = setUsingAsCollateral(usersConfig[u], a, b)])
    BY <2>1, ListedBits
  <2>3. OnlyListed(c)
    BY <1>2, <2>2
  <2>4. OnlyListed([c EXCEPT ![v] = setUsingAsCollateral(c[v], a, e)])
    BY <2>1, <2>3, ListedBits
  <2> QED BY <1>2, <2>3, <2>4
<1>3. CASE TransferStep
  <2>1. PICK u \in User, v \in User, a \in Asset, n \in TransferAmounts : Transfer(u, a, v, n)
    BY <1>3 DEF TransferStep
  <2>2. PICK p : p = [usersConfig EXCEPT ![u] = setUsingAsCollateral(usersConfig[u], a, FALSE)]
    OBVIOUS
  <2>3. a \in reservesList
    BY <2>1 DEF Transfer, Listed
  <2>4. \E c : /\ c = usersConfig \/ c = p
              /\ \/ usersConfig' = c
                 \/ usersConfig' = [c EXCEPT ![v] = setUsingAsCollateral(c[v], a, TRUE)]
    BY <2>1, <2>2 DEF Transfer
  <2> QED BY <1>1, <1>2, <2>2, <2>3, <2>4
<1>4. CASE LiquidationStep
  <2>1. PICK l \in User, u \in User, a \in Asset, d \in Asset, n \in LiquidationAmounts,
             b \in BOOLEAN : LiquidationCall(l, a, d, u, n, b)
    BY <1>4 DEF LiquidationStep
  <2>2. PICK p : p = [usersConfig EXCEPT ![l] = setUsingAsCollateral(usersConfig[l], a, TRUE)]
    OBVIOUS
  <2>3. a \in reservesList
    BY <2>1 DEF LiquidationCall, LiquidationAccepted, Listed
  <2>4. \E c : /\ c = usersConfig \/ c = p
              /\ \/ usersConfig' = c
                 \/ usersConfig' = [c EXCEPT ![u] = setUsingAsCollateral(c[u], a, FALSE)]
    BY <2>1, <2>2 DEF LiquidationCall
  <2> QED BY <1>1, <1>2, <2>2, <2>3, <2>4
<1> QED BY <1>3, <1>4

\* A borrow sets the other kind of bit.
LEMMA BorrowingBits ==
    ASSUME IInv, OnlyListed(usersConfig), NEW a \in reservesList, NEW v \in Account,
           NEW u, NEW n, NEW m, NEW f, ExecuteBorrow(a, u, v, n, m, f)
    PROVE  OnlyListed(usersConfig')
<1>1. a \in Asset /\ TRUE \in BOOLEAN
    BY InvFacts
<1>2. \/ setUserConfig(v, setBorrowing(usersConfig[v], a, TRUE))
      \/ UNCHANGED usersConfig
    BY DEF ExecuteBorrow
<1>3. OnlyListed([usersConfig EXCEPT ![v] = setBorrowing(usersConfig[v], a, TRUE)])
    BY <1>1, ListedBits
<1> QED BY <1>2, <1>3 DEF setUserConfig

\* A repayment clears it.
LEMMA RepaidBits ==
    ASSUME IInv, OnlyListed(usersConfig), RepayStep
    PROVE  OnlyListed(usersConfig')
<1>1. PICK u \in User, v \in User, a \in Asset, n \in RepayAmounts, m \in RateMode :
           Repay(u, a, n, m, v)
    BY DEF RepayStep
<1>2. v \in Account
    BY InputAssumption
<1>3. a \in reservesList
    BY <1>1 DEF Repay, RepayAccepted, Listed
<1>4. \/ setUserConfig(v, setBorrowing(usersConfig[v], a, FALSE))
      \/ UNCHANGED usersConfig
    BY <1>1 DEF Repay
<1>5. FALSE \in BOOLEAN
    OBVIOUS
<1>6. OnlyListed([usersConfig EXCEPT ![v] = setBorrowing(usersConfig[v], a, FALSE)])
    BY <1>2, <1>3, <1>5, ListedBits
<1> QED BY <1>4, <1>6 DEF setUserConfig

\* The steps that write user configurations.
LEMMA StepListedBits ==
    ASSUME IInv, OnlyListed(usersConfig), [Next]_vars
    PROVE  OnlyListed(usersConfig')
<1>1. User \subseteq Account
    BY InputAssumption
<1>2. CASE UNCHANGED usersConfig
    BY <1>2
<1>3. CASE UserStep \/ TreasuryStep
  <2>1. CASE BorrowStep
    <3>1. PICK u \in User, v \in User, a \in Asset, n \in BorrowAmounts, m \in RateMode :
               Borrow(u, a, n, m, v)
      BY <2>1 DEF BorrowStep
    <3>2. a \in reservesList /\ ExecuteBorrow(a, u, v, n, m, TRUE)
      BY <3>1 DEF Borrow, Listed
    <3> QED BY <1>1, <3>2, BorrowingBits
  <2>2. CASE SwapStep
    BY <1>2, <2>2 DEF SwapStep, SwapBorrowRateMode
  <2>3. CASE RebalanceStep
    BY <1>2, <2>3 DEF RebalanceStep, RebalanceStableBorrowRate
  <2>4. CASE ApproveStep
    BY <1>2, <2>4 DEF ApproveStep, ApproveDelegation
  <2>5. CASE DepositStep \/ WithdrawStep \/ TreasuryStep \/ CollateralStep
    BY <2>5, CollateralSteps
  <2>6. CASE TransferStep \/ LiquidationStep
    BY <2>6, CollateralMoves
  <2>7. CASE RepayStep
    BY <2>7, RepaidBits
  <2> QED BY <1>3, <2>1, <2>2, <2>3, <2>4, <2>5, <2>6, <2>7 DEF UserStep
<1>4. CASE FlashLoanStep
  <2>1. CASE FlashLoanBeginStep
    BY <1>2, <2>1 DEF FlashLoanBeginStep, FlashLoanBegin, poolVars
  <2>2. CASE FlashLoanLend
    BY <1>2, <2>2 DEF FlashLoanLend
  <2>3. CASE FlashLoanReturn
    BY <1>2, <2>3 DEF FlashLoanReturn, poolVars
  <2>4. CASE FlashLoanSettle
    <3>1. inStage(SETTLING) /\ currentLeg.asset \in reservesList
      BY <2>4 DEF FlashLoanSettle, keepAsDebt, Listed
    <3>2. \/ UNCHANGED usersConfig
          \/ ExecuteBorrow(currentLeg.asset, currentLoan.initiator, currentLoan.onBehalfOf,
                           currentLeg.amount, currentLeg.mode, FALSE)
      BY <2>4 DEF FlashLoanSettle, keepAsDebt, payBack
    <3>3. currentLoan.onBehalfOf \in Account
      <4>1. currentLoan \in FlashLoanFrame
        BY <3>1, CurrentLoanOK DEF inStage, FrameOK
      <4> QED BY <4>1 DEF FlashLoanFrame
    <3> QED BY <1>2, <3>1, <3>2, <3>3, BorrowingBits
  <2> QED BY <1>4, <2>1, <2>2, <2>3, <2>4 DEF FlashLoanStep
<1>5. CASE AdminStep
    BY <1>2, <1>5 DEF AdminStep, InitReserve, setConfiguration, SetPoolPause,
                      EnableBorrowingOnReserve, DisableBorrowingOnReserve,
                      ConfigureReserveAsCollateral, EnableReserveStableRate,
                      DisableReserveStableRate, ActivateReserve, DeactivateReserve,
                      FreezeReserve, UnfreezeReserve, SetReserveFactor,
                      SetReserveInterestRateStrategyAddress
<1>6. CASE Tick \/ PriceChange \/ UNCHANGED vars
    BY <1>2, <1>6 DEF Tick, PriceChange, vars, poolVars
<1> QED BY <1>3, <1>4, <1>5, <1>6 DEF Next

\* No account ever uses a reserve that is not listed as collateral.
LEMMA CollateralStaysListed == Spec => []CollateralIsListed
<1>1. Init => CollateralIsListed
    BY DEF Init, CollateralIsListed
<1>2. IInv /\ CollateralIsListed /\ [Next]_vars => CollateralIsListed'
  <2> SUFFICES ASSUME IInv, CollateralIsListed, [Next]_vars
               PROVE  CollateralIsListed'
    OBVIOUS
  <2>1. OnlyListed(usersConfig)
    BY InvFacts DEF OnlyListed, CollateralIsListed
  <2>2. OnlyListed(usersConfig')
    BY <2>1, StepListedBits
  <2>3. reservesList \subseteq reservesList'
    BY ReservesStayListed
  <2> QED BY <2>2, <2>3 DEF OnlyListed, CollateralIsListed
<1> QED BY <1>1, <1>2, InvariantHolds, PTL DEF Spec

-----------------------------------------------------------------------------
(* Liquidations that must not be refused *)

\* A percentage of at most the whole is no more than the amount it is taken of.
LEMMA PercentagePart ==
    ASSUME NEW a \in Nat, NEW p \in Nat, p <= PERCENTAGE_FACTOR
    PROVE  percentMul(a, p) <= a
<1> DEFINE F == PERCENTAGE_FACTOR
           h == F \div 2
           q == percentMul(a, p)
<1>1. F \in Nat \ {0} /\ h \in Nat /\ h < F
    BY ScalePositive
<1>2. a * p \in Nat /\ a * p <= F * a
  <2>1. p * a <= F * a /\ p * a \in Nat
    BY <1>1, ProductMonotone
  <2> QED BY <2>1
<1>3. q \in Nat /\ F * q <= a * p + h
  <2>1. a * p + h \in Nat
    BY <1>1, <1>2
  <2> QED BY <1>1, <2>1, DivProp DEF percentMul
<1> HIDE DEF q, h
<1>4. CASE q > a
  <2>1. (a + 1) * F <= q * F
    BY <1>1, <1>3, <1>4, ProductMonotone
  <2>2. (a + 1) * F = F * a + F /\ q * F = F * q
    BY <1>1, <1>3
  <2> QED BY <1>1, <1>2, <1>3, <2>1, <2>2
<1> QED BY <1>3, <1>4 DEF q

\* An amount of the rounding of an index, or more, is worth a scaled token.
LEMMA RoundingIsAToken ==
    ASSUME NEW amount \in Nat, NEW i \in Nat \ {0}, rounding(i) <= amount
    PROVE  rayDiv(amount, i) # 0
<1> DEFINE q == i \div (2 * RAY)
           n == amount * RAY + i \div 2
<1>1. q \in Nat /\ (2 * RAY) * q <= i /\ i < (2 * RAY) * q + 2 * RAY
  <2>1. 2 * RAY \in Nat \ {0}
    BY ScalePositive
  <2> QED BY <2>1, DivProp
<1>2. 1 + q <= amount
    BY DEF rounding
<1> HIDE DEF q
<1>3. (1 + q) * RAY <= amount * RAY /\ amount * RAY \in Nat
    BY <1>1, <1>2, ScalePositive, ProductMonotone
<1>4. 2 * ((1 + q) * RAY) = (2 * RAY) * q + 2 * RAY /\ (1 + q) * RAY \in Nat
    BY <1>1, ScalePositive
<1>5. i < 2 * (amount * RAY)
    BY <1>1, <1>3, <1>4
<1>6. n \in Nat /\ i * 1 <= n
    BY <1>3, <1>5
<1> HIDE DEF n
<1>7. 1 <= n \div i
    BY <1>6, DivAtLeast
<1> QED BY <1>7 DEF rayDiv, n

\* Collateral worth more than the bonus on a debt of least units, and of one more, pays for
\* that debt, after the four divisions that stand between the two.
LEMMA CollateralPays ==
    ASSUME NEW pc \in Nat \ {0}, NEW pd \in Nat \ {0}, NEW uc \in Nat \ {0},
           NEW ud \in Nat \ {0}, NEW balance \in Nat, NEW least \in Nat,
           NEW b \in Nat, PERCENTAGE_FACTOR <= b,
           percentMul((pd * (least + 1)) \div ud + 2, b) <= (pc * balance) \div uc
    PROVE  least <= percentDiv((pc * balance * ud) \div (pd * uc), b)
<1> DEFINE F == PERCENTAGE_FACTOR
           V == (pc * balance) \div uc
           w == (pd * (least + 1)) \div ud
           M == percentMul(w + 2, b)
           X == (pc * balance * ud) \div (pd * uc)
<1>1. F \in Nat \ {0} /\ F <= b /\ b \in Nat \ {0} /\ F \div 2 \in Nat
    BY ScalePositive
<1>2. V \in Nat /\ uc * V <= pc * balance /\ pc * balance \in Nat
  <2>1. pc * balance \in Nat
    OBVIOUS
  <2> QED BY <2>1, DivProp
<1>3. w \in Nat /\ pd * (least + 1) <= ud * (w + 1)
  <2>1. pd * (least + 1) \in Nat
    OBVIOUS
  <2>2. w \in Nat /\ pd * (least + 1) < ud * w + ud
    BY <2>1, DivProp
  <2> HIDE DEF w
  <2>3. ud * (w + 1) = ud * w + ud
    BY <2>2
  <2> QED BY <2>1, <2>2, <2>3
<1>4. X \in Nat /\ pc * balance * ud < (pd * uc) * (X + 1)
  <2>1. pd * uc \in Nat \ {0} /\ pc * balance * ud \in Nat
    BY <1>2, ProductPositive
  <2>2. X \in Nat /\ pc * balance * ud < (pd * uc) * X + pd * uc
    BY <2>1, DivProp
  <2> HIDE DEF X
  <2>3. (pd * uc) * (X + 1) = (pd * uc) * X + pd * uc
    BY <2>1, <2>2
  <2> QED BY <2>2, <2>3
<1>5. (w + 1) * b <= F * V
  <2>1. (w + 2) * b \in Nat
    BY <1>1, <1>3
  <2>2. (w + 2) * b + F \div 2 < F * M + F /\ M \in Nat
    <3>1. (w + 2) * b + F \div 2 \in Nat
      BY <1>1, <2>1
    <3> QED BY <1>1, <3>1, DivProp DEF percentMul
  <2>3. M <= V
    OBVIOUS
  <2> HIDE DEF w, M, V, F
  <2>4. M * F <= V * F /\ M * F \in Nat /\ V * F \in Nat
    BY <1>1, <1>2, <2>2, <2>3, ProductMonotone
  <2>5. M * F = F * M /\ V * F = F * V /\ (w + 2) * b = (w + 1) * b + b /\ (w + 1) * b \in Nat
    BY <1>1, <1>2, <1>3, <2>2
  <2> QED BY <1>1, <2>1, <2>2, <2>4, <2>5
<1> HIDE DEF F, V, w, M, X
<1>6. F * V * ud < F * pd * (X + 1)
  <2>1. (uc * V) * ud <= (pc * balance) * ud
    BY <1>2, ProductMonotone
  <2>2. (uc * V) * ud < (pd * uc) * (X + 1)
    BY <1>2, <1>4, <2>1
  <2>3. (uc * V) * ud = uc * (V * ud) /\ (pd * uc) * (X + 1) = uc * (pd * (X + 1))
        /\ V * ud \in Nat /\ pd * (X + 1) \in Nat
    BY <1>2, <1>4
  <2>4. V * ud < pd * (X + 1)
    <3>1. CASE pd * (X + 1) <= V * ud
      <4>1. (pd * (X + 1)) * uc <= (V * ud) * uc
        BY <2>3, <3>1, ProductMonotone
      <4>2. (pd * (X + 1)) * uc = uc * (pd * (X + 1)) /\ (V * ud) * uc = uc * (V * ud)
            /\ uc * (pd * (X + 1)) \in Nat /\ uc * (V * ud) \in Nat
        BY <2>3
      <4> QED BY <2>2, <2>3, <4>1, <4>2
    <3> QED BY <2>3, <3>1
  <2>5. (V * ud + 1) * F <= (pd * (X + 1)) * F
    BY <1>1, <2>3, <2>4, ProductMonotone
  <2>6. (V * ud + 1) * F = F * V * ud + F /\ (pd * (X + 1)) * F = F * pd * (X + 1)
        /\ F * V * ud \in Nat /\ F * pd * (X + 1) \in Nat
    BY <1>1, <1>2, <1>4
  <2> QED BY <1>1, <2>5, <2>6
<1>7. (least + 1) * b <= F * (X + 1)
  <2>1. (pd * (least + 1)) * b <= (ud * (w + 1)) * b
    BY <1>1, <1>3, ProductMonotone
  <2>2. ((w + 1) * b) * ud <= (F * V) * ud
    BY <1>1, <1>2, <1>3, <1>5, ProductMonotone
  <2>3. /\ (pd * (least + 1)) * b = pd * ((least + 1) * b)
        /\ (ud * (w + 1)) * b = ((w + 1) * b) * ud
        /\ F * pd * (X + 1) = pd * (F * (X + 1))
        /\ (least + 1) * b \in Nat /\ F * (X + 1) \in Nat
    BY <1>1, <1>3, <1>4
  <2>4. /\ pd * ((least + 1) * b) \in Nat /\ pd * (F * (X + 1)) \in Nat
        /\ ((w + 1) * b) * ud \in Nat /\ F * V * ud \in Nat
    BY <1>1, <1>2, <1>3, <2>3
  <2>5. pd * ((least + 1) * b) <= pd * (F * (X + 1))
    BY <1>6, <2>1, <2>2, <2>3, <2>4
  <2> QED BY <2>3, <2>5, CancelFactor
<1>8. b * least <= X * F + b \div 2 /\ X * F + b \div 2 \in Nat
  <2>1. (least + 1) * b = b * least + b /\ F * (X + 1) = X * F + F
        /\ b * least \in Nat /\ X * F \in Nat /\ b \div 2 \in Nat
    BY <1>1, <1>4
  <2> QED BY <1>1, <1>7, <2>1
<1>9. least <= (X * F + b \div 2) \div b
    BY <1>1, <1>8, DivAtLeast
<1> QED BY <1>9 DEF percentDiv, X, F

\* What a liquidator who asks for the maximum repays and seizes, where the collateral pays
\* for least units of the debt: no less than that, and no more than the collateral.
LEMMA LiquidationRepays ==
    ASSUME IInv, NEW c \in reservesList, NEW d \in reservesList, NEW u \in Account,
           NEW least \in Nat, priceUsable(c),
           reserves[c].config.liquidationThreshold > 0,
           least <= percentMul(debtOf(d, u), LIQUIDATION_CLOSE_FACTOR_PERCENT),
           percentMul(debtOf(d, u), LIQUIDATION_CLOSE_FACTOR_PERCENT) <= UINT_MAX,
           percentMul(worth(d, least + 1), reserves[c].config.liquidationBonus)
             <= collateralInETH(reserves, price, u, c, now)
    PROVE  /\ least <= liquidationTerms(c, d, u, UINT_MAX).repaid
           /\ liquidationTerms(c, d, u, UINT_MAX).seized <= aTokenBalanceOf(reserves[c], u, now)
<1> DEFINE balance == aTokenBalanceOf(reserves[c], u, now)
           most    == percentMul(debtOf(d, u), LIQUIDATION_CLOSE_FACTOR_PERCENT)
           bonus   == reserves[c].config.liquidationBonus
           cUnit   == reserves[c].config.unit
           dUnit   == reserves[d].config.unit
           actual  == actualDebtToLiquidate(UINT_MAX, debtOf(d, u))
           available == calculateAvailableCollateralToLiquidate(c, d, actual, balance)
           maxCollateral == percentMul(price[d] * actual * cUnit, bonus) \div (price[c] * dUnit)
           debtNeeded == percentDiv((price[c] * balance * dUnit) \div (price[d] * cUnit), bonus)
           terms == liquidationTerms(c, d, u, UINT_MAX)
<1>1. /\ price[c] \in Nat \ {0} /\ price[d] \in Nat
      /\ cUnit \in Nat \ {0} /\ dUnit \in Nat \ {0}
      /\ bonus \in Nat /\ PERCENTAGE_FACTOR <= bonus
  <2>1. c \in Asset /\ d \in Asset
    BY InvFacts
  <2>2. reserves[c].config \in Configuration /\ reserves[d].config \in Configuration
    BY <2>1, InvFacts, ReserveFields
  <2>3. cUnit \in Nat \ {0} /\ dUnit \in Nat \ {0} /\ bonus \in Nat
    BY <2>2 DEF Configuration
  <2>4. bonus > PERCENTAGE_FACTOR
    BY <2>1, <2>2 DEF IInv, ReservesOK, BonusWithThreshold, Configuration
  <2>5. price[c] \in Nat \ {0} /\ price[d] \in Nat
    <3>1. price[c] \in Nat /\ price[d] \in Nat
      BY <2>1, InvFacts
    <3> QED BY <3>1 DEF priceUsable
  <2> HIDE DEF bonus, cUnit, dUnit
  <2> QED BY <2>3, <2>4, <2>5, ScalePositive
<1>2. balance \in Nat /\ most \in Nat
  <2>1. balance \in Nat
    BY InvFacts, ReserveViews
  <2>2. most \in Nat
    BY DebtViews, RoundedInNat, PoolConstantsAssumption
  <2> QED BY <2>1, <2>2
<1>3. actual = IF UINT_MAX > most THEN most ELSE UINT_MAX
    BY DEF actualDebtToLiquidate
<1>4. available = IF maxCollateral > balance
                  THEN [collateral |-> balance, debt |-> debtNeeded]
                  ELSE [collateral |-> maxCollateral, debt |-> actual]
    BY DEF calculateAvailableCollateralToLiquidate
<1>5. /\ terms.seized = available.collateral
      /\ terms.repaid = IF available.debt < actual THEN available.debt ELSE actual
    BY DEF liquidationTerms
<1>6. /\ percentMul((price[d] * (least + 1)) \div dUnit + 2, bonus)
           <= (price[c] * balance) \div cUnit
      /\ least <= most /\ most <= UINT_MAX
    BY DEF worth, collateralInETH, valueInETH
<1> HIDE DEF balance, most, bonus, cUnit, dUnit, actual, available, terms
<1>7. actual = most /\ actual \in Nat
    BY <1>2, <1>3, <1>6, UintMaxAssumption
<1>8. ASSUME maxCollateral > balance PROVE least <= debtNeeded
  <2>1. price[c] * dUnit \in Nat \ {0}
    BY <1>1, ProductPositive
  <2>2. price[d] \in Nat \ {0}
    BY <1>1, <1>2, <1>7, <1>8, <2>1, ShortOfWorth
  <2> QED BY <1>1, <1>2, <1>6, <2>2, CollateralPays
<1>9. maxCollateral \in Nat
  <2>1. price[c] * dUnit \in Nat \ {0} /\ price[d] * actual * cUnit \in Nat
    BY <1>1, <1>7, ProductPositive
  <2>2. percentMul(price[d] * actual * cUnit, bonus) \in Nat
    BY <1>1, <2>1, RoundedInNat
  <2> QED BY <2>1, <2>2, DivProp
<1> HIDE DEF maxCollateral, debtNeeded
<1>10. least <= terms.repaid
  <2>1. least <= available.debt
    BY <1>4, <1>6, <1>7, <1>8
  <2> QED BY <1>5, <1>6, <1>7, <2>1
<1>11. terms.seized <= balance
    BY <1>2, <1>4, <1>5, <1>9
<1> QED BY <1>10, <1>11 DEF terms, balance

\* The accrual lets a debtor burn, of what he was shown to owe, any part that is worth a
\* scaled token, and the liquidation burns one.
LEMMA LiquidatedIsBurned ==
    ASSUME NEW r, now \in Nat, ListedOK(r, now), DebtorsAreCharged(r), NEW u \in Account,
           NEW amount \in Nat, rounding(getNormalizedDebt(r, now)) <= amount,
           amount <= owed(r, u), NEW debt \in Nat, debt = variableDebtBalanceOf(r, u, now)
    PROVE  burnLiquidatedAccepted(updateState(r, now), u, amount, debt)
<1> DEFINE n == updateState(r, now)
           i == getNormalizedDebt(r, now)
           held == r.variableDebt.balance[u]
           rest == stableBalanceOf(r.stableDebt, u, now)
<1>1. n.variableDebt = r.variableDebt /\ n.stableDebt = r.stableDebt
    BY AccrualIsAccepted, UpdateState
<1>2. /\ held \in Nat /\ r.variableDebt.supply \in Nat /\ held <= r.variableDebt.supply
      /\ i \in Nat \ {0} /\ i >= RAY
  <2>1. /\ held \in Nat /\ r.variableDebt.supply \in Nat /\ held <= r.variableDebt.supply
        /\ i \in Nat /\ i >= RAY
    BY ReserveBooks, BalancedTokenFields, NormalizedIndexes
  <2> HIDE DEF i
  <2> QED BY <2>1, ScalePositive
<1>3. debt = rayMul(held, i)
    BY DEF variableDebtBalanceOf, balanceOf
<1>4. owed(r, u) = rest + debt /\ rest \in Nat
  <2>1. rest = stableDebtBalanceOf(r, u, now)
    BY DEF stableDebtBalanceOf
  <2> QED BY <2>1, ReserveViews DEF owed
<1>5. held # 0 => n.variableBorrowIndex = i
    BY <1>2, ShownIsCommitted
<1>6. ASSUME NEW part \in Nat, part <= debt, rayDiv(part, i) # 0, held # 0
      PROVE  burnDebtAccepted(n, u, part, VARIABLE_RATE)
  <2>1. rayDiv(part, i) <= rayDiv(debt, i)
    BY <1>2, <1>6, RayDivMonotone
  <2>2. rayDiv(debt, i) = held
    BY <1>2, <1>3, RoundTrip
  <2>3. rayDiv(part, i) \in Nat
    BY <1>2, RoundedInNat
  <2>4. rayDiv(part, i) <= held /\ rayDiv(part, i) <= r.variableDebt.supply
    BY <1>2, <2>1, <2>2, <2>3
  <2>5. VARIABLE_RATE # STABLE
    BY DEF VARIABLE_RATE, STABLE
  <2> QED BY <1>1, <1>5, <1>6, <2>4, <2>5
          DEF burnDebtAccepted, burnAccepted, burnScaledAccepted
<1>7. rayDiv(amount, i) # 0 /\ amount > 0
  <2>1. rounding(i) \in Nat \ {0}
    BY <1>2, RoundingType
  <2> QED BY <1>2, <2>1, RoundingIsAToken
<1>8. debt # 0 => held # 0
    BY <1>2, <1>3, RayMulZero
<1> HIDE DEF n, i, held, rest
<1>9. CASE debt >= amount
  <2>1. burnDebtAccepted(n, u, amount, VARIABLE_RATE)
    BY <1>6, <1>7, <1>8, <1>9
  <2> QED BY <1>9, <2>1 DEF burnLiquidatedAccepted, n
<1>10. CASE debt < amount
  <2>1. debt > 0 => burnDebtAccepted(n, u, debt, VARIABLE_RATE)
    <3> SUFFICES ASSUME debt > 0 PROVE burnDebtAccepted(n, u, debt, VARIABLE_RATE)
      OBVIOUS
    <3>1. held # 0
      BY <1>8
    <3>2. rayDiv(debt, i) # 0
      BY <1>2, <1>3, <3>1, RoundTrip
    <3> QED BY <1>6, <3>1, <3>2
  <2>2. burnStableAccepted(n.stableDebt, u, amount - debt, now)
    <3>1. amount - debt <= rest
      BY <1>4
    <3> QED BY <1>1, <3>1 DEF burnStableAccepted, rest
  <2> QED BY <1>10, <2>1, <2>2 DEF burnLiquidatedAccepted, n
<1> QED BY <1>9, <1>10

\* What a user's deposit is shown to be worth, or less of it, can be transferred.
LEMMA ShownIsTransferable ==
    ASSUME NEW r, now \in Nat, ListedOK(r, now), NEW u \in Account, NEW amount \in Nat,
           amount <= aTokenBalanceOf(r, u, now)
    PROVE  transferScaledAccepted(r.aToken, u, rayDiv(amount, getNormalizedIncome(r, now)))
<1> DEFINE i == getNormalizedIncome(r, now)
           held == r.aToken.balance[u]
<1>1. held \in Nat /\ i \in Nat /\ i >= RAY
    BY ReserveBooks, BalancedTokenFields, NormalizedIndexes
<1>2. amount <= rayMul(held, i)
    BY DEF aTokenBalanceOf, balanceOf
<1> HIDE DEF i, held
<1>3. i \in Nat \ {0}
    BY <1>1, ScalePositive
<1>4. rayMul(held, i) \in Nat
    BY <1>1, RoundedInNat
<1>5. rayDiv(amount, i) <= rayDiv(rayMul(held, i), i)
    BY <1>2, <1>3, <1>4, RayDivMonotone
<1>6. rayDiv(amount, i) <= held
    BY <1>1, <1>5, RoundTrip
<1> QED BY <1>6 DEF transferScaledAccepted, i, held

\* The health factor of a position is a number.
LEMMA HealthFactorType ==
    ASSUME IInv, NEW u \in Account
    PROVE  accountData(u).healthFactor \in Nat
<1> DEFINE total == Total(collaterals(u), counted(u))
           sum   == Total(limits(u), counted(u))
           debt  == accountData(u).totalDebt
           limit == accountData(u).liquidationThreshold
<1>1. total \in Nat /\ sum \in Nat /\ debt \in Nat /\ accountData(u).totalCollateral = total
      /\ limit = (IF total > 0 THEN sum \div total ELSE 0)
      /\ accountData(u).healthFactor = calculateHealthFactorFromBalances(total, debt, limit)
    BY AccountDataTotals
<1> HIDE DEF total, sum, debt, limit
<1>2. limit \in Nat
  <2>1. CASE total > 0
    <3>1. total \in Nat \ {0}
      BY <1>1, <2>1
    <3> QED BY <1>1, <2>1, <3>1, DivProp
  <2>2. CASE ~(total > 0)
    BY <1>1, <2>2
  <2> QED BY <2>1, <2>2
<1>3. CASE debt = 0
    BY <1>1, <1>3, UintMaxAssumption DEF calculateHealthFactorFromBalances
<1>4. CASE debt # 0
  <2>1. wadDiv(percentMul(total, limit), debt) \in Nat
    <3>1. percentMul(total, limit) \in Nat
      BY <1>1, <1>2, RoundedInNat
    <3> QED BY <1>1, <1>4, <3>1, RoundedInNat
  <2> QED BY <1>1, <1>4, <2>1 DEF calculateHealthFactorFromBalances
<1> QED BY <1>3, <1>4

\* What UnhealthyCanBeLiquidated asks of a position, of the liquidator's funds and of the
\* two reserves.
Liquidatable(u, v, c, d) ==
    LET most == percentMul(debtOf(d, u), LIQUIDATION_CLOSE_FACTOR_PERCENT)
    IN  /\ ~healthy(u) /\ open(c) /\ open(d)
        /\ debtRounding(d) <= most /\ most <= wallet[d][v]
        /\ reserves[c].config.liquidationThreshold > 0 /\ priceUsable(c)
        /\ percentMul(worth(d, debtRounding(d) + 1), reserves[c].config.liquidationBonus)
             <= collateralInETH(reserves, price, u, c, now)

\* Such a position is liquidated.
LEMMA LiquidatableIsAccepted ==
    ASSUME IInv, FactorsOK, LIQUIDATION_CLOSE_FACTOR_PERCENT <= PERCENTAGE_FACTOR,
           NEW u \in User, NEW v \in User, NEW c \in usersConfig[u].collateral,
           NEW d \in reservesList, c \in reservesList,
           DebtorsAreCharged(reserves[d]), debtOf(d, u) <= UINT_MAX, Liquidatable(u, v, c, d)
    PROVE  /\ LiquidationAccepted(v, c, d, u, UINT_MAX, TRUE)
           /\ liquidationTerms(c, d, u, UINT_MAX).repaid <= wallet[d][v]
<1> DEFINE terms == liquidationTerms(c, d, u, UINT_MAX)
           most  == percentMul(debtOf(d, u), LIQUIDATION_CLOSE_FACTOR_PERCENT)
           least == debtRounding(d)
           r     == reserves[d]
           d1    == updateState(r, now)
           d2    == burnLiquidated(d1, u, terms.repaid, terms.variableDebt)
           d3    == updateInterestRates(d2, terms.repaid, 0, now)
           rs1   == afterRepayment(d, u, terms)
<1>1. /\ now \in Nat /\ u \in Account /\ v \in Account /\ d \in Asset /\ c \in Asset
      /\ ListedOK(r, now) /\ ListedOK(reserves[c], now)
      /\ r.config.reserveFactor <= PERCENTAGE_FACTOR
      /\ reserves \in [Asset -> Reserve] /\ wallet[d][v] \in Nat
    BY InvFacts, InputAssumption DEF FactorsOK
<1>2. /\ ~healthy(u) /\ open(c) /\ open(d) /\ least <= most /\ most <= wallet[d][v]
      /\ reserves[c].config.liquidationThreshold > 0 /\ priceUsable(c)
      /\ percentMul(worth(d, least + 1), reserves[c].config.liquidationBonus)
           <= collateralInETH(reserves, price, u, c, now)
    BY DEF Liquidatable
<1>3. /\ debtOf(d, u) = owed(r, u) /\ debtOf(d, u) \in Nat
      /\ debtOf(d, u) = debtOfMode(d, u, STABLE) + debtOfMode(d, u, VARIABLE_RATE)
      /\ debtOfMode(d, u, STABLE) \in Nat /\ debtOfMode(d, u, VARIABLE_RATE) \in Nat
      /\ debtOfMode(d, u, VARIABLE_RATE) = variableDebtBalanceOf(r, u, now)
    BY <1>1, DebtViews DEF debtOf, owed
<1>4. most \in Nat /\ most <= debtOf(d, u) /\ most <= UINT_MAX
  <2>1. most \in Nat /\ most <= debtOf(d, u)
    BY <1>3, PercentagePart, RoundedInNat, PoolConstantsAssumption
  <2> QED BY <1>3, <2>1, UintMaxAssumption
<1>5. least \in Nat \ {0} /\ least = rounding(getNormalizedDebt(r, now))
    BY <1>1, NormalizedIndexes, RoundingType DEF debtRounding
<1>6. terms.seized \in Nat /\ terms.repaid \in Nat /\ terms.variableDebt \in Nat
    BY <1>1, <1>2, UintMaxAssumption, LiquidationTermsType
<1>7. terms.variableDebt = variableDebtBalanceOf(r, u, now)
    BY <1>3 DEF liquidationTerms
<1>8. least <= terms.repaid /\ terms.seized <= aTokenBalanceOf(reserves[c], u, now)
    BY <1>1, <1>2, <1>4, <1>5, LiquidationRepays
<1>9. terms.repaid <= most
    BY <1>1, <1>6, UintMaxAssumption, RepaidWithinCloseFactor
<1> HIDE DEF terms, most, least
<1>10. updateStateAccepted(r, now)
    BY <1>1, AccrualIsAccepted
<1>11. burnLiquidatedAccepted(d1, u, terms.repaid, terms.variableDebt)
  <2>1. terms.repaid <= owed(r, u)
    BY <1>3, <1>4, <1>6, <1>9
  <2> QED BY <1>1, <1>5, <1>6, <1>7, <1>8, <2>1, LiquidatedIsBurned
<1>12. updateInterestRatesAccepted(d2, terms.repaid, 0)
  <2>1. Accrued(r, d1)
    BY <1>1, UpdateStateKeeps
  <2>2. Accrued(r, d2)
    BY <1>1, <1>6, <1>11, <2>1, AccruedBurnLiquidated
  <2>3. d2.config = r.config /\ d2.liquidity \in Nat
    BY <2>2, AccruedFields DEF Accrued
  <2> HIDE DEF d2
  <2> QED BY <1>1, <1>6, <2>3 DEF updateInterestRatesAccepted
<1>13. repaymentAccepted(d, u, terms)
    BY <1>10, <1>11, <1>12 DEF repaymentAccepted
<1>14. seizureAccepted(rs1[c], u, terms.seized, TRUE)
  <2>1. /\ Accrued(r, d3) /\ DepositsKept(r, d3)
    BY <1>1, <1>6, <1>7, <1>11, <1>12, RepaidReserve
  <2>2. d3 \in Reserve /\ ListedOK(d3, now)
    BY <2>1, AccruedFields
  <2>3. rs1 = [reserves EXCEPT ![d] = d3]
    BY DEF afterRepayment
  <2> HIDE DEF d3, rs1
  <2>4. ListedOK(rs1[c], now) /\ terms.seized <= aTokenBalanceOf(rs1[c], u, now)
    <3>1. CASE c = d
      <4>1. rs1[c] = d3
        BY <1>1, <2>3, <3>1
      <4>2. /\ aTokenBalanceOf(r, u, now) <= aTokenBalanceOf(d3, u, now)
            /\ aTokenBalanceOf(r, u, now) \in Nat /\ aTokenBalanceOf(d3, u, now) \in Nat
        BY <1>1, <2>1, <2>2, ShownTypes DEF DepositsKept
      <4> QED BY <1>6, <1>8, <2>2, <3>1, <4>1, <4>2
    <3>2. CASE c # d
      <4>1. rs1[c] = reserves[c]
        BY <1>1, <2>3, <3>2
      <4> QED BY <1>1, <1>8, <4>1
    <3> QED BY <3>1, <3>2
  <2> QED BY <1>1, <1>6, <2>4, ShownIsTransferable DEF seizureAccepted
<1>15. validateLiquidationCall(c, d, u, debtOfMode(d, u, STABLE), debtOfMode(d, u, VARIABLE_RATE))
  <2>1. accountData(u).healthFactor < HEALTH_FACTOR_LIQUIDATION_THRESHOLD
    <3>1. accountData(u).healthFactor \in Nat /\ HEALTH_FACTOR_LIQUIDATION_THRESHOLD \in Nat
      BY <1>1, HealthFactorType, ScalePositive DEF HEALTH_FACTOR_LIQUIDATION_THRESHOLD
    <3> QED BY <1>2, <3>1 DEF healthy
  <2>2. debtOfMode(d, u, STABLE) > 0 \/ debtOfMode(d, u, VARIABLE_RATE) > 0
    BY <1>2, <1>3, <1>4, <1>5
  <2> QED BY <1>2, <2>1, <2>2 DEF validateLiquidationCall, open
<1>16. CanCall(v) /\ ~paused
    BY <1>2 DEF open, CanCall
<1>17. LiquidationAccepted(v, c, d, u, UINT_MAX, TRUE)
    BY <1>1, <1>2, <1>13, <1>14, <1>15, <1>16 DEF LiquidationAccepted, Listed, terms, rs1
<1>18. terms.repaid <= wallet[d][v]
    BY <1>1, <1>2, <1>4, <1>6, <1>9
<1> QED BY <1>17, <1>18 DEF terms

\* An unhealthy position can be liquidated by anyone who has the funds, in any of its
\* debts and against any of its collateral that pays for a few units of the debt, and for
\* no more than he has, as long as the admin sets no reserve factor above 100% and the
\* interest owed is charged: no rounding between the debt and the scaled tokens that move
\* refuses it, nor the repayment of the same reserve before the seizure.
THEOREM LiquidationIsAccepted ==
    ASSUME ReserveFactors \subseteq 0 .. PERCENTAGE_FACTOR,
           LIQUIDATION_CLOSE_FACTOR_PERCENT <= PERCENTAGE_FACTOR
    PROVE  Spec => [](DebtsAreCharged => UnhealthyCanBeLiquidated)
<1>1. IInv /\ FactorsOK /\ CollateralIsListed => (DebtsAreCharged => UnhealthyCanBeLiquidated)
  <2> SUFFICES ASSUME IInv, FactorsOK, CollateralIsListed, DebtsAreCharged,
                      NEW u \in User, NEW v \in User, NEW c \in usersConfig[u].collateral,
                      NEW d \in reservesList, Liquidatable(u, v, c, d)
               PROVE  /\ LiquidationAccepted(v, c, d, u, UINT_MAX, TRUE)
                      /\ liquidationTerms(c, d, u, UINT_MAX).repaid <= wallet[d][v]
    BY DEF UnhealthyCanBeLiquidated, Liquidatable
  <2>1. c \in reservesList
    BY InputAssumption DEF CollateralIsListed
  <2>2. DebtorsAreCharged(reserves[d]) /\ debtOf(d, u) <= UINT_MAX
    BY DEF DebtsAreCharged
  <2> QED BY <2>1, <2>2, LiquidatableIsAccepted
<1> QED BY <1>1, InvariantHolds, FactorsHold, CollateralStaysListed, PTL
=============================================================================
