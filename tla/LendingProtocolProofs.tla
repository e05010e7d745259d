------------------------ MODULE LendingProtocolProofs ------------------------
(***************************************************************************)
(* The protocol keeps its state well formed and its books in balance,      *)
(* hides nobody's debt, never lets an index fall, refuses neither an       *)
(* accrual nor a withdrawal in full, and lends against collateral no more  *)
(* than leaves its liquidator his bonus, whatever the accounts, assets,    *)
(* amounts and scales.  One invariant carries these results; every action  *)
(* preserves it.                                                           *)
(***************************************************************************)
EXTENDS LendingProtocolProperties, ReserveProofs, SequenceTheorems, TLAPS

\* A liquidation divides by the bonus of the reserve that it seizes, and what is
\* lent against collateral leaves room for that bonus.
BonusWithThreshold(config) ==
    config.liquidationThreshold # 0 =>
        /\ config.liquidationBonus > PERCENTAGE_FACTOR
        /\ percentMul(config.liquidationThreshold, config.liquidationBonus) <= PERCENTAGE_FACTOR

ReservesOK ==
    \A a \in Asset :
        /\ ReserveOK(reserves[a], now)
        /\ a \in reservesList => ListedOK(reserves[a], now)
        /\ BonusWithThreshold(reserves[a].config)

\* The loops over the legs of a flash loan stay within the legs.
FramesOK ==
    \A f \in DOMAIN flashLoans :
        flashLoans[f].stage # CALLBACK => flashLoans[f].next \in 1 .. Len(flashLoans[f].legs)

IInv == TypeOK /\ ReservesOK /\ FramesOK /\ DebtImpliesBorrowingFlag

-----------------------------------------------------------------------------
(* What an operation makes of a reserve *)

NoDebt(r, u) == r.variableDebt.balance[u] = 0 /\ r.stableDebt.balance[u] = 0

\* n is a later state of the listed reserve r, within one block.
Continues(r, n) ==
    /\ ListedOK(n, now)
    /\ n.config = r.config
    /\ getNormalizedIncome(n, now) >= getNormalizedIncome(r, now)
    /\ n.variableBorrowIndex >= r.variableBorrowIndex

\* ... whose interest is committed.
Accrued(r, n) ==
    /\ ListedOK(n, now)
    /\ n.config = r.config
    /\ n.lastUpdateTimestamp = now
    /\ n.liquidityIndex >= getNormalizedIncome(r, now)
    /\ n.variableBorrowIndex >= r.variableBorrowIndex

\* A reserve that has accrued to now carries the old one on: its indexes have not fallen.
LEMMA AccruedContinues ==
    ASSUME NEW r, NEW n, Accrued(r, n)
    PROVE  Continues(r, n)
BY DEF Accrued, Continues, getNormalizedIncome

withFunds(r, l, t) == [r EXCEPT !.liquidity = l, !.aToken = t]
withDebts(r, v, s) == [r EXCEPT !.variableDebt = v, !.stableDebt = s]

\* Funds and aTokens move.
LEMMA MoveFunds ==
    ASSUME NEW r, now \in Nat, ListedOK(r, now), NEW l \in Nat, NEW t \in BalancedToken
    PROVE  LET n == withFunds(r, l, t)
           IN  /\ ListedOK(n, now)
               /\ n.config = r.config /\ n.lastUpdateTimestamp = r.lastUpdateTimestamp
               /\ n.liquidityIndex = r.liquidityIndex
               /\ n.currentLiquidityRate = r.currentLiquidityRate
               /\ n.variableBorrowIndex = r.variableBorrowIndex
               /\ n.variableDebt = r.variableDebt /\ n.stableDebt = r.stableDebt
               /\ n.liquidity = l
<1> DEFINE n == withFunds(r, l, t)
<1>1. r \in Reserve
    BY DEF ListedOK, ReserveOK
<1>2. /\ n \in Reserve
      /\ n.config = r.config /\ n.lastUpdateTimestamp = r.lastUpdateTimestamp
      /\ n.liquidityIndex = r.liquidityIndex
      /\ n.currentLiquidityRate = r.currentLiquidityRate
      /\ n.variableBorrowIndex = r.variableBorrowIndex
      /\ n.variableDebt = r.variableDebt /\ n.stableDebt = r.stableDebt
      /\ n.strategy = r.strategy /\ n.liquidity = l /\ n.aToken = t
    BY <1>1, BalancedTokenFields DEF Reserve, withFunds, withDebts
<1> HIDE DEF n
<1>3. ListedOK(n, now)
    BY <1>2 DEF ListedOK, ReserveOK
<1> QED BY <1>2, <1>3 DEF n

\* The debts of one mode change.
LEMMA ChangeDebt ==
    ASSUME NEW r, now \in Nat, ListedOK(r, now), NEW v \in BalancedToken, NEW s \in StableToken,
           StablePast(s, now), s.totalSupplyTimestamp <= r.lastUpdateTimestamp
    PROVE  LET n == withDebts(r, v, s)
           IN  /\ ListedOK(n, now)
               /\ n.config = r.config /\ n.lastUpdateTimestamp = r.lastUpdateTimestamp
               /\ n.liquidityIndex = r.liquidityIndex
               /\ n.variableBorrowIndex = r.variableBorrowIndex
               /\ n.currentStableBorrowRate = r.currentStableBorrowRate
               /\ n.variableDebt = v /\ n.stableDebt = s
               /\ n.liquidity = r.liquidity
<1> DEFINE n == withDebts(r, v, s)
<1>1. r \in Reserve
    BY DEF ListedOK, ReserveOK
<1>2. /\ n \in Reserve
      /\ n.config = r.config /\ n.lastUpdateTimestamp = r.lastUpdateTimestamp
      /\ n.liquidityIndex = r.liquidityIndex
      /\ n.variableBorrowIndex = r.variableBorrowIndex
      /\ n.currentStableBorrowRate = r.currentStableBorrowRate
      /\ n.variableDebt = v /\ n.stableDebt = s
      /\ n.strategy = r.strategy /\ n.liquidity = r.liquidity /\ n.aToken = r.aToken
    BY <1>1, BalancedTokenFields DEF Reserve, withFunds, withDebts
<1> HIDE DEF n
<1>3. ListedOK(n, now)
    BY <1>2 DEF ListedOK, ReserveOK
<1> QED BY <1>2, <1>3 DEF n

\* Minting a debt keeps the reserve well formed and makes no debtor but the borrower.
LEMMA MintDebt ==
    ASSUME NEW r, now \in Nat, ListedOK(r, now), NEW u \in Account, NEW amount \in Nat,
           NEW m \in RateMode, mintDebtAccepted(r, amount, m), r.lastUpdateTimestamp = now
    PROVE  LET n == mintDebt(r, u, amount, m)
           IN  /\ ListedOK(n, now)
               /\ n.config = r.config /\ n.lastUpdateTimestamp = r.lastUpdateTimestamp
               /\ n.liquidityIndex = r.liquidityIndex
               /\ n.variableBorrowIndex = r.variableBorrowIndex
               /\ n.liquidity = r.liquidity
               /\ \A v \in Account \ {u} : NoDebt(r, v) => NoDebt(n, v)
<1>1. r \in Reserve /\ StablePast(r.stableDebt, now) /\ r.variableBorrowIndex >= RAY
    BY DEF ListedOK, ReserveOK
<1>2. /\ r.variableDebt \in BalancedToken /\ r.stableDebt \in StableToken
      /\ r.variableBorrowIndex \in Nat /\ r.currentStableBorrowRate \in Nat
      /\ r.stableDebt.totalSupplyTimestamp <= r.lastUpdateTimestamp
    BY <1>1, ReserveFields DEF ListedOK, ReserveOK
<1>3. CASE m = STABLE
  <2> DEFINE s == mintStable(r.stableDebt, u, amount, r.currentStableBorrowRate, now)
             n == withDebts(r, r.variableDebt, s)
  <2>1. mintDebt(r, u, amount, m) = n
    BY <1>1, <1>3 DEF mintDebt, withDebts, Reserve
  <2>2. s \in StableToken /\ StablePast(s, now)
    BY <1>1, <1>2, <1>3, MintStableType DEF mintDebtAccepted
  <2>3. /\ \A v \in Account \ {u} : s.balance[v] = r.stableDebt.balance[v]
        /\ s.totalSupplyTimestamp <= r.lastUpdateTimestamp
    BY <1>2 DEF mintStable, StableToken
  <2> HIDE DEF s
  <2>4. /\ ListedOK(n, now)
        /\ n.config = r.config /\ n.lastUpdateTimestamp = r.lastUpdateTimestamp
        /\ n.liquidityIndex = r.liquidityIndex
        /\ n.variableBorrowIndex = r.variableBorrowIndex
        /\ n.liquidity = r.liquidity
        /\ n.variableDebt = r.variableDebt /\ n.stableDebt = s
    BY <1>2, <2>2, <2>3, ChangeDebt
  <2> HIDE DEF n
  <2> QED BY <2>1, <2>3, <2>4 DEF NoDebt
<1>4. CASE m # STABLE
  <2> DEFINE t == mint(r.variableDebt, u, amount, r.variableBorrowIndex)
             n == withDebts(r, t, r.stableDebt)
  <2>1. mintDebt(r, u, amount, m) = n
    BY <1>1, <1>4 DEF mintDebt, withDebts, Reserve
  <2>2. t \in BalancedToken
    BY <1>1, <1>2, TokenOperationsType
  <2>3. \A v \in Account \ {u} : t.balance[v] = r.variableDebt.balance[v]
    BY <1>2, BalancedTokenFields DEF mint, mintScaled
  <2> HIDE DEF t
  <2>4. /\ ListedOK(n, now)
        /\ n.config = r.config /\ n.lastUpdateTimestamp = r.lastUpdateTimestamp
        /\ n.liquidityIndex = r.liquidityIndex
        /\ n.variableBorrowIndex = r.variableBorrowIndex
        /\ n.liquidity = r.liquidity
        /\ n.variableDebt = t /\ n.stableDebt = r.stableDebt
    BY <1>1, <1>2, <2>2, ChangeDebt
  <2> HIDE DEF n
  <2> QED BY <2>1, <2>3, <2>4 DEF NoDebt
<1> QED BY <1>3, <1>4

\* A burn leaves nobody with a debt he had not, and clears the debt when the
\* amount is all that the debtor owes, at the index shown or at the one stored.
LEMMA BurnDebt ==
    ASSUME NEW r, now \in Nat, ListedOK(r, now), NEW u \in Account, NEW amount \in Nat,
           NEW m \in RateMode, burnDebtAccepted(r, u, amount, m), r.lastUpdateTimestamp = now
    PROVE  LET n == burnDebt(r, u, amount, m)
           IN  /\ ListedOK(n, now)
               /\ n.config = r.config /\ n.lastUpdateTimestamp = r.lastUpdateTimestamp
               /\ n.liquidityIndex = r.liquidityIndex
               /\ n.variableBorrowIndex = r.variableBorrowIndex
               /\ n.liquidity = r.liquidity
               /\ \A v \in Account : r.variableDebt.balance[v] = 0 => n.variableDebt.balance[v] = 0
               /\ \A v \in Account : r.stableDebt.balance[v] = 0 => n.stableDebt.balance[v] = 0
               /\ m = STABLE /\ amount = stableDebtBalanceOf(r, u, now)
                    => n.stableDebt.balance[u] = 0
               /\ \A i \in Nat : m # STABLE /\ i >= r.variableBorrowIndex
                                 /\ amount = rayMul(r.variableDebt.balance[u], i)
                    => n.variableDebt.balance[u] = 0
<1>1. r \in Reserve /\ StablePast(r.stableDebt, now) /\ r.variableBorrowIndex >= RAY
    BY DEF ListedOK, ReserveOK
<1>2. /\ r.variableDebt \in BalancedToken /\ r.stableDebt \in StableToken
      /\ r.variableBorrowIndex \in Nat
      /\ r.stableDebt.totalSupplyTimestamp <= r.lastUpdateTimestamp
    BY <1>1, ReserveFields DEF ListedOK, ReserveOK
<1>3. CASE m = STABLE
  <2> DEFINE s == burnStable(r.stableDebt, u, amount, now)
             n == withDebts(r, r.variableDebt, s)
  <2>1. burnDebt(r, u, amount, m) = n
    BY <1>1, <1>3 DEF burnDebt, withDebts, Reserve
  <2>2. /\ s \in StableToken /\ StablePast(s, now)
        /\ \A v \in Account : r.stableDebt.balance[v] = 0 => s.balance[v] = 0
        /\ amount = stableDebtBalanceOf(r, u, now) => s.balance[u] = 0
    BY <1>1, <1>2, <1>3, BurnStableType DEF burnDebtAccepted, stableDebtBalanceOf
  <2>5. s.totalSupplyTimestamp <= r.lastUpdateTimestamp
    BY <1>2 DEF burnStable
  <2> HIDE DEF s
  <2>3. /\ ListedOK(n, now)
        /\ n.config = r.config /\ n.lastUpdateTimestamp = r.lastUpdateTimestamp
        /\ n.liquidityIndex = r.liquidityIndex
        /\ n.variableBorrowIndex = r.variableBorrowIndex
        /\ n.liquidity = r.liquidity
        /\ n.variableDebt = r.variableDebt /\ n.stableDebt = s
    BY <1>2, <2>2, <2>5, ChangeDebt
  <2> HIDE DEF n
  <2> QED BY <1>3, <2>1, <2>2, <2>3
<1>4. CASE m # STABLE
  <2> DEFINE t == burn(r.variableDebt, u, amount, r.variableBorrowIndex)
             b == r.variableDebt.balance
             scaled == rayDiv(amount, r.variableBorrowIndex)
             n == withDebts(r, t, r.stableDebt)
  <2>1. burnDebt(r, u, amount, m) = n
    BY <1>1, <1>4 DEF burnDebt, withDebts, Reserve
  <2>2. t \in BalancedToken
    BY <1>1, <1>2, <1>4, TokenOperationsType DEF burnDebtAccepted
  <2>3. b \in [Account -> Nat] /\ scaled \in Nat /\ scaled <= b[u]
    <3>1. b \in [Account -> Nat]
      BY <1>2, BalancedTokenFields
    <3>2. scaled \in Nat
      <4>1. r.variableBorrowIndex \in Nat \ {0}
        BY <1>1, <1>2, ScalePositive
      <4> QED BY <4>1, RoundedInNat
    <3>3. scaled <= b[u]
      BY <1>4 DEF burnDebtAccepted, burnAccepted, burnScaledAccepted
    <3> QED BY <3>1, <3>2, <3>3
  <2>4. t.balance = [b EXCEPT ![u] = @ - scaled]
    BY DEF burn, burnScaled
  <2> HIDE DEF b, scaled, t
  <2>5. \A v \in Account : b[v] = 0 => t.balance[v] = 0
    BY <2>3, <2>4
  <2>6. ASSUME NEW i \in Nat, i >= r.variableBorrowIndex, amount = rayMul(b[u], i)
        PROVE  t.balance[u] = 0
    <3>1. b[u] \in Nat
      BY <2>3
    <3>2. scaled >= b[u]
      BY <1>1, <1>2, <2>6, <3>1, RoundTripAtLeast DEF b, scaled
    <3>3. scaled = b[u]
      BY <2>3, <3>1, <3>2
    <3> QED BY <2>3, <2>4, <3>3
  <2>7. /\ ListedOK(n, now)
        /\ n.config = r.config /\ n.lastUpdateTimestamp = r.lastUpdateTimestamp
        /\ n.liquidityIndex = r.liquidityIndex
        /\ n.variableBorrowIndex = r.variableBorrowIndex
        /\ n.liquidity = r.liquidity
        /\ n.variableDebt = t /\ n.stableDebt = r.stableDebt
    BY <1>1, <1>2, <2>2, ChangeDebt
  <2> HIDE DEF n
  <2> QED BY <1>4, <2>1, <2>5, <2>6, <2>7 DEF b
<1> QED BY <1>3, <1>4

-----------------------------------------------------------------------------
(* What an action owes the invariant *)

IndexStep ==
    \A a \in reservesList :
        /\ getNormalizedIncome(reserves'[a], now') >= getNormalizedIncome(reserves[a], now)
        /\ reserves'[a].variableBorrowIndex >= reserves[a].variableBorrowIndex

\* The reserve factor of a reserve changes only for one that the admin may set.
FactorStep ==
    \A a \in Asset : reserves'[a].config.reserveFactor
                       \in {reserves[a].config.reserveFactor} \cup ReserveFactors

Preserved == IInv' /\ IndexStep /\ FactorStep

\* What the invariant says of each variable, for the steps that use one.
LEMMA InvFacts ==
    ASSUME IInv
    PROVE  /\ now \in Nat /\ reserves \in [Asset -> Reserve] /\ reservesList \subseteq Asset
           /\ usersConfig \in [Account -> UserConfiguration]
           /\ borrowAllowance \in [Asset -> [RateMode -> [Account -> [Account -> Nat]]]]
           /\ wallet \in [Asset -> [Account -> Nat]]
           /\ price \in [Asset -> Nat]
           /\ flashLoans \in Seq(FlashLoanFrame)
           /\ \A a \in reservesList : ListedOK(reserves[a], now)
BY DEF IInv, TypeOK, ReservesOK

\* The user configuration's two kinds of bit are set independently of each other.
LEMMA ConfigurationKinds ==
    ASSUME NEW cfg \in UserConfiguration, NEW a \in Asset, NEW b \in BOOLEAN
    PROVE  /\ setBorrowing(cfg, a, b) \in UserConfiguration
           /\ setUsingAsCollateral(cfg, a, b) \in UserConfiguration
           /\ setUsingAsCollateral(cfg, a, b).borrowing = cfg.borrowing
           /\ setBorrowing(cfg, a, TRUE).borrowing = cfg.borrowing \cup {a}
           /\ setBorrowing(cfg, a, FALSE).borrowing = cfg.borrowing \ {a}
BY DEF setBorrowing, setUsingAsCollateral, UserConfiguration

\* The collateral bits may change, the borrowing bits stay.
withCollateral(c, u, a, b) == [c EXCEPT ![u] = setUsingAsCollateral(c[u], a, b)]

SameBorrowing(c) ==
    /\ c \in [Account -> UserConfiguration]
    /\ \A u \in Account : c[u].borrowing = usersConfig[u].borrowing

\* Leaving the user configurations alone leaves the borrowing bits alone.
LEMMA SameConfiguration ==
    ASSUME IInv
    PROVE  SameBorrowing(usersConfig)
BY InvFacts DEF SameBorrowing

\* Changing a collateral bit leaves the borrowing bits alone.
LEMMA CollateralChange ==
    ASSUME IInv, NEW c, SameBorrowing(c), NEW u \in Account, NEW a \in Asset, NEW b \in BOOLEAN
    PROVE  SameBorrowing(withCollateral(c, u, a, b))
<1> DEFINE cfg == setUsingAsCollateral(c[u], a, b)
<1>1. c \in [Account -> UserConfiguration]
    BY DEF SameBorrowing
<1>2. cfg \in UserConfiguration /\ cfg.borrowing = c[u].borrowing
    BY <1>1, ConfigurationKinds
<1>3. withCollateral(c, u, a, b) = [c EXCEPT ![u] = cfg]
    BY DEF withCollateral
<1> HIDE DEF cfg
<1>4. SameBorrowing([c EXCEPT ![u] = cfg])
    BY <1>1, <1>2 DEF SameBorrowing
<1> QED BY <1>3, <1>4

\* The rest of the state is well formed, and the market is the same.
RestOK ==
    /\ UNCHANGED <<reservesList, paused, price, now>>
    /\ usersConfig' \in [Account -> UserConfiguration]
    /\ wallet' \in [Asset -> [Account -> Nat]]
    /\ borrowAllowance' \in [Asset -> [RateMode -> [Account -> [Account -> Nat]]]]
    /\ flashLoans' \in Seq(FlashLoanFrame)
    /\ FramesOK'

\* When reserve a becomes n, no flag is lost but with the debt, and no debt appears
\* without a flag.
FlagsFollow(a, n) ==
    \A u \in Account :
        /\ NoDebt(reserves[a], u) => NoDebt(n, u) \/ a \in usersConfig'[u].borrowing
        /\ \A b \in usersConfig[u].borrowing :
              b \in usersConfig'[u].borrowing \/ (b = a /\ NoDebt(n, u))

\* An action on one listed reserve preserves the invariant if the reserve and
\* the flags follow.
LEMMA ReserveStep ==
    ASSUME IInv, NEW a \in reservesList, NEW n, Continues(reserves[a], n),
           setReserve(a, n), RestOK, FlagsFollow(a, n)
    PROVE  Preserved
<1>1. a \in Asset /\ n \in Reserve /\ ListedOK(n, now) /\ n.config = reserves[a].config
      /\ reserves'[a] = n /\ \A b \in Asset \ {a} : reserves'[b] = reserves[b]
    BY InvFacts DEF Continues, ListedOK, ReserveOK, setReserve
<1>2. TypeOK'
  <2>1. reserves' \in [Asset -> Reserve]
    BY <1>1, InvFacts DEF setReserve
  <2> QED BY <2>1 DEF IInv, TypeOK, RestOK
<1>3. ReservesOK'
  <2> SUFFICES ASSUME NEW b \in Asset
               PROVE  /\ ReserveOK(reserves'[b], now')
                      /\ b \in reservesList' => ListedOK(reserves'[b], now')
                      /\ BonusWithThreshold(reserves'[b].config)
    BY DEF ReservesOK
  <2>1. now' = now /\ reservesList' = reservesList
    BY DEF RestOK
  <2>2. CASE b = a
    BY <1>1, <2>1, <2>2 DEF IInv, ReservesOK, ListedOK, BonusWithThreshold
  <2>3. CASE b # a
    BY <1>1, <2>1, <2>3 DEF IInv, ReservesOK
  <2> QED BY <2>2, <2>3
<1>4. DebtImpliesBorrowingFlag'
  <2> SUFFICES ASSUME NEW b \in Asset, NEW u \in Account, ~NoDebt(reserves'[b], u)
               PROVE  b \in usersConfig'[u].borrowing
    BY DEF DebtImpliesBorrowingFlag, NoDebt
  <2>1. ~NoDebt(reserves[b], u) => b \in usersConfig[u].borrowing
    BY DEF IInv, DebtImpliesBorrowingFlag, NoDebt
  <2> QED BY <1>1, <2>1 DEF FlagsFollow
<1>5. IndexStep
  <2> SUFFICES ASSUME NEW b \in reservesList
               PROVE  /\ getNormalizedIncome(reserves'[b], now') >= getNormalizedIncome(reserves[b], now)
                      /\ reserves'[b].variableBorrowIndex >= reserves[b].variableBorrowIndex
    BY DEF IndexStep
  <2>1. now' = now /\ b \in Asset
    BY InvFacts DEF RestOK
  <2>2. CASE b = a
    BY <1>1, <2>1, <2>2 DEF Continues
  <2>3. CASE b # a
    <3>1. getNormalizedIncome(reserves[b], now) \in Nat /\ reserves[b].variableBorrowIndex \in Nat
      BY InvFacts, NormalizedIndexes, ReserveFields DEF ListedOK, ReserveOK
    <3> QED BY <1>1, <2>1, <2>3, <3>1
  <2> QED BY <2>2, <2>3
<1>6. FactorStep
    BY <1>1 DEF FactorStep
<1> QED BY <1>2, <1>3, <1>4, <1>5, <1>6 DEF Preserved, IInv, RestOK

\* What leaves the reserves alone preserves the invariant if it does so with the
\* clock, the types and the flags.
LEMMA OtherStep ==
    ASSUME IInv, UNCHANGED <<reserves, reservesList, now>>, TypeOK', FramesOK',
           \A u \in Account : usersConfig[u].borrowing = usersConfig'[u].borrowing
    PROVE  Preserved
<1>1. ReservesOK' /\ DebtImpliesBorrowingFlag'
  <2>1. reserves' = reserves /\ reservesList' = reservesList /\ now' = now
    OBVIOUS
  <2> QED BY <2>1 DEF IInv, ReservesOK, DebtImpliesBorrowingFlag
<1>2. IndexStep
  <2> SUFFICES ASSUME NEW b \in reservesList
               PROVE  /\ getNormalizedIncome(reserves'[b], now') >= getNormalizedIncome(reserves[b], now)
                      /\ reserves'[b].variableBorrowIndex >= reserves[b].variableBorrowIndex
    BY DEF IndexStep
  <2>1. getNormalizedIncome(reserves[b], now) \in Nat /\ reserves[b].variableBorrowIndex \in Nat
    BY InvFacts, NormalizedIndexes, ReserveFields DEF ListedOK, ReserveOK
  <2> QED BY <2>1
<1> QED BY <1>1, <1>2 DEF Preserved, IInv, FactorStep

-----------------------------------------------------------------------------
(* The functions an operation is a pipeline of *)

\* The type of each field of a reserve that has accrued to now.
LEMMA AccruedFields ==
    ASSUME NEW r, NEW n, Accrued(r, n)
    PROVE  /\ n \in Reserve /\ ListedOK(n, now)
           /\ n.liquidity \in Nat /\ n.aToken \in BalancedToken
           /\ n.liquidityIndex \in Nat /\ n.liquidityIndex >= RAY
           /\ n.variableBorrowIndex \in Nat /\ n.variableBorrowIndex >= RAY
BY ReserveFields DEF Accrued, ListedOK, ReserveOK

\* updateState brings a reserve to now, its debts and its funds untouched.
LEMMA AccruedUpdateState ==
    ASSUME NEW r, now \in Nat, ListedOK(r, now), updateStateAccepted(r, now)
    PROVE  LET n == updateState(r, now)
           IN  /\ Accrued(r, n)
               /\ n.variableDebt = r.variableDebt /\ n.stableDebt = r.stableDebt
               /\ n.liquidity = r.liquidity
               /\ n.variableBorrowIndex <= getNormalizedDebt(r, now)
<1>1. getNormalizedIncome(r, now) \in Nat
    BY NormalizedIndexes
<1> QED BY <1>1, UpdateState DEF Accrued

\* updateInterestRates only changes the rates; funds taken were there.
LEMMA AccruedUpdateInterestRates ==
    ASSUME NEW r, NEW n, now \in Nat, Accrued(r, n), NEW added \in Nat, NEW taken \in Nat,
           updateInterestRatesAccepted(n, added, taken)
    PROVE  LET q == updateInterestRates(n, added, taken, now)
           IN  /\ Accrued(r, q)
               /\ q.variableDebt = n.variableDebt /\ q.stableDebt = n.stableDebt
               /\ q.aToken = n.aToken /\ q.liquidity = n.liquidity
               /\ q.liquidity + added - taken \in Nat
<1>1. n.liquidity \in Nat
    BY AccruedFields
<1>2. n.liquidity + added - taken \in Nat
    BY <1>1 DEF updateInterestRatesAccepted
<1>3. LET q == updateInterestRates(n, added, taken, now)
      IN  /\ Accrued(r, q)
          /\ q.variableDebt = n.variableDebt /\ q.stableDebt = n.stableDebt
          /\ q.aToken = n.aToken /\ q.liquidity = n.liquidity
    BY UpdateInterestRates DEF Accrued
<1> QED BY <1>2, <1>3

\* Moving funds or aTokens of a reserve leaves its indexes and debts alone.
LEMMA AccruedMoveFunds ==
    ASSUME NEW r, NEW n, now \in Nat, Accrued(r, n), NEW l \in Nat, NEW t \in BalancedToken
    PROVE  LET q == withFunds(n, l, t)
           IN  /\ Accrued(r, q)
               /\ q.variableDebt = n.variableDebt /\ q.stableDebt = n.stableDebt
BY MoveFunds DEF Accrued

\* A debt minted after the accrual: only the borrower becomes a debtor.
LEMMA AccruedMintDebt ==
    ASSUME NEW r, NEW n, now \in Nat, Accrued(r, n), NEW u \in Account, NEW amount \in Nat,
           NEW m \in RateMode, mintDebtAccepted(n, amount, m)
    PROVE  LET q == mintDebt(n, u, amount, m)
           IN  /\ Accrued(r, q)
               /\ q.liquidity = n.liquidity
               /\ \A v \in Account \ {u} : NoDebt(n, v) => NoDebt(q, v)
BY MintDebt DEF Accrued

\* A debt burnt after the accrual: nobody becomes a debtor.
LEMMA AccruedBurnDebt ==
    ASSUME NEW r, NEW n, now \in Nat, Accrued(r, n), NEW u \in Account, NEW amount \in Nat,
           NEW m \in RateMode, burnDebtAccepted(n, u, amount, m)
    PROVE  LET q == burnDebt(n, u, amount, m)
           IN  /\ Accrued(r, q)
               /\ q.liquidity = n.liquidity
               /\ \A v \in Account : NoDebt(n, v) => NoDebt(q, v)
BY BurnDebt DEF Accrued, NoDebt

-----------------------------------------------------------------------------
(* Deposits, withdrawals, transfers *)

\* LendingPool.deposit.
LEMMA DepositPreserves ==
    ASSUME IInv, NEW sender \in Account, NEW asset \in Asset, NEW amount \in Nat,
           NEW onBehalfOf \in Account, Deposit(sender, asset, amount, onBehalfOf)
    PROVE  Preserved
<1> DEFINE r  == reserves[asset]
           r1 == updateState(r, now)
           r2 == updateInterestRates(r1, amount, 0, now)
           t  == mint(r2.aToken, onBehalfOf, amount, r2.liquidityIndex)
           r3 == withFunds(r2, r2.liquidity + amount, t)
<1>1. /\ asset \in reservesList /\ updateStateAccepted(r, now)
      /\ updateInterestRatesAccepted(r1, amount, 0)
      /\ amount <= wallet[asset][sender]
      /\ wallet' = [wallet EXCEPT ![asset][sender] = @ - amount]
      /\ setReserve(asset, r3)
      /\ UNCHANGED <<reservesList, paused, borrowAllowance, price, now, flashLoans>>
    BY DEF Deposit, Listed, payIn, withFunds
<1>2. \/ usersConfig' = usersConfig
      \/ usersConfig' = withCollateral(usersConfig, onBehalfOf, asset, TRUE)
    BY DEF Deposit, setUserConfig, withCollateral
<1> HIDE DEF r, r1, r2, t, r3
<1>3. ListedOK(r, now) /\ now \in Nat
    BY <1>1, InvFacts DEF r
<1>4. Accrued(r, r1) /\ r1.variableDebt = r.variableDebt /\ r1.stableDebt = r.stableDebt
    BY <1>1, <1>3, AccruedUpdateState DEF r1
<1>5. Accrued(r, r2) /\ r2.variableDebt = r.variableDebt /\ r2.stableDebt = r.stableDebt
    BY <1>1, <1>3, <1>4, AccruedUpdateInterestRates DEF r2
<1>6. t \in BalancedToken /\ r2.liquidity + amount \in Nat
    BY <1>5, AccruedFields, TokenOperationsType DEF t
<1>7. Accrued(r, r3) /\ r3.variableDebt = r.variableDebt /\ r3.stableDebt = r.stableDebt
    BY <1>3, <1>5, <1>6, AccruedMoveFunds DEF r3
<1>8. Continues(r, r3) /\ \A u \in Account : NoDebt(r, u) => NoDebt(r3, u)
    BY <1>7, AccruedContinues DEF NoDebt
<1>9. SameBorrowing(usersConfig')
    BY <1>2, SameConfiguration, CollateralChange
<1>10. FlagsFollow(asset, r3)
    BY <1>8, <1>9 DEF FlagsFollow, SameBorrowing, r
<1>11. RestOK
    BY <1>1, <1>9, InvFacts DEF RestOK, IInv, FramesOK, SameBorrowing
<1> QED BY <1>1, <1>8, <1>10, <1>11, ReserveStep DEF r

\* LendingPool.withdraw.
LEMMA WithdrawPreserves ==
    ASSUME IInv, NEW sender \in Account, NEW asset \in Asset, NEW amount \in Nat,
           NEW to \in Account, Withdraw(sender, asset, amount, to)
    PROVE  Preserved
<1> DEFINE r  == reserves[asset]
           w  == amountToWithdraw(sender, asset, amount)
           r1 == updateState(r, now)
           r2 == updateInterestRates(r1, 0, w, now)
           t  == burn(r2.aToken, sender, w, r2.liquidityIndex)
           r3 == withFunds(r2, r2.liquidity - w, t)
<1>1. /\ asset \in reservesList /\ updateStateAccepted(r, now)
      /\ updateInterestRatesAccepted(r1, 0, w)
      /\ burnAccepted(r1.aToken, sender, w, r1.liquidityIndex)
      /\ wallet' = [wallet EXCEPT ![asset][to] = @ + w]
      /\ setReserve(asset, r3)
      /\ UNCHANGED <<reservesList, paused, borrowAllowance, price, now, flashLoans>>
    BY DEF Withdraw, WithdrawAccepted, Listed, payOut, withFunds
<1>2. \/ usersConfig' = usersConfig
      \/ usersConfig' = withCollateral(usersConfig, sender, asset, FALSE)
    BY DEF Withdraw, setUserConfig, withCollateral
<1> HIDE DEF r1, r2, t, r3
<1>3. ListedOK(r, now) /\ now \in Nat
    BY <1>1, InvFacts DEF r
<1>w. w \in Nat
    BY <1>3, ReserveViews DEF amountToWithdraw
<1> HIDE DEF r, w
<1>4. Accrued(r, r1) /\ r1.variableDebt = r.variableDebt /\ r1.stableDebt = r.stableDebt
    BY <1>1, <1>3, AccruedUpdateState DEF r1
<1>5. /\ Accrued(r, r2) /\ r2.variableDebt = r.variableDebt /\ r2.stableDebt = r.stableDebt
      /\ r2.aToken = r1.aToken /\ r2.liquidity + 0 - w \in Nat
    BY <1>1, <1>3, <1>4, <1>w, AccruedUpdateInterestRates DEF r2
<1>i. r2.liquidityIndex = r1.liquidityIndex
    BY <1>1, <1>3, <1>4, <1>w, UpdateInterestRates DEF r2, Accrued
<1>6. t \in BalancedToken /\ r2.liquidity - w \in Nat
  <2>1. t \in BalancedToken
    BY <1>1, <1>5, <1>i, <1>w, AccruedFields, TokenOperationsType DEF t
  <2>2. r2.liquidity \in Nat
    BY <1>5, AccruedFields
  <2> QED BY <1>5, <1>w, <2>1, <2>2
<1>7. Accrued(r, r3) /\ r3.variableDebt = r.variableDebt /\ r3.stableDebt = r.stableDebt
    BY <1>3, <1>5, <1>6, AccruedMoveFunds DEF r3
<1>8. Continues(r, r3) /\ \A u \in Account : NoDebt(r, u) => NoDebt(r3, u)
    BY <1>7, AccruedContinues DEF NoDebt
<1>9. SameBorrowing(usersConfig')
    BY <1>2, SameConfiguration, CollateralChange
<1>10. FlagsFollow(asset, r3)
    BY <1>8, <1>9 DEF FlagsFollow, SameBorrowing, r
<1>11. RestOK
    BY <1>1, <1>9, <1>w, InvFacts DEF RestOK, IInv, FramesOK, SameBorrowing
<1> QED BY <1>1, <1>8, <1>10, <1>11, ReserveStep DEF r

\* AToken.transfer with the pool's finalizeTransfer.
LEMMA TransferPreserves ==
    ASSUME IInv, NEW sender \in Account, NEW asset \in Asset, NEW recipient \in Account,
           NEW amount \in Nat, Transfer(sender, asset, recipient, amount)
    PROVE  Preserved
<1> DEFINE r      == reserves[asset]
           scaled == rayDiv(amount, getNormalizedIncome(r, now))
           t      == transferScaled(r.aToken, sender, recipient, scaled)
           r1     == [r EXCEPT !.aToken = t]
           n      == withFunds(r, r.liquidity, t)
           emptied  == aTokenBalanceOf(r, sender, now) - amount = 0
           received == aTokenBalanceOf(r, recipient, now) = 0 /\ amount # 0
           cfg1   == IF emptied THEN withCollateral(usersConfig, sender, asset, FALSE)
                     ELSE usersConfig
           cfg2   == IF received THEN withCollateral(cfg1, recipient, asset, TRUE) ELSE cfg1
<1>1. /\ asset \in reservesList
      /\ transferScaledAccepted(r.aToken, sender, scaled)
      /\ setReserve(asset, r1)
      /\ usersConfig' = usersConfig \/ usersConfig' = cfg2
      /\ UNCHANGED <<reservesList, paused, borrowAllowance, wallet, price, now, flashLoans>>
    BY DEF Transfer, Listed, withCollateral
<1> HIDE DEF emptied, received
<1>2. ListedOK(r, now) /\ now \in Nat /\ r \in Reserve
    BY <1>1, InvFacts DEF r, ListedOK, ReserveOK
<1>3. r1 = n
    BY <1>2 DEF withFunds, Reserve
<1>4. getNormalizedIncome(r, now) \in Nat \ {0} /\ r.variableBorrowIndex \in Nat
      /\ r.liquidity \in Nat
    BY <1>2, NormalizedIndexes, ReserveFields, ScalePositive
<1> HIDE DEF r, r1
<1>5. t \in BalancedToken
    BY <1>1, <1>2, <1>4, RoundedInNat, ReserveBooks, ScaledTokenType
<1> HIDE DEF t, n
<1>6. /\ ListedOK(n, now)
      /\ n.config = r.config /\ n.lastUpdateTimestamp = r.lastUpdateTimestamp
      /\ n.liquidityIndex = r.liquidityIndex
      /\ n.currentLiquidityRate = r.currentLiquidityRate
      /\ n.variableBorrowIndex = r.variableBorrowIndex
      /\ n.variableDebt = r.variableDebt /\ n.stableDebt = r.stableDebt
  <2>1. ListedOK(r, now) /\ now \in Nat /\ r.liquidity \in Nat /\ t \in BalancedToken
    BY <1>2, <1>4, <1>5
  <2>2. n = withFunds(r, r.liquidity, t)
    BY DEF n
  <2> QED BY ONLY <2>1, <2>2, MoveFunds
<1>7. getNormalizedIncome(n, now) = getNormalizedIncome(r, now)
    BY <1>6 DEF getNormalizedIncome
<1>8. Continues(r, n) /\ \A u \in Account : NoDebt(r, u) => NoDebt(n, u)
    BY <1>4, <1>6, <1>7 DEF Continues, NoDebt
<1>9. SameBorrowing(usersConfig')
  <2>1. SameBorrowing(usersConfig) /\ SameBorrowing(cfg1)
    BY SameConfiguration, CollateralChange
  <2> HIDE DEF cfg1
  <2>2. SameBorrowing(cfg2)
    BY <2>1, CollateralChange
  <2> HIDE DEF cfg2
  <2> QED BY <1>1, <2>1, <2>2
<1>10. FlagsFollow(asset, n)
    BY <1>8, <1>9 DEF FlagsFollow, SameBorrowing, r
<1>11. RestOK
    BY <1>1, <1>9, InvFacts DEF RestOK, IInv, FramesOK, SameBorrowing
<1> QED BY <1>1, <1>3, <1>8, <1>10, <1>11, ReserveStep DEF r

\* LendingPool.setUserUseReserveAsCollateral touches a collateral bit only.
LEMMA UseAsCollateralPreserves ==
    ASSUME IInv, NEW sender \in Account, NEW asset \in Asset, NEW use \in BOOLEAN,
           SetUserUseReserveAsCollateral(sender, asset, use)
    PROVE  Preserved
<1>1. /\ usersConfig' = withCollateral(usersConfig, sender, asset, use)
      /\ UNCHANGED <<reserves, reservesList, paused, borrowAllowance, wallet, price, now,
                     flashLoans>>
    BY DEF SetUserUseReserveAsCollateral, setUserConfig, withCollateral
<1>2. SameBorrowing(usersConfig')
    BY <1>1, SameConfiguration, CollateralChange
<1>3. TypeOK' /\ FramesOK'
    BY <1>1, <1>2 DEF IInv, TypeOK, FramesOK, SameBorrowing
<1> QED BY <1>1, <1>2, <1>3, OtherStep DEF SameBorrowing

\* DebtTokenBase.approveDelegation touches an allowance only.
LEMMA ApproveDelegationPreserves ==
    ASSUME IInv, NEW sender \in Account, NEW asset \in Asset, NEW m \in RateMode,
           NEW delegatee \in Account, NEW amount \in Nat,
           ApproveDelegation(sender, asset, m, delegatee, amount)
    PROVE  Preserved
<1>1. /\ borrowAllowance' = [borrowAllowance EXCEPT ![asset][m][sender][delegatee] = amount]
      /\ UNCHANGED <<reserves, reservesList, usersConfig, paused, wallet, price, now, flashLoans>>
    BY DEF ApproveDelegation
<1>2. borrowAllowance' \in [Asset -> [RateMode -> [Account -> [Account -> Nat]]]]
    BY <1>1, InvFacts, SMTT(30)
<1>3. TypeOK' /\ FramesOK'
    BY <1>1, <1>2 DEF IInv, TypeOK, FramesOK
<1> QED BY <1>1, <1>3, OtherStep

-----------------------------------------------------------------------------
(* Debts *)

\* A new debt comes with its flag: either it is the first of its mode and the flag
\* is set, or the debtor had one and the flag was.
LEMMA ExecuteBorrowPreserves ==
    ASSUME IInv, NEW asset \in reservesList, NEW user \in Account, NEW onBehalfOf \in Account,
           NEW amount \in Nat, NEW m \in RateMode, NEW release \in BOOLEAN,
           ExecuteBorrow(asset, user, onBehalfOf, amount, m, release),
           UNCHANGED <<reservesList, paused, price, now>>,
           flashLoans' \in Seq(FlashLoanFrame), FramesOK'
    PROVE  Preserved
<1> DEFINE r  == reserves[asset]
           f  == IF release THEN amount ELSE 0
           r1 == updateState(r, now)
           r2 == mintDebt(r1, onBehalfOf, amount, m)
           r3 == updateInterestRates(r2, 0, f, now)
           r4 == [r3 EXCEPT !.liquidity = @ - f]
           n  == withFunds(r3, r3.liquidity - f, r3.aToken)
           first == hasNoDebtOfMode(r1, onBehalfOf, m)
           cfg   == setBorrowing(usersConfig[onBehalfOf], asset, TRUE)
<1>1. /\ updateStateAccepted(r, now)
      /\ mintDebtAccepted(r1, amount, m)
      /\ updateInterestRatesAccepted(r2, 0, f)
      /\ spendBorrowAllowance(asset, m, onBehalfOf, user, amount)
      /\ wallet' = [wallet EXCEPT ![asset][user] = @ + f]
      /\ setReserve(asset, r4)
    BY DEF ExecuteBorrow, payOut
<1>2. IF first THEN usersConfig' = [usersConfig EXCEPT ![onBehalfOf] = cfg]
               ELSE usersConfig' = usersConfig
    BY DEF ExecuteBorrow, setUserConfig
<1>3. f \in Nat /\ asset \in Asset
    BY InvFacts
<1> HIDE DEF f, r1, r2, r3, r4, first, cfg, n
<1>4. ListedOK(r, now) /\ now \in Nat
    BY <1>1, InvFacts DEF r
<1> HIDE DEF r
<1>5. Accrued(r, r1) /\ r1.variableDebt = r.variableDebt /\ r1.stableDebt = r.stableDebt
    BY <1>1, <1>4, AccruedUpdateState DEF r1
<1>6. Accrued(r, r2) /\ \A v \in Account \ {onBehalfOf} : NoDebt(r1, v) => NoDebt(r2, v)
    BY <1>1, <1>4, <1>5, AccruedMintDebt DEF r2
<1>7. /\ Accrued(r, r3) /\ r3.variableDebt = r2.variableDebt /\ r3.stableDebt = r2.stableDebt
      /\ r3.liquidity + 0 - f \in Nat
  <2>1. /\ now \in Nat /\ Accrued(r, r2) /\ f \in Nat /\ 0 \in Nat
        /\ updateInterestRatesAccepted(r2, 0, f)
    BY <1>1, <1>3, <1>4, <1>6
  <2> QED BY <2>1, AccruedUpdateInterestRates DEF r3
<1>8. r3 \in Reserve /\ r3.liquidity \in Nat /\ r3.aToken \in BalancedToken
    BY <1>7, AccruedFields
<1>9. r3.liquidity - f \in Nat
    BY <1>3, <1>7, <1>8
<1>10. Accrued(r, n) /\ n.variableDebt = r2.variableDebt /\ n.stableDebt = r2.stableDebt
    BY <1>4, <1>7, <1>8, <1>9, AccruedMoveFunds, ZenonT(60) DEF n
<1>11. setReserve(asset, n)
    BY <1>1, <1>8 DEF withFunds, n, r4, Reserve
<1>12. NoDebt(r, onBehalfOf) => first
    BY <1>4, <1>5, AccruedFields, ReserveViews DEF first, hasNoDebtOfMode, NoDebt
<1>13. /\ usersConfig' \in [Account -> UserConfiguration]
       /\ \A u \in Account : usersConfig[u].borrowing \subseteq usersConfig'[u].borrowing
       /\ first => asset \in usersConfig'[onBehalfOf].borrowing
  <2>1. usersConfig \in [Account -> UserConfiguration]
    BY InvFacts
  <2>2. cfg \in UserConfiguration /\ cfg.borrowing = usersConfig[onBehalfOf].borrowing \cup {asset}
    BY <1>3, <2>1, ConfigurationKinds DEF cfg
  <2> QED BY <1>2, <2>1, <2>2
<1>14. \A u \in Account : NoDebt(r, u) => NoDebt(n, u) \/ u = onBehalfOf
    BY <1>5, <1>6, <1>10 DEF NoDebt
<1>15. FlagsFollow(asset, n)
    BY <1>12, <1>13, <1>14 DEF FlagsFollow, r
<1>16. RestOK
  <2>1. wallet' \in [Asset -> [Account -> Nat]]
    BY <1>1, <1>3, InvFacts
  <2>2. borrowAllowance' \in [Asset -> [RateMode -> [Account -> [Account -> Nat]]]]
    <3>1. borrowAllowance \in [Asset -> [RateMode -> [Account -> [Account -> Nat]]]]
      BY InvFacts
    <3> DEFINE left == borrowAllowance[asset][m][onBehalfOf][user] - amount
    <3>2. CASE onBehalfOf = user
      BY <1>1, <3>1, <3>2 DEF spendBorrowAllowance
    <3>3. CASE onBehalfOf # user
      <4>1. left \in Nat
        BY <1>1, <1>3, <3>1, <3>3 DEF spendBorrowAllowance
      <4>2. borrowAllowance' = [borrowAllowance EXCEPT ![asset][m][onBehalfOf][user] = left]
        BY <1>1, <3>3 DEF spendBorrowAllowance
      <4> HIDE DEF left
      <4> QED BY <1>3, <3>1, <4>1, <4>2
    <3> QED BY <3>2, <3>3
  <2> QED BY <1>13, <2>1, <2>2 DEF RestOK
<1> QED BY <1>10, <1>11, <1>15, <1>16, AccruedContinues, ReserveStep DEF r

\* LendingPool.borrow: the one debtor it makes has its borrowing bit set.
LEMMA BorrowPreserves ==
    ASSUME IInv, NEW sender \in Account, NEW asset \in Asset, NEW amount \in Nat,
           NEW m \in RateMode, NEW onBehalfOf \in Account,
           Borrow(sender, asset, amount, m, onBehalfOf)
    PROVE  Preserved
<1>1. /\ asset \in reservesList
      /\ ExecuteBorrow(asset, sender, onBehalfOf, amount, m, TRUE)
      /\ UNCHANGED <<reservesList, paused, price, now>> /\ UNCHANGED flashLoans
    BY DEF Borrow, Listed
<1>2. flashLoans' \in Seq(FlashLoanFrame) /\ FramesOK'
    BY <1>1, InvFacts DEF IInv, FramesOK
<1> QED BY <1>1, <1>2, ExecuteBorrowPreserves

\* The views of a debt are natural numbers, and zero for who owes nothing.
LEMMA DebtViews ==
    ASSUME IInv, NEW asset \in reservesList, NEW u \in Account
    PROVE  /\ debtOfMode(asset, u, STABLE) \in Nat /\ debtOfMode(asset, u, VARIABLE_RATE) \in Nat
           /\ debtOfMode(asset, u, STABLE) = stableDebtBalanceOf(reserves[asset], u, now)
           /\ debtOfMode(asset, u, VARIABLE_RATE) = variableDebtBalanceOf(reserves[asset], u, now)
           /\ debtOfMode(asset, u, VARIABLE_RATE)
                = rayMul(reserves[asset].variableDebt.balance[u], getNormalizedDebt(reserves[asset], now))
           /\ debtOfMode(asset, u, STABLE) = 0 <=> reserves[asset].stableDebt.balance[u] = 0
           /\ debtOfMode(asset, u, VARIABLE_RATE) = 0
                <=> reserves[asset].variableDebt.balance[u] = 0
           /\ debtOf(asset, u) \in Nat
<1>1. STABLE # VARIABLE_RATE
    BY DEF STABLE, VARIABLE_RATE
<1>2. ListedOK(reserves[asset], now) /\ now \in Nat
    BY InvFacts
<1>3. /\ debtOfMode(asset, u, STABLE) = stableDebtBalanceOf(reserves[asset], u, now)
      /\ debtOfMode(asset, u, VARIABLE_RATE) = variableDebtBalanceOf(reserves[asset], u, now)
    BY <1>1 DEF debtOfMode
<1>4. variableDebtBalanceOf(reserves[asset], u, now)
        = rayMul(reserves[asset].variableDebt.balance[u], getNormalizedDebt(reserves[asset], now))
    BY DEF variableDebtBalanceOf, balanceOf
<1>5. debtOfMode(asset, u, STABLE) \in Nat /\ debtOfMode(asset, u, VARIABLE_RATE) \in Nat
    BY <1>2, <1>3, ReserveViews
<1>6. debtOf(asset, u) \in Nat
    BY <1>5 DEF debtOf
<1> QED BY <1>2, <1>3, <1>4, <1>5, <1>6, ReserveViews

\* The flag is cleared only when both kinds of debt are shown as zero, and they are
\* not shown as zero while any scaled debt is left.
LEMMA RepayPreserves ==
    ASSUME IInv, NEW sender \in Account, NEW asset \in Asset, NEW amount \in Nat,
           NEW m \in RateMode, NEW onBehalfOf \in Account,
           Repay(sender, asset, amount, m, onBehalfOf)
    PROVE  Preserved
<1> DEFINE r  == reserves[asset]
           p  == paybackAmount(asset, amount, m, onBehalfOf)
           r1 == updateState(r, now)
           r2 == burnDebt(r1, onBehalfOf, p, m)
           r3 == updateInterestRates(r2, p, 0, now)
           r4 == [r3 EXCEPT !.liquidity = @ + p]
           n  == withFunds(r3, r3.liquidity + p, r3.aToken)
           full == isRepaidInFull(asset, onBehalfOf, p)
           cfg  == setBorrowing(usersConfig[onBehalfOf], asset, FALSE)
<1>1. /\ asset \in reservesList
      /\ updateStateAccepted(r, now)
      /\ burnDebtAccepted(r1, onBehalfOf, p, m)
      /\ updateInterestRatesAccepted(r2, p, 0)
      /\ p <= wallet[asset][sender]
      /\ wallet' = [wallet EXCEPT ![asset][sender] = @ - p]
      /\ setReserve(asset, r4)
      /\ UNCHANGED <<reservesList, paused, borrowAllowance, price, now, flashLoans>>
    BY DEF Repay, RepayAccepted, Listed, payIn
<1>2. IF full THEN usersConfig' = [usersConfig EXCEPT ![onBehalfOf] = cfg]
              ELSE usersConfig' = usersConfig
    BY DEF Repay, setUserConfig
<1> HIDE DEF p, r1, r2, r3, r4, full, cfg, n
<1>3. ListedOK(r, now) /\ now \in Nat
    BY <1>1, InvFacts DEF r
<1> HIDE DEF r
<1>4. /\ p \in Nat /\ p <= debtOfMode(asset, onBehalfOf, m)
      /\ debtOfMode(asset, onBehalfOf, m) \in Nat
  <2>1. debtOfMode(asset, onBehalfOf, m) \in Nat
    BY <1>1, DebtViews DEF RateMode
  <2> QED BY <2>1 DEF p, paybackAmount
<1>5. /\ Accrued(r, r1) /\ r1.variableDebt = r.variableDebt /\ r1.stableDebt = r.stableDebt
      /\ r1.variableBorrowIndex <= getNormalizedDebt(r, now)
    BY <1>1, <1>3, AccruedUpdateState DEF r1
<1>6. Accrued(r, r2) /\ \A v \in Account : NoDebt(r1, v) => NoDebt(r2, v)
    BY <1>1, <1>3, <1>4, <1>5, AccruedBurnDebt DEF r2
<1>7. full => NoDebt(r2, onBehalfOf)
  <2> SUFFICES ASSUME full PROVE NoDebt(r2, onBehalfOf)
    OBVIOUS
  <2> DEFINE s == debtOfMode(asset, onBehalfOf, STABLE)
             v == debtOfMode(asset, onBehalfOf, VARIABLE_RATE)
  <2>1. s \in Nat /\ v \in Nat
    BY <1>1, DebtViews
  <2>2. s + v - p = 0
    BY <1>4, <2>1 DEF full, isRepaidInFull, debtOf
  <2>3. /\ m = STABLE => p = s /\ v = 0
        /\ m # STABLE => p = v /\ s = 0
    BY <1>4, <2>1, <2>2 DEF RateMode
  <2>4. /\ s = 0 => r1.stableDebt.balance[onBehalfOf] = 0
        /\ v = 0 => r1.variableDebt.balance[onBehalfOf] = 0
        /\ s = stableDebtBalanceOf(r1, onBehalfOf, now)
        /\ v = rayMul(r1.variableDebt.balance[onBehalfOf], getNormalizedDebt(r, now))
    BY <1>1, <1>5, DebtViews DEF r, stableDebtBalanceOf
  <2> HIDE DEF s, v
  <2>5. /\ r1.stableDebt.balance[onBehalfOf] = 0 => r2.stableDebt.balance[onBehalfOf] = 0
        /\ r1.variableDebt.balance[onBehalfOf] = 0 => r2.variableDebt.balance[onBehalfOf] = 0
        /\ m = STABLE /\ p = stableDebtBalanceOf(r1, onBehalfOf, now)
             => r2.stableDebt.balance[onBehalfOf] = 0
        /\ \A i \in Nat : m # STABLE /\ i >= r1.variableBorrowIndex
                          /\ p = rayMul(r1.variableDebt.balance[onBehalfOf], i)
             => r2.variableDebt.balance[onBehalfOf] = 0
    BY <1>1, <1>3, <1>4, <1>5, AccruedFields, BurnDebt DEF r2, Accrued
  <2>6. getNormalizedDebt(r, now) \in Nat /\ getNormalizedDebt(r, now) >= r1.variableBorrowIndex
    BY <1>3, <1>5, AccruedFields, NormalizedIndexes
  <2> QED BY <2>3, <2>4, <2>5, <2>6 DEF NoDebt
<1>8. /\ Accrued(r, r3) /\ r3.variableDebt = r2.variableDebt /\ r3.stableDebt = r2.stableDebt
  <2>1. /\ now \in Nat /\ Accrued(r, r2) /\ p \in Nat /\ 0 \in Nat
        /\ updateInterestRatesAccepted(r2, p, 0)
    BY <1>1, <1>3, <1>4, <1>6
  <2> QED BY <2>1, AccruedUpdateInterestRates DEF r3
<1>9. r3 \in Reserve /\ r3.liquidity \in Nat /\ r3.aToken \in BalancedToken /\ r3.liquidity + p \in Nat
  <2>1. r3 \in Reserve /\ r3.liquidity \in Nat /\ r3.aToken \in BalancedToken
    BY <1>8, AccruedFields
  <2> QED BY <1>4, <2>1
<1>10. Accrued(r, n) /\ n.variableDebt = r2.variableDebt /\ n.stableDebt = r2.stableDebt
    BY <1>3, <1>8, <1>9, AccruedMoveFunds DEF n
<1>11. setReserve(asset, n)
    BY <1>1, <1>9 DEF withFunds, n, r4, Reserve
<1>12. \A u \in Account : NoDebt(r, u) => NoDebt(n, u)
    BY <1>5, <1>6, <1>10 DEF NoDebt
<1>13. /\ usersConfig' \in [Account -> UserConfiguration]
       /\ \A u \in Account : \A b \in usersConfig[u].borrowing :
             b \in usersConfig'[u].borrowing \/ (full /\ u = onBehalfOf /\ b = asset)
  <2>1. usersConfig \in [Account -> UserConfiguration]
    BY InvFacts
  <2>2. cfg \in UserConfiguration /\ cfg.borrowing = usersConfig[onBehalfOf].borrowing \ {asset}
    BY <2>1, ConfigurationKinds DEF cfg
  <2> QED BY <1>2, <2>1, <2>2
<1>14. NoDebt(r2, onBehalfOf) => NoDebt(n, onBehalfOf)
    BY <1>10 DEF NoDebt
<1>15. FlagsFollow(asset, n)
    BY <1>7, <1>12, <1>13, <1>14 DEF FlagsFollow, r
<1>16. RestOK
    BY <1>1, <1>4, <1>13, InvFacts DEF RestOK, IInv, FramesOK
<1> QED BY <1>1, <1>10, <1>11, <1>15, <1>16, AccruedContinues, ReserveStep DEF r

\* A burn and a mint of the same account, which owes something and so is flagged.
LEMMA RewriteDebt ==
    ASSUME IInv, NEW asset \in reservesList, NEW u \in Account, NEW debt \in Nat,
           NEW m \in RateMode, NEW q \in RateMode,
           updateStateAccepted(reserves[asset], now), ~NoDebt(reserves[asset], u),
           burnDebtAccepted(updateState(reserves[asset], now), u, debt, m),
           mintDebtAccepted(burnDebt(updateState(reserves[asset], now), u, debt, m), debt, q),
           updateInterestRatesAccepted(
               mintDebt(burnDebt(updateState(reserves[asset], now), u, debt, m), u, debt, q), 0, 0),
           setReserve(asset, updateInterestRates(
               mintDebt(burnDebt(updateState(reserves[asset], now), u, debt, m), u, debt, q),
               0, 0, now)),
           UNCHANGED <<reservesList, usersConfig, paused, borrowAllowance, wallet, price, now,
                       flashLoans>>
    PROVE  Preserved
<1> DEFINE r  == reserves[asset]
           r1 == updateState(r, now)
           r2 == burnDebt(r1, u, debt, m)
           r3 == mintDebt(r2, u, debt, q)
           r4 == updateInterestRates(r3, 0, 0, now)
<1>1. /\ updateStateAccepted(r, now) /\ ~NoDebt(r, u)
      /\ burnDebtAccepted(r1, u, debt, m) /\ mintDebtAccepted(r2, debt, q)
      /\ updateInterestRatesAccepted(r3, 0, 0)
      /\ setReserve(asset, r4)
    OBVIOUS
<1> HIDE DEF r1, r2, r3, r4
<1>2. ListedOK(r, now) /\ now \in Nat /\ 0 \in Nat
    BY InvFacts
<1> HIDE DEF r
<1>3. Accrued(r, r1) /\ r1.variableDebt = r.variableDebt /\ r1.stableDebt = r.stableDebt
    BY <1>1, <1>2, AccruedUpdateState DEF r1
<1>4. Accrued(r, r2) /\ \A v \in Account : NoDebt(r1, v) => NoDebt(r2, v)
    BY <1>1, <1>2, <1>3, AccruedBurnDebt DEF r2
<1>5. Accrued(r, r3) /\ \A v \in Account \ {u} : NoDebt(r2, v) => NoDebt(r3, v)
    BY <1>1, <1>2, <1>4, AccruedMintDebt DEF r3
<1>6. Accrued(r, r4) /\ r4.variableDebt = r3.variableDebt /\ r4.stableDebt = r3.stableDebt
    BY <1>1, <1>2, <1>5, AccruedUpdateInterestRates DEF r4
<1>7. \A v \in Account : NoDebt(r, v) => NoDebt(r4, v)
    BY <1>1, <1>3, <1>4, <1>5, <1>6 DEF NoDebt
<1>8. FlagsFollow(asset, r4)
    BY <1>7 DEF FlagsFollow, r
<1>9. RestOK
    BY InvFacts DEF RestOK, IInv, FramesOK
<1> QED BY <1>1, <1>6, <1>8, <1>9, AccruedContinues, ReserveStep DEF r

\* LendingPool.swapBorrowRateMode: the user had a debt, so its bit is set already.
LEMMA SwapBorrowRateModePreserves ==
    ASSUME IInv, NEW sender \in Account, NEW asset \in Asset, NEW m \in RateMode,
           SwapBorrowRateMode(sender, asset, m)
    PROVE  Preserved
<1> DEFINE debt == IF m = STABLE THEN stableDebtBalanceOf(reserves[asset], sender, now)
                                 ELSE variableDebtBalanceOf(reserves[asset], sender, now)
           r1 == updateState(reserves[asset], now)
           r2 == burnDebt(r1, sender, debt, m)
           r3 == mintDebt(r2, sender, debt, otherMode(m))
<1>1. /\ asset \in reservesList /\ debt > 0
      /\ updateStateAccepted(reserves[asset], now)
      /\ burnDebtAccepted(r1, sender, debt, m)
      /\ mintDebtAccepted(r2, debt, otherMode(m))
      /\ updateInterestRatesAccepted(r3, 0, 0)
      /\ setReserve(asset, updateInterestRates(r3, 0, 0, now))
      /\ UNCHANGED <<reservesList, usersConfig, paused, borrowAllowance, wallet, price, now,
                     flashLoans>>
    BY DEF SwapBorrowRateMode, validateSwapRateMode, Listed
<1>2. otherMode(m) \in RateMode
    BY DEF otherMode, RateMode
<1>3. debt \in Nat /\ ~NoDebt(reserves[asset], sender)
    BY <1>1, DebtViews DEF NoDebt
<1> HIDE DEF debt
<1> QED BY <1>1, <1>2, <1>3, RewriteDebt

\* LendingPool.rebalanceStableBorrowRate: as for a swap.
LEMMA RebalancePreserves ==
    ASSUME IInv, NEW sender \in Account, NEW asset \in Asset, NEW user \in Account,
           RebalanceStableBorrowRate(sender, asset, user)
    PROVE  Preserved
<1> DEFINE debt == stableDebtBalanceOf(reserves[asset], user, now)
           r1 == updateState(reserves[asset], now)
           r2 == burnDebt(r1, user, debt, STABLE)
           r3 == mintDebt(r2, user, debt, STABLE)
<1>1. /\ asset \in reservesList /\ debt # 0
      /\ updateStateAccepted(reserves[asset], now)
      /\ updateInterestRatesAccepted(r3, 0, 0)
      /\ setReserve(asset, updateInterestRates(r3, 0, 0, now))
      /\ UNCHANGED <<reservesList, usersConfig, paused, borrowAllowance, wallet, price, now,
                     flashLoans>>
    BY DEF RebalanceStableBorrowRate, mintStableAccepted, Listed
<1>2. STABLE \in RateMode
    BY DEF RateMode
<1>3. debt \in Nat /\ ~NoDebt(reserves[asset], user)
    BY <1>1, DebtViews DEF NoDebt
<1>4. mintDebtAccepted(r2, debt, STABLE)
    BY <1>1 DEF mintDebtAccepted, mintStableAccepted
<1>5. burnDebtAccepted(r1, user, debt, STABLE)
  <2>1. r1.stableDebt = reserves[asset].stableDebt
    BY <1>1, InvFacts, AccruedUpdateState
  <2>2. debt = stableBalanceOf(r1.stableDebt, user, now)
    BY <2>1 DEF stableDebtBalanceOf
  <2> HIDE DEF debt, r1
  <2> QED BY <1>3, <2>2 DEF burnDebtAccepted, burnStableAccepted
<1> HIDE DEF debt
<1> QED BY <1>1, <1>2, <1>3, <1>4, <1>5, RewriteDebt

-----------------------------------------------------------------------------
(* Liquidation *)

\* The reserves after some calls of an operation on listed reserves.
Evolved(rs) ==
    /\ rs \in [Asset -> Reserve]
    /\ \A a \in reservesList : Continues(reserves[a], rs[a])
    /\ \A a \in Asset \ reservesList : rs[a] = reserves[a]
    /\ \A a \in Asset, u \in Account : NoDebt(reserves[a], u) => NoDebt(rs[a], u)

withReserve(rs, a, n) == [rs EXCEPT ![a] = n]

\* The type of what two successive records of a reserve are compared by.
LEMMA ContinuesFacts ==
    ASSUME IInv, NEW r, NEW n, ListedOK(r, now), Continues(r, n)
    PROVE  /\ r \in Reserve /\ n \in Reserve /\ ListedOK(n, now)
           /\ getNormalizedIncome(r, now) \in Nat /\ getNormalizedIncome(n, now) \in Nat
           /\ r.variableBorrowIndex \in Nat /\ n.variableBorrowIndex \in Nat
BY InvFacts, NormalizedIndexes, ReserveFields DEF Continues, ListedOK, ReserveOK

\* The reserves as they are have evolved from themselves.
LEMMA EvolvedStart ==
    ASSUME IInv
    PROVE  Evolved(reserves)
<1> SUFFICES ASSUME NEW a \in reservesList PROVE Continues(reserves[a], reserves[a])
    BY InvFacts DEF Evolved
<1>1. ListedOK(reserves[a], now) /\ now \in Nat
    BY InvFacts
<1>2. getNormalizedIncome(reserves[a], now) \in Nat /\ reserves[a].variableBorrowIndex \in Nat
    BY <1>1, NormalizedIndexes, ReserveFields DEF ListedOK, ReserveOK
<1> QED BY <1>1, <1>2 DEF Continues

\* Replacing one listed reserve by a continuation of it evolves the reserves.
LEMMA EvolvedChange ==
    ASSUME IInv, NEW rs, Evolved(rs), NEW a \in reservesList, NEW n, Continues(rs[a], n),
           \A u \in Account : NoDebt(rs[a], u) => NoDebt(n, u)
    PROVE  Evolved(withReserve(rs, a, n))
<1>1. /\ rs \in [Asset -> Reserve] /\ a \in Asset
      /\ ListedOK(reserves[a], now) /\ Continues(reserves[a], rs[a])
    BY InvFacts DEF Evolved
<1>2. ListedOK(rs[a], now)
    BY <1>1, ContinuesFacts
<1>3. n \in Reserve
    BY <1>2, ContinuesFacts
<1>4. Continues(reserves[a], n)
  <2>1. /\ getNormalizedIncome(reserves[a], now) \in Nat /\ getNormalizedIncome(rs[a], now) \in Nat
        /\ getNormalizedIncome(n, now) \in Nat
        /\ reserves[a].variableBorrowIndex \in Nat /\ rs[a].variableBorrowIndex \in Nat
        /\ n.variableBorrowIndex \in Nat
    BY <1>1, <1>2, ContinuesFacts
  <2> QED BY <1>1, <2>1 DEF Continues
<1> QED BY <1>1, <1>3, <1>4 DEF Evolved, withReserve

\* A step to evolved reserves that keeps the borrowing bits preserves the invariant.
LEMMA EvolvedStep ==
    ASSUME IInv, NEW rs, Evolved(rs), reserves' = rs, RestOK, SameBorrowing(usersConfig')
    PROVE  Preserved
<1>1. now' = now /\ reservesList' = reservesList
    BY DEF RestOK
<1>2. TypeOK'
    BY DEF IInv, TypeOK, RestOK, Evolved
<1>3. ReservesOK'
  <2> SUFFICES ASSUME NEW b \in Asset
               PROVE  /\ ReserveOK(rs[b], now)
                      /\ b \in reservesList => ListedOK(rs[b], now)
                      /\ BonusWithThreshold(rs[b].config)
    BY <1>1 DEF ReservesOK
  <2>1. CASE b \in reservesList
    BY <2>1 DEF Evolved, Continues, ListedOK, IInv, ReservesOK, BonusWithThreshold
  <2>2. CASE b \notin reservesList
    BY <2>2 DEF Evolved, IInv, ReservesOK
  <2> QED BY <2>1, <2>2
<1>4. DebtImpliesBorrowingFlag'
  <2> SUFFICES ASSUME NEW b \in Asset, NEW u \in Account, ~NoDebt(rs[b], u)
               PROVE  b \in usersConfig'[u].borrowing
    BY DEF DebtImpliesBorrowingFlag, NoDebt
  <2>1. ~NoDebt(reserves[b], u)
    BY DEF Evolved
  <2> QED BY <2>1 DEF IInv, DebtImpliesBorrowingFlag, NoDebt, SameBorrowing
<1>5. IndexStep
    BY <1>1, InvFacts DEF IndexStep, Evolved, Continues
<1>6. FactorStep
    BY DEF FactorStep, Evolved, Continues
<1> QED BY <1>2, <1>3, <1>4, <1>5, <1>6 DEF Preserved, IInv, RestOK

\* A product of positive numbers is positive.
LEMMA ProductPositive ==
    ASSUME NEW a \in Nat \ {0}, NEW b \in Nat \ {0}
    PROVE  a * b \in Nat \ {0}
<1>1. a * b >= b
    OBVIOUS
<1> QED BY <1>1

\* A part of nothing is nothing, also when it is rounded half up.
LEMMA PercentOfNothing ==
    ASSUME NEW b \in Nat
    PROVE  percentMul(0, b) = 0
BY ScalePositive DEF percentMul

\* Collateral falls short only of a debt that is worth something.
LEMMA ShortOfWorth ==
    ASSUME NEW p \in Nat, NEW x \in Nat, NEW y \in Nat, NEW bonus \in Nat, NEW n \in Nat \ {0},
           NEW balance \in Nat, percentMul(p * x * y, bonus) \div n > balance
    PROVE  p \in Nat \ {0}
<1> SUFFICES ASSUME p = 0 PROVE FALSE
    OBVIOUS
<1>1. p * x * y = 0
    OBVIOUS
<1>2. percentMul(0, bonus) = 0
    BY PercentOfNothing
<1>3. percentMul(p * x * y, bonus) \div n = 0
  <2>1. 0 \div n = 0
    OBVIOUS
  <2> QED BY <1>1, <1>2, <2>1
<1> QED BY <1>3

\* No term of a liquidation is negative, and none divides by zero.
LEMMA LiquidationTermsType ==
    ASSUME IInv, NEW c \in reservesList, NEW d \in reservesList, NEW user \in Account,
           NEW debtToCover \in Nat, priceUsable(c),
           reserves[c].config.liquidationThreshold > 0
    PROVE  LET terms == liquidationTerms(c, d, user, debtToCover)
           IN  terms.seized \in Nat /\ terms.repaid \in Nat /\ terms.variableDebt \in Nat
<1> DEFINE balance == aTokenBalanceOf(reserves[c], user, now)
           actual  == actualDebtToLiquidate(debtToCover, debtOf(d, user))
           bonus   == reserves[c].config.liquidationBonus
           cUnit   == reserves[c].config.unit
           dUnit   == reserves[d].config.unit
           available == calculateAvailableCollateralToLiquidate(c, d, actual, balance)
<1>1. /\ price[c] \in Nat \ {0} /\ price[d] \in Nat
      /\ cUnit \in Nat \ {0} /\ dUnit \in Nat \ {0} /\ bonus \in Nat \ {0}
  <2>1. c \in Asset /\ d \in Asset
    BY InvFacts
  <2>2. reserves[c].config \in Configuration /\ reserves[d].config \in Configuration
    BY <2>1, InvFacts, ReserveFields
  <2>3. bonus # 0
    BY <2>1, <2>2, ScalePositive DEF IInv, ReservesOK, BonusWithThreshold, Configuration
  <2>4. cUnit \in Nat \ {0} /\ dUnit \in Nat \ {0} /\ bonus \in Nat
    BY <2>2 DEF Configuration
  <2>5. price[c] \in Nat \ {0} /\ price[d] \in Nat
    <3>1. price[c] \in Nat /\ price[d] \in Nat
      BY <2>1, InvFacts
    <3> QED BY <3>1 DEF priceUsable
  <2> HIDE DEF bonus, cUnit, dUnit
  <2> QED BY <2>3, <2>4, <2>5
<1>2. balance \in Nat
    BY InvFacts, ReserveViews
<1>3. actual \in Nat
  <2>1. debtOf(d, user) \in Nat
    BY DebtViews
  <2>2. percentMul(debtOf(d, user), LIQUIDATION_CLOSE_FACTOR_PERCENT) \in Nat
    BY <2>1, RoundedInNat, PoolConstantsAssumption
  <2> QED BY <2>2 DEF actualDebtToLiquidate
<1> DEFINE maxCollateral == percentMul(price[d] * actual * cUnit, bonus) \div (price[c] * dUnit)
           debtNeeded == percentDiv((price[c] * balance * dUnit) \div (price[d] * cUnit), bonus)
<1>4. available = IF maxCollateral > balance
                  THEN [collateral |-> balance, debt |-> debtNeeded]
                  ELSE [collateral |-> maxCollateral, debt |-> actual]
    BY DEF calculateAvailableCollateralToLiquidate
<1>5. /\ liquidationTerms(c, d, user, debtToCover).seized = available.collateral
      /\ liquidationTerms(c, d, user, debtToCover).repaid =
            (IF available.debt < actual THEN available.debt ELSE actual)
      /\ liquidationTerms(c, d, user, debtToCover).variableDebt = debtOfMode(d, user, VARIABLE_RATE)
    BY DEF liquidationTerms
<1> HIDE DEF balance, actual, bonus, cUnit, dUnit, available
<1>6. price[c] * dUnit \in Nat \ {0}
    BY <1>1, ProductPositive
<1>7. maxCollateral \in Nat
  <2>1. price[d] * actual * cUnit \in Nat
    BY <1>1, <1>3
  <2>2. percentMul(price[d] * actual * cUnit, bonus) \in Nat
    BY <1>1, <2>1, RoundedInNat
  <2> QED BY <1>6, <2>2, DivProp
<1>8. ASSUME maxCollateral > balance PROVE debtNeeded \in Nat
  <2>0. price[d] * cUnit \in Nat \ {0}
    <3>1. price[d] \in Nat \ {0}
      BY <1>1, <1>2, <1>3, <1>6, <1>8, ShortOfWorth
    <3> QED BY <1>1, <3>1, ProductPositive
  <2>1. price[c] * balance * dUnit \in Nat
    BY <1>1, <1>2
  <2>2. (price[c] * balance * dUnit) \div (price[d] * cUnit) \in Nat
    BY <2>0, <2>1, DivProp
  <2> QED BY <1>1, <2>2, RoundedInNat
<1> HIDE DEF maxCollateral, debtNeeded
<1>9. available.collateral \in Nat /\ available.debt \in Nat
    BY <1>2, <1>3, <1>4, <1>7, <1>8
<1> QED BY <1>3, <1>5, <1>9, DebtViews

\* The burn of a liquidated debt makes no debtor.
LEMMA AccruedBurnLiquidated ==
    ASSUME NEW r, NEW n, now \in Nat, Accrued(r, n), NEW u \in Account, NEW amount \in Nat,
           NEW owed \in Nat, burnLiquidatedAccepted(n, u, amount, owed)
    PROVE  LET q == burnLiquidated(n, u, amount, owed)
           IN  /\ Accrued(r, q)
               /\ q.liquidity = n.liquidity
               /\ \A v \in Account : NoDebt(n, v) => NoDebt(q, v)
<1>1. STABLE \in RateMode /\ VARIABLE_RATE \in RateMode /\ STABLE # VARIABLE_RATE
    BY DEF RateMode, STABLE, VARIABLE_RATE
<1>2. CASE owed >= amount
  <2>1. burnLiquidated(n, u, amount, owed) = burnDebt(n, u, amount, VARIABLE_RATE)
    BY <1>2 DEF burnLiquidated
  <2>2. burnDebtAccepted(n, u, amount, VARIABLE_RATE)
    BY <1>2 DEF burnLiquidatedAccepted
  <2> QED BY <1>1, <2>1, <2>2, AccruedBurnDebt
<1>3. CASE ~(owed >= amount)
  <2> DEFINE k == IF owed > 0 THEN burnDebt(n, u, owed, VARIABLE_RATE) ELSE n
             rest == amount - owed
  <2>1. burnLiquidated(n, u, amount, owed) = burnDebt(k, u, rest, STABLE)
    BY <1>3 DEF burnLiquidated
  <2>2. /\ owed > 0 => burnDebtAccepted(n, u, owed, VARIABLE_RATE)
        /\ burnStableAccepted(n.stableDebt, u, rest, now)
    BY <1>3 DEF burnLiquidatedAccepted
  <2>3. rest \in Nat
    BY <1>3
  <2>4. k.stableDebt = n.stableDebt
    <3>1. n \in Reserve
      BY AccruedFields
    <3> QED BY <1>1, <3>1 DEF burnDebt, Reserve
  <2>5. /\ Accrued(r, k) /\ k.liquidity = n.liquidity
        /\ \A v \in Account : NoDebt(n, v) => NoDebt(k, v)
    BY <1>1, <2>2, AccruedBurnDebt
  <2> HIDE DEF k, rest
  <2>6. burnDebtAccepted(k, u, rest, STABLE)
    BY <2>2, <2>4 DEF burnDebtAccepted
  <2> QED BY <1>1, <2>1, <2>3, <2>5, <2>6, AccruedBurnDebt
<1> QED BY <1>2, <1>3

\* The collateral reserve as the seizure leaves it.
LEMMA SeizurePreserves ==
    ASSUME IInv, NEW c, ListedOK(c, now), NEW liquidator \in Account, NEW user \in Account,
           NEW seized \in Nat, NEW asATokens \in BOOLEAN,
           seizureAccepted(c, user, seized, asATokens)
    PROVE  LET n == IF asATokens THEN seizeATokens(c, liquidator, user, seized)
                                 ELSE seizeFunds(c, user, seized)
           IN  Continues(c, n) /\ \A u \in Account : NoDebt(c, u) => NoDebt(n, u)
<1>1. now \in Nat /\ c \in Reserve
    BY InvFacts DEF ListedOK, ReserveOK
<1>2. CASE asATokens
  <2> DEFINE scaled == rayDiv(seized, getNormalizedIncome(c, now))
             t == transferScaled(c.aToken, user, liquidator, scaled)
             n == withFunds(c, c.liquidity, t)
  <2>1. /\ seizeATokens(c, liquidator, user, seized) = [c EXCEPT !.aToken = t]
        /\ transferScaledAccepted(c.aToken, user, scaled)
    BY <1>2 DEF seizeATokens, seizureAccepted
  <2>2. [c EXCEPT !.aToken = t] = n
    BY <1>1 DEF withFunds, Reserve
  <2>3. /\ getNormalizedIncome(c, now) \in Nat \ {0} /\ c.variableBorrowIndex \in Nat
        /\ c.liquidity \in Nat /\ c.aToken \in BalancedToken
    BY <1>1, NormalizedIndexes, ReserveFields, ReserveBooks, ScalePositive
  <2>4. scaled \in Nat
    BY <2>3, RoundedInNat
  <2> HIDE DEF scaled
  <2>5. t \in BalancedToken
    BY <2>1, <2>3, <2>4, ScaledTokenType
  <2> HIDE DEF t, n
  <2>6. /\ ListedOK(n, now)
        /\ n.config = c.config /\ n.lastUpdateTimestamp = c.lastUpdateTimestamp
        /\ n.liquidityIndex = c.liquidityIndex
        /\ n.currentLiquidityRate = c.currentLiquidityRate
        /\ n.variableBorrowIndex = c.variableBorrowIndex
        /\ n.variableDebt = c.variableDebt /\ n.stableDebt = c.stableDebt
    <3>1. now \in Nat /\ ListedOK(c, now) /\ c.liquidity \in Nat /\ t \in BalancedToken
      BY <1>1, <2>3, <2>5
    <3> QED BY <3>1, MoveFunds DEF n
  <2>7. getNormalizedIncome(n, now) = getNormalizedIncome(c, now)
    BY <2>6 DEF getNormalizedIncome
  <2> QED BY <1>2, <2>1, <2>2, <2>3, <2>6, <2>7 DEF Continues, NoDebt
<1>3. CASE ~asATokens
  <2> DEFINE c1 == updateState(c, now)
             c2 == updateInterestRates(c1, 0, seized, now)
             t  == burn(c2.aToken, user, seized, c2.liquidityIndex)
             n  == withFunds(c2, c2.liquidity - seized, t)
  <2>1. /\ seizeFunds(c, user, seized) = n
        /\ updateStateAccepted(c, now) /\ updateInterestRatesAccepted(c1, 0, seized)
        /\ burnAccepted(c1.aToken, user, seized, c1.liquidityIndex)
    BY <1>3 DEF seizeFunds, seizureAccepted, withFunds
  <2> HIDE DEF c1, c2, t, n
  <2>2. Accrued(c, c1) /\ c1.variableDebt = c.variableDebt /\ c1.stableDebt = c.stableDebt
    BY <1>1, <2>1, AccruedUpdateState DEF c1
  <2>3. /\ Accrued(c, c2) /\ c2.variableDebt = c.variableDebt /\ c2.stableDebt = c.stableDebt
        /\ c2.aToken = c1.aToken /\ c2.liquidity + 0 - seized \in Nat
    BY <1>1, <2>1, <2>2, AccruedUpdateInterestRates DEF c2
  <2>4. c2.liquidityIndex = c1.liquidityIndex
    BY <1>1, <2>1, <2>2, UpdateInterestRates DEF c2, Accrued
  <2>5. t \in BalancedToken
    BY <2>1, <2>3, <2>4, AccruedFields, TokenOperationsType DEF t
  <2>6. c2.liquidity - seized \in Nat
    <3>1. c2.liquidity \in Nat
      BY <2>3, AccruedFields
    <3> QED BY <2>3, <3>1
  <2>7. Accrued(c, n) /\ n.variableDebt = c.variableDebt /\ n.stableDebt = c.stableDebt
    BY <1>1, <2>3, <2>5, <2>6, AccruedMoveFunds DEF n
  <2> QED BY <1>3, <2>1, <2>7, AccruedContinues DEF NoDebt
<1> QED BY <1>2, <1>3

\* LendingPoolCollateralManager.liquidationCall, for two reserves or one.
LEMMA LiquidationCallPreserves ==
    ASSUME IInv, NEW liquidator \in Account, NEW collateralAsset \in Asset,
           NEW debtAsset \in Asset, NEW user \in Account, NEW debtToCover \in Nat,
           NEW asATokens \in BOOLEAN,
           LiquidationCall(liquidator, collateralAsset, debtAsset, user, debtToCover, asATokens)
    PROVE  Preserved
<1> DEFINE terms == liquidationTerms(collateralAsset, debtAsset, user, debtToCover)
           d   == reserves[debtAsset]
           d1  == updateState(d, now)
           d2  == burnLiquidated(d1, user, terms.repaid, terms.variableDebt)
           d3  == updateInterestRates(d2, terms.repaid, 0, now)
           rs1 == withReserve(reserves, debtAsset, d3)
           c   == rs1[collateralAsset]
           c1  == IF asATokens THEN seizeATokens(c, liquidator, user, terms.seized)
                               ELSE seizeFunds(c, user, terms.seized)
           rs2 == withReserve(rs1, collateralAsset, c1)
           e   == rs2[debtAsset]
           n   == withFunds(e, e.liquidity + terms.repaid, e.aToken)
           rs3 == withReserve(rs2, debtAsset, n)
           first == asATokens /\ aTokenBalanceOf(c, liquidator, now) = 0
           cfg1  == IF first THEN withCollateral(usersConfig, liquidator, collateralAsset, TRUE)
                    ELSE usersConfig
           cfg2  == IF terms.all THEN withCollateral(cfg1, user, collateralAsset, FALSE)
                    ELSE cfg1
           funds == IF asATokens THEN wallet
                    ELSE [wallet EXCEPT ![collateralAsset][liquidator] = @ + terms.seized]
<1>1. /\ collateralAsset \in reservesList /\ debtAsset \in reservesList
      /\ reserves[collateralAsset].config.liquidationThreshold > 0
      /\ priceUsable(collateralAsset)
    BY DEF LiquidationCall, LiquidationAccepted, Listed, validateLiquidationCall
<1>2. /\ updateStateAccepted(d, now)
      /\ burnLiquidatedAccepted(d1, user, terms.repaid, terms.variableDebt)
      /\ updateInterestRatesAccepted(d2, terms.repaid, 0)
    BY DEF LiquidationCall, LiquidationAccepted, repaymentAccepted
<1>3. afterRepayment(debtAsset, user, terms) = rs1
    BY DEF afterRepayment, withReserve
<1>4. seizureAccepted(c, user, terms.seized, asATokens)
    BY <1>3 DEF LiquidationCall, LiquidationAccepted
<1>5. /\ terms.repaid <= funds[debtAsset][liquidator]
      /\ wallet' = [funds EXCEPT ![debtAsset][liquidator] = @ - terms.repaid]
      /\ UNCHANGED <<reservesList, paused, borrowAllowance, price, now, flashLoans>>
    BY DEF LiquidationCall
<1>6. usersConfig' = cfg2
    BY <1>3 DEF LiquidationCall, withCollateral
<1>7. reserves' = [rs2 EXCEPT ![debtAsset].liquidity = @ + terms.repaid]
    BY <1>3 DEF LiquidationCall, withReserve
<1>8. terms.seized \in Nat /\ terms.repaid \in Nat /\ terms.variableDebt \in Nat
    BY <1>1, LiquidationTermsType
<1> HIDE DEF terms, d, d1, d2, d3, c1, rs1, rs2, rs3, c, e, n, first, cfg2
<1>9. ListedOK(d, now) /\ now \in Nat /\ 0 \in Nat
    BY <1>1, InvFacts DEF d
<1>10. Accrued(d, d1) /\ d1.variableDebt = d.variableDebt /\ d1.stableDebt = d.stableDebt
    BY <1>2, <1>9, AccruedUpdateState DEF d1
<1>11. Accrued(d, d2) /\ \A u \in Account : NoDebt(d1, u) => NoDebt(d2, u)
    BY <1>2, <1>8, <1>9, <1>10, AccruedBurnLiquidated DEF d2
<1>12. Accrued(d, d3) /\ d3.variableDebt = d2.variableDebt /\ d3.stableDebt = d2.stableDebt
    BY <1>2, <1>8, <1>9, <1>11, AccruedUpdateInterestRates DEF d3
<1>13. Continues(d, d3) /\ \A u \in Account : NoDebt(d, u) => NoDebt(d3, u)
    BY <1>10, <1>11, <1>12, AccruedContinues DEF NoDebt
<1>14. Evolved(rs1)
    BY <1>1, <1>13, EvolvedStart, EvolvedChange DEF rs1, d
<1>15. ListedOK(c, now)
    BY <1>1, <1>14 DEF Evolved, Continues, c
<1>16. Continues(c, c1) /\ \A u \in Account : NoDebt(c, u) => NoDebt(c1, u)
    BY <1>4, <1>8, <1>15, SeizurePreserves DEF c1
<1>17. Evolved(rs2)
    BY <1>1, <1>14, <1>16, EvolvedChange DEF rs2, c
<1>18. ListedOK(e, now) /\ e \in Reserve
    BY <1>1, <1>17, InvFacts DEF Evolved, Continues, e
<1>19. e.liquidity + terms.repaid \in Nat /\ e.aToken \in BalancedToken
  <2>1. e.liquidity \in Nat /\ e.aToken \in BalancedToken
    BY <1>18, ReserveFields, ReserveBooks
  <2> QED BY <1>8, <2>1
<1>20. Continues(e, n) /\ \A u \in Account : NoDebt(e, u) => NoDebt(n, u)
  <2>1. /\ ListedOK(n, now)
        /\ n.config = e.config /\ n.lastUpdateTimestamp = e.lastUpdateTimestamp
        /\ n.liquidityIndex = e.liquidityIndex
        /\ n.currentLiquidityRate = e.currentLiquidityRate
        /\ n.variableBorrowIndex = e.variableBorrowIndex
        /\ n.variableDebt = e.variableDebt /\ n.stableDebt = e.stableDebt
    BY <1>9, <1>18, <1>19, MoveFunds DEF n
  <2>2. getNormalizedIncome(n, now) = getNormalizedIncome(e, now)
    BY <2>1 DEF getNormalizedIncome
  <2>3. getNormalizedIncome(e, now) \in Nat /\ e.variableBorrowIndex \in Nat
    BY <1>9, <1>18, NormalizedIndexes, ReserveFields
  <2> QED BY <2>1, <2>2, <2>3 DEF Continues, NoDebt
<1>21. Evolved(rs3)
    BY <1>1, <1>17, <1>20, EvolvedChange DEF rs3, e
<1>22. reserves' = rs3
  <2>1. rs2 \in [Asset -> Reserve]
    BY <1>17 DEF Evolved
  <2>2. n = [e EXCEPT !.liquidity = @ + terms.repaid]
    BY <1>18 DEF n, withFunds, Reserve
  <2> HIDE DEF n
  <2> QED BY <1>7, <2>1, <2>2 DEF rs3, withReserve, e
<1>23. SameBorrowing(usersConfig')
  <2>1. SameBorrowing(cfg1)
    BY SameConfiguration, CollateralChange
  <2> HIDE DEF cfg1
  <2> QED BY <1>6, <2>1, CollateralChange DEF cfg2
<1>24. RestOK
  <2>1. funds \in [Asset -> [Account -> Nat]]
    BY <1>8, InvFacts, SMTT(30)
  <2> HIDE DEF funds
  <2>2. wallet' \in [Asset -> [Account -> Nat]]
    BY <1>5, <1>8, <2>1
  <2> QED BY <1>5, <1>23, <2>2, InvFacts DEF RestOK, IInv, FramesOK, SameBorrowing
<1> QED BY <1>21, <1>22, <1>23, <1>24, EvolvedStep

-----------------------------------------------------------------------------
(* Flash loans *)

\* A frame whose loop is within its legs.
FrameOK(f) == f \in FlashLoanFrame /\ (f.stage # CALLBACK => f.next \in 1 .. Len(f.legs))

\* The flash loan on top of the stack is well formed.
LEMMA CurrentLoanOK ==
    ASSUME IInv, flashLoans # <<>>
    PROVE  /\ Len(flashLoans) \in 1 .. Len(flashLoans)
           /\ FrameOK(currentLoan)
           /\ Len(currentLoan.legs) \in Nat
           /\ \A i \in 1 .. Len(currentLoan.legs) : currentLoan.legs[i] \in FlashLoanLeg
<1>1. flashLoans \in Seq(FlashLoanFrame)
    BY InvFacts
<1>2. Len(flashLoans) \in 1 .. Len(flashLoans)
    BY <1>1, EmptySeq, LenProperties
<1>3. currentLoan \in FlashLoanFrame
    BY <1>1, <1>2, ElementOfSeq DEF currentLoan
<1>4. currentLoan.legs \in Seq(FlashLoanLeg)
    BY <1>3 DEF FlashLoanFrame
<1>5. FrameOK(currentLoan)
    BY <1>1, <1>2, <1>3, LenProperties DEF FrameOK, IInv, FramesOK, currentLoan
<1> QED BY <1>2, <1>4, <1>5, ElementOfSeq, LenProperties

\* The innermost frame is replaced, by one whose loop is within its legs.
LEMMA ReplaceFrame ==
    ASSUME IInv, flashLoans # <<>>, NEW f, FrameOK(f),
           flashLoans' = [flashLoans EXCEPT ![Len(flashLoans)] = f]
    PROVE  flashLoans' \in Seq(FlashLoanFrame) /\ FramesOK'
<1>1. flashLoans \in Seq(FlashLoanFrame) /\ f \in FlashLoanFrame
    BY InvFacts DEF FrameOK
<1>2. Len(flashLoans) \in 1 .. Len(flashLoans)
    BY CurrentLoanOK
<1>3. /\ flashLoans' \in Seq(FlashLoanFrame) /\ Len(flashLoans') = Len(flashLoans)
      /\ \A j \in 1 .. Len(flashLoans) :
            flashLoans'[j] = IF j = Len(flashLoans) THEN f ELSE flashLoans[j]
    BY <1>1, <1>2, ExceptSeq
<1>4. DOMAIN flashLoans' = 1 .. Len(flashLoans) /\ DOMAIN flashLoans = 1 .. Len(flashLoans)
    BY <1>1, <1>3, LenProperties
<1> QED BY <1>3, <1>4 DEF IInv, FramesOK, FrameOK

\* Moving the current loan to another stage keeps the stack well formed.
LEMMA StageChange ==
    ASSUME IInv, flashLoans # <<>>, NEW stage \in {CALLBACK, SETTLING}, enterStage(stage),
           stage # CALLBACK => Len(currentLoan.legs) # 0
    PROVE  flashLoans' \in Seq(FlashLoanFrame) /\ FramesOK'
<1> DEFINE f == [currentLoan EXCEPT !.stage = stage, !.next = 1]
<1>1. currentLoan \in FlashLoanFrame /\ Len(currentLoan.legs) \in Nat
    BY CurrentLoanOK DEF FrameOK
<1>2. FrameOK(f)
  <2>1. f.stage = stage /\ f.next = 1 /\ f.legs = currentLoan.legs
    BY <1>1 DEF FlashLoanFrame
  <2>2. f \in FlashLoanFrame
    BY <1>1 DEF FlashLoanFrame
  <2> HIDE DEF f
  <2> QED BY <1>1, <2>1, <2>2 DEF FrameOK
<1>3. flashLoans' = [flashLoans EXCEPT ![Len(flashLoans)] = f]
  <2>1. flashLoans \in Seq(FlashLoanFrame) /\ Len(flashLoans) \in 1 .. Len(flashLoans)
    BY InvFacts, CurrentLoanOK
  <2>2. DOMAIN flashLoans = 1 .. Len(flashLoans)
    BY <2>1, LenProperties
  <2> QED BY <2>1, <2>2 DEF enterStage, currentLoan
<1> HIDE DEF f
<1> QED BY <1>2, <1>3, ReplaceFrame

\* Going on to the next leg keeps the stack well formed.
LEMMA LegAdvance ==
    ASSUME IInv, flashLoans # <<>>, nextLeg, currentLoan.stage # CALLBACK,
           currentLoan.next # Len(currentLoan.legs)
    PROVE  flashLoans' \in Seq(FlashLoanFrame) /\ FramesOK'
<1> DEFINE f == [currentLoan EXCEPT !.next = @ + 1]
<1>1. /\ currentLoan \in FlashLoanFrame /\ Len(currentLoan.legs) \in Nat
      /\ currentLoan.next \in 1 .. Len(currentLoan.legs)
    BY CurrentLoanOK DEF FrameOK
<1>2. FrameOK(f)
    BY <1>1 DEF FrameOK, FlashLoanFrame
<1>3. flashLoans' = [flashLoans EXCEPT ![Len(flashLoans)] = f]
    BY DEF nextLeg, currentLoan
<1> HIDE DEF f
<1> QED BY <1>2, <1>3, ReplaceFrame

\* Ending the current loan keeps the stack well formed.
LEMMA LoanEnd ==
    ASSUME IInv, flashLoans # <<>>, endFlashLoan
    PROVE  flashLoans' \in Seq(FlashLoanFrame) /\ FramesOK'
<1>1. flashLoans \in Seq(FlashLoanFrame) /\ Len(flashLoans) \in 1 .. Len(flashLoans)
    BY InvFacts, CurrentLoanOK
<1> DEFINE k == Len(flashLoans) - 1
<1>2. k \in Nat /\ 1 .. k \subseteq 1 .. Len(flashLoans)
    BY <1>1
<1>3. flashLoans' = SubSeq(flashLoans, 1, k)
    BY DEF endFlashLoan
<1>4. \A i \in 1 .. k : flashLoans[i] \in FlashLoanFrame
    BY <1>1, <1>2, ElementOfSeq
<1> HIDE DEF k
<1>5. /\ flashLoans' \in Seq(FlashLoanFrame) /\ Len(flashLoans') = k
      /\ \A i \in 1 .. k : flashLoans'[i] = flashLoans[i]
    BY <1>2, <1>3, <1>4, SubSeqProperties
<1>6. DOMAIN flashLoans' = 1 .. k /\ DOMAIN flashLoans = 1 .. Len(flashLoans)
    BY <1>1, <1>5, LenProperties
<1> QED BY <1>2, <1>5, <1>6 DEF IInv, FramesOK

\* The head of LendingPool.flashLoan, before any transfer.
LEMMA FlashLoanBeginPreserves ==
    ASSUME IInv, NEW initiator \in Account, NEW receiver \in Account,
           NEW legs \in Seq(FlashLoanLeg), NEW onBehalfOf \in Account,
           FlashLoanBegin(initiator, receiver, legs, onBehalfOf)
    PROVE  Preserved
<1> DEFINE f == [initiator |-> initiator, receiver |-> receiver, onBehalfOf |-> onBehalfOf,
                 legs |-> legs, stage |-> IF legs = <<>> THEN CALLBACK ELSE LENDING, next |-> 1]
<1>1. flashLoans \in Seq(FlashLoanFrame) /\ Len(flashLoans) \in Nat
    BY InvFacts, LenProperties
<1>2. Len(legs) \in Nat /\ (legs # <<>> => Len(legs) # 0)
    BY EmptySeq, LenProperties
<1>3. FrameOK(f)
    BY <1>2 DEF FrameOK, FlashLoanFrame
<1>4. flashLoans' = Append(flashLoans, f) /\ UNCHANGED <<poolVars, wallet, price, now>>
    BY DEF FlashLoanBegin
<1> HIDE DEF f
<1>5. /\ flashLoans' \in Seq(FlashLoanFrame) /\ Len(flashLoans') = Len(flashLoans) + 1
      /\ \A i \in 1 .. Len(flashLoans) : flashLoans'[i] = flashLoans[i]
      /\ flashLoans'[Len(flashLoans) + 1] = f
    BY <1>1, <1>3, <1>4, AppendProperties DEF FrameOK
<1>6. DOMAIN flashLoans' = 1 .. Len(flashLoans) + 1 /\ DOMAIN flashLoans = 1 .. Len(flashLoans)
    BY <1>1, <1>5, LenProperties
<1>7. FramesOK'
    BY <1>1, <1>3, <1>5, <1>6 DEF IInv, FramesOK, FrameOK
<1>8. TypeOK'
    BY <1>4, <1>5 DEF IInv, TypeOK, poolVars
<1> QED BY <1>4, <1>7, <1>8, OtherStep DEF poolVars

\* The receiver's executeOperation returning to the pool.
LEMMA FlashLoanReturnPreserves ==
    ASSUME IInv, FlashLoanReturn
    PROVE  Preserved
<1>1. /\ flashLoans # <<>> /\ UNCHANGED <<poolVars, wallet, price, now>>
      /\ IF currentLoan.legs = <<>> THEN endFlashLoan ELSE enterStage(SETTLING)
    BY DEF FlashLoanReturn, inStage
<1>2. currentLoan.legs # <<>> => Len(currentLoan.legs) # 0
  <2>1. currentLoan.legs \in Seq(FlashLoanLeg)
    BY <1>1, CurrentLoanOK DEF FrameOK, FlashLoanFrame
  <2> QED BY <2>1, EmptySeq
<1>3. flashLoans' \in Seq(FlashLoanFrame) /\ FramesOK'
    BY <1>1, <1>2, LoanEnd, StageChange
<1>4. TypeOK'
    BY <1>1, <1>3 DEF IInv, TypeOK, poolVars
<1> QED BY <1>1, <1>3, <1>4, OtherStep DEF poolVars

\* One transfer of the first loop of LendingPool.flashLoan.
LEMMA FlashLoanLendPreserves ==
    ASSUME IInv, FlashLoanLend
    PROVE  Preserved
<1> DEFINE asset  == currentLeg.asset
           amount == currentLeg.amount
           r == reserves[asset]
           n == withFunds(r, r.liquidity - amount, r.aToken)
           receiver == currentLoan.receiver
<1>1. /\ flashLoans # <<>> /\ currentLoan.stage = LENDING
      /\ asset \in reservesList /\ amount <= r.liquidity
      /\ reserves' = [reserves EXCEPT ![asset].liquidity = @ - amount]
      /\ wallet' = [wallet EXCEPT ![asset][receiver] = @ + amount]
      /\ IF currentLoan.next = Len(currentLoan.legs) THEN enterStage(CALLBACK) ELSE nextLeg
      /\ UNCHANGED <<reservesList, usersConfig, paused, borrowAllowance, price, now>>
    BY DEF FlashLoanLend, inStage, Listed, payOut
<1>2. LENDING # CALLBACK
    BY DEF LENDING, CALLBACK
<1>3. asset \in Asset /\ amount \in Nat /\ receiver \in Account
  <2>1. currentLoan \in FlashLoanFrame /\ currentLoan.next \in 1 .. Len(currentLoan.legs)
    BY <1>1, <1>2, CurrentLoanOK DEF FrameOK
  <2>2. currentLeg \in FlashLoanLeg
    BY <1>1, <2>1, CurrentLoanOK DEF currentLeg
  <2> QED BY <2>1, <2>2 DEF FlashLoanLeg, FlashLoanFrame
<1> HIDE DEF asset, amount, receiver
<1>4. ListedOK(r, now) /\ now \in Nat /\ r \in Reserve
    BY <1>1, InvFacts DEF ListedOK, ReserveOK
<1>5. r.liquidity \in Nat /\ r.liquidity - amount \in Nat /\ r.aToken \in BalancedToken
  <2>1. r.liquidity \in Nat /\ r.aToken \in BalancedToken
    BY <1>4, ReserveFields, ReserveBooks
  <2> QED BY <1>1, <1>3, <2>1
<1>6. setReserve(asset, n)
  <2>1. n = [r EXCEPT !.liquidity = @ - amount]
    BY <1>4 DEF withFunds, Reserve
  <2> HIDE DEF n
  <2> QED BY <1>1, <1>3, <2>1, InvFacts DEF setReserve
<1> HIDE DEF n, r
<1>7. /\ ListedOK(n, now)
      /\ n.config = r.config /\ n.lastUpdateTimestamp = r.lastUpdateTimestamp
      /\ n.liquidityIndex = r.liquidityIndex
      /\ n.currentLiquidityRate = r.currentLiquidityRate
      /\ n.variableBorrowIndex = r.variableBorrowIndex
      /\ n.variableDebt = r.variableDebt /\ n.stableDebt = r.stableDebt
  <2>1. now \in Nat /\ ListedOK(r, now) /\ r.liquidity - amount \in Nat /\ r.aToken \in BalancedToken
    BY <1>4, <1>5
  <2> QED BY <2>1, MoveFunds DEF n
<1>8. Continues(r, n) /\ \A u \in Account : NoDebt(r, u) => NoDebt(n, u)
  <2>1. getNormalizedIncome(n, now) = getNormalizedIncome(r, now)
    BY <1>7 DEF getNormalizedIncome
  <2>2. getNormalizedIncome(r, now) \in Nat /\ r.variableBorrowIndex \in Nat
    BY <1>4, NormalizedIndexes, ReserveFields
  <2> QED BY <1>7, <2>1, <2>2 DEF Continues, NoDebt
<1>9. FlagsFollow(asset, n)
    BY <1>1, <1>8 DEF FlagsFollow, r
<1>10. flashLoans' \in Seq(FlashLoanFrame) /\ FramesOK'
    BY <1>1, <1>2, StageChange, LegAdvance
<1>11. RestOK
  <2>1. wallet' \in [Asset -> [Account -> Nat]]
    BY <1>1, <1>3, InvFacts
  <2> QED BY <1>1, <1>10, <2>1, InvFacts DEF RestOK
<1> QED BY <1>1, <1>6, <1>8, <1>9, <1>11, ReserveStep DEF r

\* The premium added to the liquidity index, and the funds returned.
LEMMA PayBackPreserves ==
    ASSUME IInv, NEW leg \in FlashLoanLeg, NEW receiver \in Account, leg.asset \in reservesList,
           payBack(leg, receiver),
           UNCHANGED <<reservesList, paused, price, now>>,
           flashLoans' \in Seq(FlashLoanFrame), FramesOK'
    PROVE  Preserved
<1> DEFINE r   == reserves[leg.asset]
           premium == flashLoanPremium(leg.amount)
           due == leg.amount + premium
           r1  == updateState(r, now)
           total == aTokenTotalSupply(r1, now)
           r2  == cumulateToLiquidityIndex(r1, total, premium)
           r3  == updateInterestRates(r2, due, 0, now)
           r4  == [r3 EXCEPT !.liquidity = @ + due]
           n   == withFunds(r3, r3.liquidity + due, r3.aToken)
<1>1. /\ updateStateAccepted(r, now) /\ total # 0
      /\ updateInterestRatesAccepted(r2, due, 0)
      /\ due <= wallet[leg.asset][receiver]
      /\ wallet' = [wallet EXCEPT ![leg.asset][receiver] = @ - due]
      /\ setReserve(leg.asset, r4)
      /\ UNCHANGED <<usersConfig, borrowAllowance>>
    BY DEF payBack, payIn
<1>2. premium \in Nat /\ due \in Nat
  <2>1. leg.amount \in Nat
    BY DEF FlashLoanLeg
  <2>2. leg.amount * FLASHLOAN_PREMIUM_TOTAL \in Nat
    BY <2>1, PoolConstantsAssumption
  <2>3. premium \in Nat
    BY <2>2, DivProp, ScalePositive DEF flashLoanPremium
  <2> HIDE DEF premium
  <2> QED BY <2>1, <2>3
<1> HIDE DEF r, premium, due, r1, total, r2, r3, r4, n
<1>3. ListedOK(r, now) /\ now \in Nat /\ 0 \in Nat /\ leg.asset \in Asset
    BY InvFacts DEF r
<1>4. Accrued(r, r1) /\ r1.variableDebt = r.variableDebt /\ r1.stableDebt = r.stableDebt
    BY <1>1, <1>3, AccruedUpdateState DEF r1
<1>5. total \in Nat \ {0}
  <2>1. ListedOK(r1, now)
    BY <1>4 DEF Accrued
  <2>2. total \in Nat
    BY <1>3, <2>1, ReserveViews, TreasuryAssumption DEF total
  <2> QED BY <1>1, <2>2
<1>6. Accrued(r, r2) /\ r2.variableDebt = r.variableDebt /\ r2.stableDebt = r.stableDebt
  <2>1. /\ ListedOK(r1, now) /\ r1.config = r.config /\ r1.lastUpdateTimestamp = now
        /\ r1.liquidityIndex >= getNormalizedIncome(r, now)
        /\ r1.variableBorrowIndex >= r.variableBorrowIndex
    BY <1>4 DEF Accrued
  <2>2. /\ ListedOK(r2, now)
        /\ r2.lastUpdateTimestamp = r1.lastUpdateTimestamp
        /\ r2.liquidityIndex >= r1.liquidityIndex
        /\ r2.variableBorrowIndex = r1.variableBorrowIndex
        /\ r2.variableDebt = r1.variableDebt /\ r2.stableDebt = r1.stableDebt
        /\ r2.config = r1.config
    <3>1. now \in Nat /\ ListedOK(r1, now) /\ total \in Nat \ {0} /\ premium \in Nat
      BY <1>2, <1>3, <1>5, <2>1
    <3> QED BY <3>1, CumulateToLiquidityIndex DEF r2
  <2>3. r1.liquidityIndex \in Nat /\ r2.liquidityIndex \in Nat /\ getNormalizedIncome(r, now) \in Nat
    BY <1>3, <2>1, <2>2, NormalizedIndexes, ReserveFields DEF ListedOK, ReserveOK
  <2>4. r2.liquidityIndex >= getNormalizedIncome(r, now)
    BY <2>1, <2>2, <2>3
  <2> QED BY <1>4, <2>1, <2>2, <2>4 DEF Accrued
<1>7. Accrued(r, r3) /\ r3.variableDebt = r.variableDebt /\ r3.stableDebt = r.stableDebt
    BY <1>1, <1>2, <1>3, <1>6, AccruedUpdateInterestRates DEF r3
<1>8. r3 \in Reserve /\ r3.aToken \in BalancedToken /\ r3.liquidity + due \in Nat
  <2>1. r3 \in Reserve /\ r3.liquidity \in Nat /\ r3.aToken \in BalancedToken
    BY <1>7, AccruedFields
  <2> QED BY <1>2, <2>1
<1>9. Accrued(r, n) /\ n.variableDebt = r.variableDebt /\ n.stableDebt = r.stableDebt
    BY <1>3, <1>7, <1>8, AccruedMoveFunds DEF n
<1>10. setReserve(leg.asset, n)
    BY <1>1, <1>8 DEF withFunds, n, r4, Reserve
<1>11. FlagsFollow(leg.asset, n)
    BY <1>1, <1>9 DEF FlagsFollow, NoDebt, r
<1>12. RestOK
  <2>1. wallet' \in [Asset -> [Account -> Nat]]
    BY <1>1, <1>2, <1>3, InvFacts
  <2> QED BY <1>1, <2>1, InvFacts DEF RestOK
<1> QED BY <1>9, <1>10, <1>11, <1>12, AccruedContinues, ReserveStep DEF r

\* One turn of the last loop of LendingPool.flashLoan: pay back, or borrow.
LEMMA FlashLoanSettlePreserves ==
    ASSUME IInv, FlashLoanSettle
    PROVE  Preserved
<1>1. /\ flashLoans # <<>> /\ currentLoan.stage = SETTLING
      /\ currentLeg.asset \in reservesList
      /\ IF currentLeg.mode = NONE
         THEN payBack(currentLeg, currentLoan.receiver)
         ELSE ExecuteBorrow(currentLeg.asset, currentLoan.initiator, currentLoan.onBehalfOf,
                            currentLeg.amount, currentLeg.mode, FALSE)
      /\ IF currentLoan.next = Len(currentLoan.legs) THEN endFlashLoan ELSE nextLeg
      /\ UNCHANGED <<reservesList, paused, price, now>>
    BY DEF FlashLoanSettle, keepAsDebt, inStage, Listed
<1>2. SETTLING # CALLBACK
    BY DEF SETTLING, CALLBACK
<1>3. currentLoan \in FlashLoanFrame /\ currentLeg \in FlashLoanLeg
  <2>1. currentLoan \in FlashLoanFrame /\ currentLoan.next \in 1 .. Len(currentLoan.legs)
    BY <1>1, <1>2, CurrentLoanOK DEF FrameOK
  <2> QED BY <1>1, <2>1, CurrentLoanOK DEF currentLeg
<1>4. flashLoans' \in Seq(FlashLoanFrame) /\ FramesOK'
    BY <1>1, <1>2, LoanEnd, LegAdvance
<1>5. CASE currentLeg.mode = NONE
    BY <1>1, <1>3, <1>4, <1>5, PayBackPreserves DEF FlashLoanFrame
<1>6. CASE currentLeg.mode # NONE
  <2>1. /\ currentLoan.initiator \in Account /\ currentLoan.onBehalfOf \in Account
        /\ currentLeg.amount \in Nat /\ currentLeg.mode \in RateMode /\ FALSE \in BOOLEAN
    BY <1>3, <1>6 DEF FlashLoanFrame, FlashLoanLeg
  <2> QED BY <1>1, <1>4, <1>6, <2>1, ExecuteBorrowPreserves
<1> QED BY <1>5, <1>6

-----------------------------------------------------------------------------
(* The admins, the oracle and the clock *)

\* A change of the configuration or of the strategy touches neither indexes nor
\* rates nor tokens.
LEMMA ReconfigurePreserves ==
    ASSUME IInv, NEW asset \in Asset, NEW config \in Configuration, BonusWithThreshold(config),
           NEW strategy \in Strategy \cup {NoStrategy},
           reserves[asset].strategy \in Strategy => strategy \in Strategy,
           config.reserveFactor \in {reserves[asset].config.reserveFactor} \cup ReserveFactors,
           reserves' = [reserves EXCEPT ![asset] =
                           [reserves[asset] EXCEPT !.config = config, !.strategy = strategy]],
           UNCHANGED <<reservesList, usersConfig, paused, borrowAllowance,
                       wallet, price, now, flashLoans>>
    PROVE  Preserved
<1> DEFINE r == reserves[asset]
           n == [r EXCEPT !.config = config, !.strategy = strategy]
<1>1. r \in Reserve /\ reserves \in [Asset -> Reserve] /\ ReserveOK(r, now)
    BY InvFacts DEF IInv, ReservesOK
<1>2. /\ n \in Reserve /\ n.config = config /\ n.strategy = strategy
      /\ n.liquidityIndex = r.liquidityIndex /\ n.variableBorrowIndex = r.variableBorrowIndex
      /\ n.currentLiquidityRate = r.currentLiquidityRate
      /\ n.lastUpdateTimestamp = r.lastUpdateTimestamp /\ n.aToken = r.aToken
      /\ n.variableDebt = r.variableDebt /\ n.stableDebt = r.stableDebt
    BY <1>1 DEF Reserve
<1>3. reserves' = [reserves EXCEPT ![asset] = n] /\ now' = now /\ reservesList' = reservesList
    OBVIOUS
<1> HIDE DEF r, n
<1>4. /\ reserves' \in [Asset -> Reserve] /\ reserves'[asset] = n
      /\ \A b \in Asset \ {asset} : reserves'[b] = reserves[b]
    BY <1>1, <1>2, <1>3
<1>5. ReserveOK(n, now) /\ (ListedOK(r, now) => ListedOK(n, now)) /\ BonusWithThreshold(n.config)
    BY <1>1, <1>2 DEF ReserveOK, ListedOK, r
<1>6. TypeOK' /\ FramesOK'
    BY <1>4 DEF IInv, TypeOK, FramesOK
<1>7. ReservesOK'
  <2> SUFFICES ASSUME NEW b \in Asset
               PROVE  /\ ReserveOK(reserves'[b], now)
                      /\ b \in reservesList => ListedOK(reserves'[b], now)
                      /\ BonusWithThreshold(reserves'[b].config)
    BY <1>3 DEF ReservesOK
  <2>1. CASE b = asset
    BY <1>4, <1>5, <2>1 DEF IInv, ReservesOK, r
  <2>2. CASE b # asset
    BY <1>4, <2>2 DEF IInv, ReservesOK
  <2> QED BY <2>1, <2>2
<1>8. DebtImpliesBorrowingFlag'
  <2> SUFFICES ASSUME NEW b \in Asset, NEW u \in Account, ~NoDebt(reserves'[b], u)
               PROVE  b \in usersConfig'[u].borrowing
    BY DEF DebtImpliesBorrowingFlag, NoDebt
  <2>1. ~NoDebt(reserves[b], u)
    BY <1>2, <1>4 DEF NoDebt, r
  <2> QED BY <2>1 DEF IInv, DebtImpliesBorrowingFlag, NoDebt
<1>9. IndexStep
  <2> SUFFICES ASSUME NEW b \in reservesList
               PROVE  /\ getNormalizedIncome(reserves'[b], now) >= getNormalizedIncome(reserves[b], now)
                      /\ reserves'[b].variableBorrowIndex >= reserves[b].variableBorrowIndex
    BY <1>3 DEF IndexStep
  <2>1. getNormalizedIncome(reserves[b], now) \in Nat /\ reserves[b].variableBorrowIndex \in Nat
        /\ b \in Asset
    BY InvFacts, NormalizedIndexes, ReserveFields DEF ListedOK, ReserveOK
  <2>2. getNormalizedIncome(n, now) = getNormalizedIncome(r, now)
    BY <1>2 DEF getNormalizedIncome
  <2>3. CASE b = asset
    BY <1>2, <1>4, <2>1, <2>2, <2>3 DEF r
  <2>4. CASE b # asset
    BY <1>4, <2>1, <2>4
  <2> QED BY <2>3, <2>4
<1>10. FactorStep
    BY <1>2, <1>4 DEF FactorStep, r
<1> QED BY <1>6, <1>7, <1>8, <1>9, <1>10 DEF Preserved, IInv

\* The same for a change of the configuration alone.
LEMMA SetConfigurationPreserves ==
    ASSUME IInv, NEW asset \in Asset, NEW config, config \in Configuration,
           BonusWithThreshold(config), setConfiguration(asset, config),
           config.reserveFactor \in {reserves[asset].config.reserveFactor} \cup ReserveFactors
    PROVE  Preserved
<1> DEFINE r == reserves[asset]
<1>1. r \in Reserve /\ reserves \in [Asset -> Reserve]
    BY InvFacts
<1>2. r.strategy \in Strategy \cup {NoStrategy}
    BY <1>1 DEF Reserve
<1>3. reserves' = [reserves EXCEPT ![asset] = [r EXCEPT !.config = config]]
    BY <1>1 DEF setConfiguration
<1>4. [r EXCEPT !.config = config] = [r EXCEPT !.config = config, !.strategy = r.strategy]
    BY <1>1 DEF Reserve
<1>5. UNCHANGED <<reservesList, usersConfig, paused, borrowAllowance, wallet, price, now,
                  flashLoans>>
    BY DEF setConfiguration
<1> QED BY <1>2, <1>3, <1>4, <1>5, ReconfigurePreserves

\* LendingPoolConfigurator.initReserve lists a reserve nobody owes anything to.
LEMMA InitReservePreserves ==
    ASSUME IInv, NEW asset \in Asset, NEW strategy \in Strategy, NEW unit \in Nat \ {0},
           InitReserve(asset, strategy, unit)
    PROVE  Preserved
<1> DEFINE r == reserves[asset]
           config == [r.config EXCEPT !.unit = unit, !.active = TRUE, !.frozen = FALSE]
           n == [r EXCEPT !.liquidityIndex = RAY, !.variableBorrowIndex = RAY,
                          !.strategy = strategy, !.config = config]
<1>1. /\ asset \notin reservesList /\ reservesList' = reservesList \cup {asset}
      /\ reserves' = [reserves EXCEPT ![asset] = [initReserve(r, strategy) EXCEPT
                         !.config = [@ EXCEPT !.unit = unit, !.active = TRUE, !.frozen = FALSE]]]
      /\ UNCHANGED <<usersConfig, paused, borrowAllowance, wallet, price, now, flashLoans>>
    BY DEF InitReserve, Listed, setReserve
<1>2. r \in Reserve /\ reserves \in [Asset -> Reserve] /\ ReserveOK(r, now)
      /\ reservesList \subseteq Asset
    BY InvFacts DEF IInv, ReservesOK
<1>3. [initReserve(r, strategy) EXCEPT
          !.config = [@ EXCEPT !.unit = unit, !.active = TRUE, !.frozen = FALSE]] = n
    BY <1>2 DEF initReserve, Reserve
<1>4. /\ config \in Configuration
      /\ config.liquidationThreshold = r.config.liquidationThreshold
      /\ config.liquidationBonus = r.config.liquidationBonus
      /\ config.reserveFactor = r.config.reserveFactor
    BY <1>2 DEF Reserve, Configuration
<1> HIDE DEF config
<1>5. /\ n \in Reserve /\ n.config = config /\ n.strategy = strategy
      /\ n.liquidityIndex = RAY /\ n.variableBorrowIndex = RAY
      /\ n.lastUpdateTimestamp = r.lastUpdateTimestamp /\ n.aToken = r.aToken
      /\ n.variableDebt = r.variableDebt /\ n.stableDebt = r.stableDebt
    BY <1>2, <1>4, ScalePositive DEF Reserve
<1> HIDE DEF n, r
<1>6. /\ reserves' \in [Asset -> Reserve] /\ reserves'[asset] = n
      /\ \A b \in Asset \ {asset} : reserves'[b] = reserves[b]
    BY <1>1, <1>2, <1>3, <1>5
<1>7. ListedOK(n, now) /\ BonusWithThreshold(n.config)
  <2>1. BonusWithThreshold(r.config)
    BY DEF IInv, ReservesOK, r
  <2>2. RAY >= RAY
    BY ScalePositive
  <2> QED BY <1>2, <1>4, <1>5, <2>1, <2>2 DEF ReserveOK, ListedOK, BonusWithThreshold
<1>8. TypeOK' /\ FramesOK'
    BY <1>1, <1>2, <1>6 DEF IInv, TypeOK, FramesOK
<1>9. ReservesOK'
  <2> SUFFICES ASSUME NEW b \in Asset
               PROVE  /\ ReserveOK(reserves'[b], now)
                      /\ b \in reservesList \cup {asset} => ListedOK(reserves'[b], now)
                      /\ BonusWithThreshold(reserves'[b].config)
    BY <1>1 DEF ReservesOK
  <2>1. CASE b = asset
    BY <1>6, <1>7, <2>1 DEF ListedOK
  <2>2. CASE b # asset
    BY <1>6, <2>2 DEF IInv, ReservesOK
  <2> QED BY <2>1, <2>2
<1>10. DebtImpliesBorrowingFlag'
  <2> SUFFICES ASSUME NEW b \in Asset, NEW u \in Account, ~NoDebt(reserves'[b], u)
               PROVE  b \in usersConfig'[u].borrowing
    BY DEF DebtImpliesBorrowingFlag, NoDebt
  <2>1. ~NoDebt(reserves[b], u)
    BY <1>5, <1>6 DEF NoDebt, r
  <2> QED BY <1>1, <2>1 DEF IInv, DebtImpliesBorrowingFlag, NoDebt
<1>11. IndexStep
  <2> SUFFICES ASSUME NEW b \in reservesList
               PROVE  /\ getNormalizedIncome(reserves'[b], now) >= getNormalizedIncome(reserves[b], now)
                      /\ reserves'[b].variableBorrowIndex >= reserves[b].variableBorrowIndex
    BY <1>1 DEF IndexStep
  <2>1. getNormalizedIncome(reserves[b], now) \in Nat /\ reserves[b].variableBorrowIndex \in Nat
        /\ b \in Asset /\ b # asset
    BY <1>1, InvFacts, NormalizedIndexes, ReserveFields DEF ListedOK, ReserveOK
  <2> QED BY <1>6, <2>1
<1>12. FactorStep
    BY <1>4, <1>5, <1>6 DEF FactorStep, r
<1> QED BY <1>8, <1>9, <1>10, <1>11, <1>12 DEF Preserved, IInv

\* With time the interest shown grows.
LEMMA TickPreserves ==
    ASSUME IInv, Tick
    PROVE  Preserved
<1>1. PICK dt \in TimeSteps : now' = now + dt
    BY DEF Tick
<1>2. now \in Nat /\ dt \in Nat
    BY InvFacts, InputAssumption
<1>3. now' \in Nat /\ now <= now'
    BY <1>1, <1>2
<1>4. UNCHANGED <<reserves, reservesList, usersConfig, paused, borrowAllowance, wallet, price,
                  flashLoans>>
    BY DEF Tick, poolVars
<1>5. TypeOK' /\ FramesOK' /\ DebtImpliesBorrowingFlag'
    BY <1>3, <1>4 DEF IInv, TypeOK, FramesOK, DebtImpliesBorrowingFlag
<1>6. \A a \in Asset : ReserveOK(reserves[a], now) => ReserveOK(reserves[a], now')
  <2> SUFFICES ASSUME NEW a \in Asset, ReserveOK(reserves[a], now)
               PROVE  ReserveOK(reserves[a], now')
    OBVIOUS
  <2> DEFINE r == reserves[a]
  <2>1. r \in Reserve /\ r.lastUpdateTimestamp \in Nat /\ r.stableDebt.totalSupplyTimestamp \in Nat
        /\ \A u \in Account : r.stableDebt.timestamps[u] \in Nat
    BY InvFacts DEF Reserve, StableToken
  <2> QED BY <1>2, <1>3, <2>1 DEF ReserveOK, StablePast
<1>7. ReservesOK'
  <2> SUFFICES ASSUME NEW b \in Asset
               PROVE  /\ ReserveOK(reserves[b], now')
                      /\ b \in reservesList => ListedOK(reserves[b], now')
                      /\ BonusWithThreshold(reserves[b].config)
    BY <1>4 DEF ReservesOK
  <2> QED BY <1>6 DEF IInv, ReservesOK, ListedOK
<1>8. IndexStep
  <2> SUFFICES ASSUME NEW b \in reservesList
               PROVE  /\ getNormalizedIncome(reserves[b], now') >= getNormalizedIncome(reserves[b], now)
                      /\ reserves[b].variableBorrowIndex >= reserves[b].variableBorrowIndex
    BY <1>4 DEF IndexStep
  <2> DEFINE r == reserves[b]
             early == calculateLinearInterest(r.currentLiquidityRate, r.lastUpdateTimestamp, now)
             late  == calculateLinearInterest(r.currentLiquidityRate, r.lastUpdateTimestamp, now')
  <2>1. /\ r.currentLiquidityRate \in Nat /\ r.lastUpdateTimestamp \in Nat
        /\ r.lastUpdateTimestamp <= now /\ r.lastUpdateTimestamp <= now'
        /\ r.liquidityIndex \in Nat /\ r.variableBorrowIndex \in Nat
    <3>1. r \in Reserve /\ r.lastUpdateTimestamp <= now
      BY InvFacts DEF ListedOK, ReserveOK
    <3>2. r.lastUpdateTimestamp \in Nat
      BY <3>1, ReserveFields
    <3> QED BY <1>2, <1>3, <3>1, <3>2, ReserveFields
  <2>2. early \in Nat /\ late \in Nat /\ early <= late
    BY <1>2, <1>3, <2>1, LinearInterest, LinearInterestGrows
  <2>3. /\ r.lastUpdateTimestamp = now => early = RAY
        /\ r.lastUpdateTimestamp = now' => late = RAY
    BY <1>2, <1>3, <2>1, LinearInterest
  <2>4. /\ getNormalizedIncome(r, now) = rayMul(early, r.liquidityIndex)
        /\ getNormalizedIncome(r, now') = rayMul(late, r.liquidityIndex)
    <3>1. rayMul(RAY, r.liquidityIndex) = r.liquidityIndex
      BY <2>1, RayMulOne
    <3> QED BY <2>3, <3>1 DEF getNormalizedIncome
  <2> HIDE DEF early, late
  <2>5. rayMul(early, r.liquidityIndex) <= rayMul(late, r.liquidityIndex)
        /\ rayMul(early, r.liquidityIndex) \in Nat /\ rayMul(late, r.liquidityIndex) \in Nat
    BY <2>1, <2>2, RayMulMonotone, RoundedInNat
  <2> QED BY <2>1, <2>4, <2>5
<1> QED BY <1>4, <1>5, <1>7, <1>8 DEF Preserved, IInv, FactorStep

\* A price moving touches no reserve.
LEMMA PriceChangePreserves ==
    ASSUME IInv, PriceChange
    PROVE  Preserved
<1>1. PICK a \in Asset, p \in Nat : price' = [price EXCEPT ![a] = p]
    BY InputAssumption DEF PriceChange
<1>2. UNCHANGED <<poolVars, wallet, now, flashLoans>>
    BY DEF PriceChange
<1>3. TypeOK' /\ FramesOK'
    BY <1>1, <1>2 DEF IInv, TypeOK, FramesOK, poolVars
<1> QED BY <1>2, <1>3, OtherStep DEF poolVars

\* The configurations that the admin may write are well formed.
LEMMA AdminConfiguration ==
    ASSUME IInv, NEW a \in Asset
    PROVE  /\ \A b \in BOOLEAN :
                 /\ EnableBorrowingOnReserve(a, b) => Preserved
           /\ DisableBorrowingOnReserve(a) => Preserved
           /\ EnableReserveStableRate(a) => Preserved
           /\ DisableReserveStableRate(a) => Preserved
           /\ ActivateReserve(a) => Preserved
           /\ DeactivateReserve(a) => Preserved
           /\ FreezeReserve(a) => Preserved
           /\ UnfreezeReserve(a) => Preserved
           /\ \A f \in ReserveFactors : SetReserveFactor(a, f) => Preserved
<1> DEFINE c == reserves[a].config
<1>1. c \in Configuration /\ BonusWithThreshold(c)
    BY InvFacts, ReserveFields DEF IInv, ReservesOK
<1>2. ASSUME NEW d, d \in Configuration, d.liquidationThreshold = c.liquidationThreshold,
             d.liquidationBonus = c.liquidationBonus, setConfiguration(a, d),
             d.reserveFactor \in {c.reserveFactor} \cup ReserveFactors
      PROVE  Preserved
    BY <1>1, <1>2, SetConfigurationPreserves DEF BonusWithThreshold
<1> HIDE DEF c
<1>3. ASSUME NEW b \in BOOLEAN, EnableBorrowingOnReserve(a, b) PROVE Preserved
  <2> DEFINE d == [c EXCEPT !.borrowingEnabled = TRUE, !.stableRateBorrowingEnabled = b]
  <2>1. /\ d \in Configuration /\ d.liquidationThreshold = c.liquidationThreshold
        /\ d.liquidationBonus = c.liquidationBonus /\ d.reserveFactor = c.reserveFactor
    BY <1>1 DEF Configuration
  <2>2. setConfiguration(a, d)
    BY <1>3 DEF EnableBorrowingOnReserve, c
  <2> HIDE DEF d
  <2> QED BY <1>2, <2>1, <2>2
<1>4. ASSUME NEW d, \/ d = [c EXCEPT !.borrowingEnabled = FALSE]
                    \/ d = [c EXCEPT !.stableRateBorrowingEnabled = TRUE]
                    \/ d = [c EXCEPT !.stableRateBorrowingEnabled = FALSE]
                    \/ d = [c EXCEPT !.active = TRUE]
                    \/ d = [c EXCEPT !.active = FALSE]
                    \/ d = [c EXCEPT !.frozen = TRUE]
                    \/ d = [c EXCEPT !.frozen = FALSE],
             setConfiguration(a, d)
      PROVE  Preserved
  <2>1. /\ d \in Configuration /\ d.liquidationThreshold = c.liquidationThreshold
        /\ d.liquidationBonus = c.liquidationBonus /\ d.reserveFactor = c.reserveFactor
    BY <1>1, <1>4 DEF Configuration
  <2> QED BY <1>2, <1>4, <2>1
<1>5. ASSUME NEW f \in ReserveFactors, SetReserveFactor(a, f) PROVE Preserved
  <2> DEFINE d == [c EXCEPT !.reserveFactor = f]
  <2>1. /\ d \in Configuration /\ d.liquidationThreshold = c.liquidationThreshold
        /\ d.liquidationBonus = c.liquidationBonus /\ d.reserveFactor \in ReserveFactors
    BY <1>1, InputAssumption DEF Configuration
  <2>2. setConfiguration(a, d)
    BY <1>5 DEF SetReserveFactor, c
  <2> HIDE DEF d
  <2> QED BY <1>2, <2>1, <2>2
<1>6. DisableBorrowingOnReserve(a) => Preserved
    BY <1>4 DEF DisableBorrowingOnReserve, c
<1>7. EnableReserveStableRate(a) => Preserved
    BY <1>4 DEF EnableReserveStableRate, c
<1>8. DisableReserveStableRate(a) => Preserved
    BY <1>4 DEF DisableReserveStableRate, c
<1>9. ActivateReserve(a) => Preserved
    BY <1>4 DEF ActivateReserve, c
<1>10. DeactivateReserve(a) => Preserved
    BY <1>4 DEF DeactivateReserve, c
<1>11. FreezeReserve(a) => Preserved
    BY <1>4 DEF FreezeReserve, c
<1>12. UnfreezeReserve(a) => Preserved
    BY <1>4 DEF UnfreezeReserve, c
<1> QED BY <1>3, <1>5, <1>6, <1>7, <1>8, <1>9, <1>10, <1>11, <1>12

\* LendingPoolConfigurator.configureReserveAsCollateral.
LEMMA ConfigureReserveAsCollateralPreserves ==
    ASSUME IInv, NEW a \in Asset, NEW ltv \in Nat, NEW threshold \in Nat, NEW bonus \in Nat,
           ConfigureReserveAsCollateral(a, ltv, threshold, bonus)
    PROVE  Preserved
<1> DEFINE c == reserves[a].config
           d == [c EXCEPT !.ltv = ltv, !.liquidationThreshold = threshold,
                          !.liquidationBonus = bonus]
<1>1. c \in Configuration
    BY InvFacts, ReserveFields
<1>2. /\ d \in Configuration /\ d.liquidationThreshold = threshold
      /\ d.liquidationBonus = bonus /\ d.reserveFactor = c.reserveFactor
    BY <1>1 DEF Configuration
<1>3. /\ setConfiguration(a, d)
      /\ threshold # 0 => /\ bonus > PERCENTAGE_FACTOR
                          /\ percentMul(threshold, bonus) <= PERCENTAGE_FACTOR
    BY DEF ConfigureReserveAsCollateral, collateralParamsAccepted
<1> HIDE DEF d
<1>4. BonusWithThreshold(d)
    BY <1>2, <1>3 DEF BonusWithThreshold
<1> QED BY <1>2, <1>3, <1>4, SetConfigurationPreserves

\* LendingPoolConfigurator.setReserveInterestRateStrategyAddress.
LEMMA StrategyChangePreserves ==
    ASSUME IInv, NEW a \in Asset, NEW s \in Strategy, SetReserveInterestRateStrategyAddress(a, s)
    PROVE  Preserved
<1> DEFINE r == reserves[a]
<1>1. /\ r \in Reserve /\ reserves \in [Asset -> Reserve] /\ r.config \in Configuration
      /\ BonusWithThreshold(r.config)
    BY InvFacts, ReserveFields DEF IInv, ReservesOK
<1>2. /\ reserves' = [reserves EXCEPT ![a] = [r EXCEPT !.strategy = s]]
      /\ UNCHANGED <<reservesList, usersConfig, paused, borrowAllowance, wallet, price, now,
                     flashLoans>>
    BY <1>1 DEF SetReserveInterestRateStrategyAddress
<1>3. [r EXCEPT !.strategy = s] = [r EXCEPT !.config = r.config, !.strategy = s]
    BY <1>1 DEF Reserve
<1> QED BY <1>1, <1>2, <1>3, ReconfigurePreserves

\* Every step of the configurator.
LEMMA AdminStepPreserves ==
    ASSUME IInv, AdminStep
    PROVE  Preserved
<1>1. ASSUME NEW a \in Asset, NEW s \in Strategies, NEW n \in Units, InitReserve(a, s, n)
      PROVE  Preserved
    BY <1>1, InputAssumption, InitReservePreserves
<1>2. ASSUME NEW a \in AdminAssets, NEW p \in CollateralParams,
             ConfigureReserveAsCollateral(a, p.ltv, p.liquidationThreshold, p.liquidationBonus)
      PROVE  Preserved
    BY <1>2, InputAssumption, ConfigureReserveAsCollateralPreserves
<1>3. ASSUME NEW a \in AdminAssets, NEW s \in Strategies,
             SetReserveInterestRateStrategyAddress(a, s)
      PROVE  Preserved
    BY <1>3, InputAssumption, StrategyChangePreserves
<1>4. ASSUME NEW b \in PauseValues, SetPoolPause(b)
      PROVE  Preserved
  <2>1. paused' \in BOOLEAN
        /\ UNCHANGED <<reserves, reservesList, usersConfig, borrowAllowance, wallet, price, now,
                       flashLoans>>
    BY <1>4, InputAssumption DEF SetPoolPause
  <2>2. TypeOK' /\ FramesOK'
    BY <2>1 DEF IInv, TypeOK, FramesOK
  <2> QED BY <2>1, <2>2, OtherStep
<1>5. ASSUME NEW a \in AdminAssets,
             \/ \E b \in BOOLEAN : EnableBorrowingOnReserve(a, b)
             \/ DisableBorrowingOnReserve(a)
             \/ EnableReserveStableRate(a)
             \/ DisableReserveStableRate(a)
             \/ ActivateReserve(a)
             \/ DeactivateReserve(a)
             \/ FreezeReserve(a)
             \/ UnfreezeReserve(a)
             \/ \E f \in ReserveFactors : SetReserveFactor(a, f)
      PROVE  Preserved
    BY <1>5, InputAssumption, AdminConfiguration
<1> QED BY <1>1, <1>2, <1>3, <1>4, <1>5 DEF AdminStep

\* Every step of a user, and the withdrawals of the treasury.
LEMMA UserStepPreserves ==
    ASSUME IInv, UserStep \/ TreasuryStep
    PROVE  Preserved
<1>1. /\ User \subseteq Account /\ Treasury \in Account
      /\ DepositAmounts \subseteq Nat /\ WithdrawAmounts \subseteq Nat
      /\ BorrowAmounts \subseteq Nat /\ RepayAmounts \subseteq Nat
      /\ TransferAmounts \subseteq Nat /\ LiquidationAmounts \subseteq Nat
      /\ AllowanceAmounts \subseteq Nat
    BY InputAssumption, TreasuryAssumption
<1>2. CASE TreasuryStep
    BY <1>1, <1>2, WithdrawPreserves DEF TreasuryStep
<1>3. CASE UserStep
  <2>1. CASE DepositStep
    BY <1>1, <2>1, DepositPreserves DEF DepositStep
  <2>2. CASE WithdrawStep
    BY <1>1, <2>2, WithdrawPreserves DEF WithdrawStep
  <2>3. CASE BorrowStep
    BY <1>1, <2>3, BorrowPreserves DEF BorrowStep
  <2>4. CASE RepayStep
    BY <1>1, <2>4, RepayPreserves DEF RepayStep
  <2>5. CASE SwapStep
    BY <1>1, <2>5, SwapBorrowRateModePreserves DEF SwapStep
  <2>6. CASE RebalanceStep
    BY <1>1, <2>6, RebalancePreserves DEF RebalanceStep
  <2>7. CASE CollateralStep
    BY <1>1, <2>7, UseAsCollateralPreserves DEF CollateralStep
  <2>8. CASE TransferStep
    BY <1>1, <2>8, TransferPreserves DEF TransferStep
  <2>9. CASE ApproveStep
    BY <1>1, <2>9, ApproveDelegationPreserves DEF ApproveStep
  <2>10. CASE LiquidationStep
    BY <1>1, <2>10, LiquidationCallPreserves DEF LiquidationStep
  <2> QED BY <1>3, <2>1, <2>2, <2>3, <2>4, <2>5, <2>6, <2>7, <2>8, <2>9, <2>10 DEF UserStep
<1> QED BY <1>2, <1>3

\* Every step of a flash loan.
LEMMA FlashLoanStepPreserves ==
    ASSUME IInv, FlashLoanStep
    PROVE  Preserved
<1>1. ASSUME NEW u \in User, NEW v \in User, NEW w \in User, NEW legs \in FlashLoanLegs,
             FlashLoanBegin(u, v, legs, w)
      PROVE  Preserved
    BY <1>1, InputAssumption, FlashLoanBeginPreserves
<1> QED BY <1>1, FlashLoanLendPreserves, FlashLoanReturnPreserves, FlashLoanSettlePreserves
        DEF FlashLoanStep, FlashLoanBeginStep

-----------------------------------------------------------------------------
(* The invariant and what follows from it *)

\* The pool before any reserve is listed satisfies the invariant.
LEMMA InitialInvariant == Init => IInv
<1> SUFFICES ASSUME Init PROVE IInv
    OBVIOUS
<1>1. EmptyToken \in BalancedToken /\ EmptyToken.balance = [u \in Account |-> 0]
    BY EmptyTokenType DEF EmptyToken
<1>2. /\ EmptyStableToken \in StableToken
      /\ EmptyStableToken.balance = [u \in Account |-> 0]
      /\ EmptyStableToken.timestamps = [u \in Account |-> 0]
      /\ EmptyStableToken.totalSupplyTimestamp = 0
    BY DEF EmptyStableToken, StableToken
<1>3. EmptyConfiguration \in Configuration /\ EmptyConfiguration.liquidationThreshold = 0
    BY DEF EmptyConfiguration, Configuration
<1>4. EmptyReserve \in Reserve
    BY <1>1, <1>2, <1>3, BalancedTokenFields DEF EmptyReserve, Reserve
<1>5. /\ EmptyReserve.lastUpdateTimestamp = 0 /\ EmptyReserve.config = EmptyConfiguration
      /\ EmptyReserve.variableDebt = EmptyToken /\ EmptyReserve.stableDebt = EmptyStableToken
      /\ EmptyReserve.aToken = EmptyToken
    BY DEF EmptyReserve
<1>6. /\ reserves = [a \in Asset |-> EmptyReserve] /\ reservesList = {} /\ now = 1
      /\ usersConfig = [u \in Account |-> [collateral |-> {}, borrowing |-> {}]]
      /\ paused = FALSE
      /\ borrowAllowance = [a \in Asset |-> [m \in RateMode |->
                               [u \in Account |-> [v \in Account |-> 0]]]]
      /\ wallet = InitialWallet /\ price = InitialPrice /\ flashLoans = <<>>
    BY DEF Init
<1>7. TypeOK
  <2>1. [collateral |-> {}, borrowing |-> {}] \in UserConfiguration
    BY DEF UserConfiguration
  <2>2. usersConfig \in [Account -> UserConfiguration]
    BY <1>6, <2>1
  <2>3. reserves \in [Asset -> Reserve]
    BY <1>4, <1>6
  <2>4. borrowAllowance \in [Asset -> [RateMode -> [Account -> [Account -> Nat]]]]
    BY <1>6
  <2>5. flashLoans \in Seq(FlashLoanFrame)
    BY <1>6
  <2> QED BY <1>6, <2>2, <2>3, <2>4, <2>5, InputAssumption DEF TypeOK
<1>8. ReservesOK
    BY <1>1, <1>2, <1>3, <1>4, <1>5, <1>6 DEF ReservesOK, ReserveOK, StablePast, BonusWithThreshold
<1>9. FramesOK
    BY <1>6 DEF FramesOK
<1>10. DebtImpliesBorrowingFlag
    BY <1>1, <1>2, <1>5, <1>6 DEF DebtImpliesBorrowingFlag
<1> QED BY <1>7, <1>8, <1>9, <1>10 DEF IInv

\* Every step preserves what is owed to the invariant.
LEMMA StepPreserves ==
    ASSUME IInv, Next
    PROVE  Preserved
BY TickPreserves, PriceChangePreserves, UserStepPreserves, FlashLoanStepPreserves,
   AdminStepPreserves DEF Next

\* Every step keeps the invariant, and no index of a listed reserve falls in it.
LEMMA NextPreserves == IInv /\ [Next]_vars => IInv' /\ [IndexStep]_vars
<1> SUFFICES ASSUME IInv, [Next]_vars PROVE IInv' /\ [IndexStep]_vars
    OBVIOUS
<1>1. CASE Next
    BY <1>1, StepPreserves DEF Preserved
<1>2. CASE UNCHANGED vars
  <2>1. TypeOK' /\ FramesOK' /\ DebtImpliesBorrowingFlag' /\ ReservesOK'
    BY <1>2 DEF vars, poolVars, IInv, TypeOK, FramesOK, DebtImpliesBorrowingFlag, ReservesOK
  <2> QED BY <1>2, <2>1 DEF IInv
<1> QED BY <1>1, <1>2

\* The invariant holds throughout.
LEMMA InvariantHolds == Spec => []IInv
<1>1. Init => IInv
    BY InitialInvariant
<1>2. IInv /\ [Next]_vars => IInv'
    BY NextPreserves
<1> QED BY <1>1, <1>2, PTL DEF Spec

\* No sequence of calls, of any users and admins, with any amounts, takes a balance,
\* an index, a rate or a timestamp out of the unsigned integers the contracts keep.
THEOREM TypeCorrect == Spec => []TypeOK
<1>1. IInv => TypeOK
    BY DEF IInv
<1> QED BY <1>1, InvariantHolds, PTL

\* Whoever owes a unit of scaled variable debt or of stable principal is flagged as a
\* borrower of the reserve: what borrow, repay, swapBorrowRateMode,
\* rebalanceStableBorrowRate, liquidationCall and flashLoan do to the flags is enough
\* for the health factor to see every debt, whatever the rounding.
THEOREM DebtIsFlagged == Spec => []DebtImpliesBorrowingFlag
<1>1. IInv => DebtImpliesBorrowingFlag
    BY DEF IInv
<1> QED BY <1>1, InvariantHolds, PTL

\* The normalized income of a listed reserve, which aToken balances are multiplied
\* by, never falls, nor does the committed index of variable debt: in no operation of
\* the pool, under no change of configuration or strategy, and with no lapse of time.
THEOREM IndexesGrow == Spec => IndexesNeverDecrease
<1>1. IInv /\ [Next]_vars => [IndexStep]_vars
    BY NextPreserves
<1>2. IndexStep =>
        \A a \in reservesList :
          /\ getNormalizedIncome(reserves'[a], now') >= getNormalizedIncome(reserves[a], now)
          /\ reserves'[a].variableBorrowIndex >= reserves[a].variableBorrowIndex
    BY DEF IndexStep
<1> QED BY <1>1, <1>2, InvariantHolds, PTL DEF Spec, IndexesNeverDecrease

\* The scaled supply of aTokens and of variable debt, from which the interest of all
\* and the treasury's fee are computed, is what the accounts hold together, after any
\* mints, burns, transfers to oneself, seizures and fees minted in between.
THEOREM SupplyIsSum == Spec => []ScaledSupplyIsSumOfBalances
<1>1. \A f : sumOver(f) = Total(f, Account)
    BY DEF sumOver, Total
<1>2. IInv => ScaledSupplyIsSumOfBalances
    BY <1>1 DEF IInv, ReservesOK, ReserveOK, BalancedToken, ScaledSupplyIsSumOfBalances
<1> QED BY <1>2, InvariantHolds, PTL

\* No order of operations leaves a listed reserve whose updateState reverts, on
\* timestamps that cross or on a debt that shrank: no reserve is bricked.
THEOREM AccrualNeverReverts == Spec => []UpdateStateNeverReverts
<1>1. IInv => UpdateStateNeverReverts
    BY InvFacts, AccrualIsAccepted DEF UpdateStateNeverReverts
<1> QED BY <1>1, InvariantHolds, PTL

\* Under reserve factors of at most 100%, no reserve keeps more than 100% of the interest
\* from its depositors.
FactorsOK == \A a \in Asset : reserves[a].config.reserveFactor <= PERCENTAGE_FACTOR

\* No step takes a reserve factor above 100% if the admin may set none that is.
LEMMA FactorsHold ==
    ASSUME ReserveFactors \subseteq 0 .. PERCENTAGE_FACTOR
    PROVE  Spec => []FactorsOK
<1>1. Init => FactorsOK
  <2> SUFFICES ASSUME Init, NEW a \in Asset
               PROVE  reserves[a].config.reserveFactor <= PERCENTAGE_FACTOR
    BY DEF FactorsOK
  <2>1. reserves[a].config.reserveFactor = 0
    BY DEF Init, EmptyReserve, EmptyConfiguration
  <2> QED BY <2>1, ScalePositive
<1>2. IInv /\ FactorsOK /\ [Next]_vars => FactorsOK'
  <2> SUFFICES ASSUME IInv, FactorsOK, [Next]_vars, NEW a \in Asset
               PROVE  reserves'[a].config.reserveFactor <= PERCENTAGE_FACTOR
    BY DEF FactorsOK
  <2>1. CASE Next
    <3>1. FactorStep
      BY <2>1, StepPreserves DEF Preserved
    <3>2. \A f \in ReserveFactors : f <= PERCENTAGE_FACTOR
      BY ScalePositive
    <3>3. reserves'[a].config.reserveFactor \in {reserves[a].config.reserveFactor} \cup ReserveFactors
      BY <3>1 DEF FactorStep
    <3>4. reserves[a].config.reserveFactor <= PERCENTAGE_FACTOR
      BY DEF FactorsOK
    <3> QED BY <3>2, <3>3, <3>4
  <2>2. CASE UNCHANGED vars
    BY <2>2 DEF vars, poolVars, FactorsOK
  <2> QED BY <2>1, <2>2
<1> QED BY <1>1, <1>2, InvariantHolds, PTL DEF Spec

\* In a reserve that shares at most all of its interest with the treasury, the whole
\* balance of a depositor without debt may leave if the funds are there: what was
\* rounded to show it is rounded back to exactly the scaled tokens he holds.
LEMMA FullWithdrawal ==
    ASSUME IInv, FactorsOK, NEW a \in reservesList, NEW u \in Account, open(a),
           aTokenBalanceOf(reserves[a], u, now) > 0,
           aTokenBalanceOf(reserves[a], u, now) <= reserves[a].liquidity,
           usersConfig[u].borrowing = {}
    PROVE  WithdrawAccepted(u, a, aTokenBalanceOf(reserves[a], u, now))
<1> DEFINE r     == reserves[a]
           owned == aTokenBalanceOf(r, u, now)
           index == getNormalizedIncome(r, now)
           n     == updateState(r, now)
           held  == r.aToken.balance[u]
<1>1. now \in Nat /\ a \in Asset /\ ListedOK(r, now) /\ r.config.reserveFactor <= PERCENTAGE_FACTOR
    BY InvFacts DEF FactorsOK
<1>2. updateStateAccepted(r, now)
    BY <1>1, AccrualIsAccepted
<1>3. index \in Nat /\ index >= RAY
    BY <1>1, NormalizedIndexes
<1>4. r.aToken \in BalancedToken /\ held \in Nat /\ held <= r.aToken.supply
      /\ r.aToken.supply \in Nat /\ r.aToken.balance \in [Account -> Nat]
    BY <1>1, ReserveBooks, BalancedTokenFields
<1>5. owned = rayMul(held, index) /\ owned \in Nat /\ rayDiv(owned, index) = held
    BY <1>3, <1>4, RoundTrip, RoundedInNat DEF aTokenBalanceOf, balanceOf
<1>6. held # 0
    BY <1>3, <1>5, RayMulZero
<1>7. /\ n.liquidityIndex = index /\ n.liquidity = r.liquidity /\ n.config = r.config
      /\ \E fee \in Nat : /\ n.aToken.supply = r.aToken.supply + fee
                         /\ n.aToken.balance = [r.aToken.balance EXCEPT ![Treasury] = @ + fee]
    BY <1>1, <1>2, UpdateState
<1>8. r.liquidity \in Nat /\ owned <= r.liquidity /\ owned > 0
    BY <1>1, ReserveFields DEF ListedOK, ReserveOK
<1> HIDE DEF n, index, owned, r, held
<1>9. held <= n.aToken.supply /\ held <= n.aToken.balance[u]
  <2>1. PICK fee \in Nat : /\ n.aToken.supply = r.aToken.supply + fee
                           /\ n.aToken.balance = [r.aToken.balance EXCEPT ![Treasury] = @ + fee]
    BY <1>7
  <2>2. n.aToken.balance[u] = held \/ n.aToken.balance[u] = held + fee
    BY <1>4, <2>1, TreasuryAssumption DEF held
  <2> QED BY <1>4, <2>1, <2>2
<1>10. burnAccepted(n.aToken, u, owned, n.liquidityIndex)
    BY <1>5, <1>6, <1>7, <1>9 DEF burnAccepted, burnScaledAccepted
<1>11. updateInterestRatesAccepted(n, 0, owned)
    BY <1>1, <1>5, <1>7, <1>8 DEF updateInterestRatesAccepted
<1>12. validateWithdraw(u, a, owned, owned)
    BY <1>5, <1>8 DEF validateWithdraw, balanceDecreaseAllowed, open, r
<1> QED BY <1>2, <1>10, <1>11, <1>12
        DEF WithdrawAccepted, CanCall, Listed, open, n, r, owned

\* A depositor without debt can always withdraw all that balanceOf shows him, if the
\* reserve holds it, as long as the admin sets no reserve factor above 100% (the bound
\* setReserveFactor does not check: with more, every operation reverts).
THEOREM FullWithdrawalAccepted ==
    ASSUME ReserveFactors \subseteq 0 .. PERCENTAGE_FACTOR
    PROVE  Spec => []WithdrawInFullAccepted
<1>1. IInv /\ FactorsOK => WithdrawInFullAccepted
    BY InputAssumption, FullWithdrawal DEF WithdrawInFullAccepted
<1> QED BY <1>1, InvariantHolds, FactorsHold, PTL

\* The next accrual commits the interest that a reserve shows its variable debtors: its
\* depositors earn some, or none was earned yet, or there is nobody to charge it.
DebtorsAreCharged(r) ==
    \/ r.currentLiquidityRate > 0
    \/ r.lastUpdateTimestamp = now
    \/ r.variableDebt.supply = 0

\* In such a reserve the accrual makes the index of the debtors the one that was shown.
LEMMA ShownIsCommitted ==
    ASSUME NEW r, now \in Nat, ListedOK(r, now), DebtorsAreCharged(r), r.variableDebt.supply # 0
    PROVE  updateState(r, now).variableBorrowIndex = getNormalizedDebt(r, now)
<1> DEFINE c == calculateCompoundedInterest(r.currentVariableBorrowRate, r.lastUpdateTimestamp, now)
           i == r.variableBorrowIndex
<1>1. r \in Reserve
    BY DEF ListedOK, ReserveOK
<1>2. r.lastUpdateTimestamp = now => c = RAY
  <2>1. r.currentVariableBorrowRate \in Nat
    BY <1>1, ReserveFields
  <2>2. now \in Nat /\ now <= now
    OBVIOUS
  <2>3. calculateCompoundedInterest(r.currentVariableBorrowRate, now, now) = RAY
    BY <2>1, <2>2, CompoundedInterest
  <2> QED BY <2>3
<1>3. i \in Nat /\ rayMul(RAY, i) = i
    BY <1>1, ReserveFields, RayMulOne
<1>4. updateState(r, now).variableBorrowIndex
        = IF r.currentLiquidityRate > 0 THEN rayMul(c, i) ELSE i
    BY <1>1 DEF updateState, updateIndexes, Reserve
<1> HIDE DEF c, i
<1>5. getNormalizedDebt(r, now) = IF r.lastUpdateTimestamp = now THEN i ELSE rayMul(c, i)
    BY DEF getNormalizedDebt, c, i
<1> QED BY <1>2, <1>3, <1>4, <1>5 DEF DebtorsAreCharged

\* A debtor of such a reserve who asks for the maximum burns exactly the scaled debt he
\* has, or his whole stable debt.
LEMMA FullRepayment ==
    ASSUME IInv, FactorsOK, NEW a \in reservesList, NEW u \in User, NEW m \in RateMode, open(a),
           DebtorsAreCharged(reserves[a]),
           debtOfMode(a, u, m) > 0, debtOfMode(a, u, m) <= UINT_MAX
    PROVE  RepayAccepted(u, a, UINT_MAX, m, u)
<1> DEFINE r     == reserves[a]
           owed  == debtOfMode(a, u, m)
           n     == updateState(r, now)
           index == getNormalizedDebt(r, now)
           held  == r.variableDebt.balance[u]
           paid  == burnDebt(n, u, owed, m)
<1>1. /\ now \in Nat /\ a \in Asset /\ ListedOK(r, now)
      /\ r.config.reserveFactor <= PERCENTAGE_FACTOR /\ u \in Account
    BY InvFacts, InputAssumption DEF FactorsOK
<1>2. updateStateAccepted(r, now)
    BY <1>1, AccrualIsAccepted
<1>3. /\ ListedOK(n, now) /\ n.variableDebt = r.variableDebt /\ n.stableDebt = r.stableDebt
      /\ n.liquidity = r.liquidity /\ n.config = r.config
    BY <1>1, <1>2, UpdateState
<1>4. owed \in Nat /\ UINT_MAX \in Nat /\ paybackAmount(a, UINT_MAX, m, u) = owed
  <2>1. owed \in Nat
    BY <1>1, ReserveViews DEF debtOfMode
  <2> QED BY <2>1, UintMaxAssumption DEF paybackAmount
<1>5. validateRepay(u, a, UINT_MAX, m, u,
                    debtOfMode(a, u, STABLE), debtOfMode(a, u, VARIABLE_RATE))
    BY <1>4 DEF validateRepay, open, RateMode
<1>6. burnDebtAccepted(n, u, owed, m)
  <2>1. CASE m = STABLE
    <3>1. owed = stableBalanceOf(n.stableDebt, u, now)
      BY <1>3, <2>1 DEF debtOfMode, stableDebtBalanceOf
    <3> QED BY <1>4, <2>1, <3>1 DEF burnDebtAccepted, burnStableAccepted
  <2>2. CASE m # STABLE
    <3>1. owed = rayMul(held, index)
      BY <2>2 DEF debtOfMode, variableDebtBalanceOf, balanceOf
    <3>2. /\ held \in Nat /\ r.variableDebt.supply \in Nat /\ held <= r.variableDebt.supply
          /\ index \in Nat /\ index >= RAY
      BY <1>1, ReserveBooks, BalancedTokenFields, NormalizedIndexes
    <3>3. held # 0
      BY <1>4, <3>1, <3>2, RayMulZero
    <3>4. rayDiv(owed, index) = held
      BY <3>1, <3>2, RoundTrip
    <3>5. n.variableBorrowIndex = index
      <4>1. r.variableDebt.supply # 0
        BY <3>2, <3>3
      <4> QED BY <1>1, <4>1, ShownIsCommitted
    <3> QED BY <1>3, <2>2, <3>2, <3>3, <3>4, <3>5
            DEF burnDebtAccepted, burnAccepted, burnScaledAccepted
  <2> QED BY <2>1, <2>2
<1>7. updateInterestRatesAccepted(paid, owed, 0)
  <2>1. paid.liquidity = r.liquidity /\ paid.config = r.config /\ r.liquidity \in Nat
    <3>1. n \in Reserve /\ r \in Reserve
      BY <1>1, <1>3 DEF ListedOK, ReserveOK
    <3> HIDE DEF n, owed
    <3>2. paid.liquidity = n.liquidity /\ paid.config = n.config
      BY <3>1 DEF burnDebt, Reserve
    <3> QED BY <1>3, <3>1, <3>2, ReserveFields
  <2> HIDE DEF paid
  <2> QED BY <1>1, <1>4, <2>1 DEF updateInterestRatesAccepted
<1> HIDE DEF owed, n, paid
<1> QED BY <1>2, <1>4, <1>5, <1>6, <1>7
        DEF RepayAccepted, CanCall, Listed, open, r, n, paid

\* All debtors are charged what they are shown, and debts fit the width of a number.
DebtsAreCharged ==
    \A a \in reservesList :
        /\ DebtorsAreCharged(reserves[a])
        /\ \A u \in User : debtOf(a, u) <= UINT_MAX

\* As long as the admin sets no reserve factor above 100%, the full repayment of a debtor
\* who holds what he owes is refused only if the interest he is shown is not charged:
\* what ReserveLogic._updateIndexes leaves out (line 347) is the one reason.
THEOREM FullRepaymentAccepted ==
    ASSUME ReserveFactors \subseteq 0 .. PERCENTAGE_FACTOR
    PROVE  Spec => [](DebtsAreCharged => RepayInFullAccepted)
<1>1. IInv /\ FactorsOK => (DebtsAreCharged => RepayInFullAccepted)
  <2> SUFFICES ASSUME IInv, FactorsOK, DebtsAreCharged,
                      NEW a \in reservesList, NEW u \in User, NEW m \in RateMode,
                      open(a), debtOfMode(a, u, m) > 0
               PROVE  RepayAccepted(u, a, UINT_MAX, m, u)
    BY DEF RepayInFullAccepted
  <2>1. /\ debtOfMode(a, u, STABLE) \in Nat /\ debtOfMode(a, u, VARIABLE_RATE) \in Nat
        /\ m = STABLE \/ m = VARIABLE_RATE
    BY InvFacts, InputAssumption, ReserveViews DEF debtOfMode, RateMode
  <2>2. DebtorsAreCharged(reserves[a]) /\ debtOfMode(a, u, m) <= UINT_MAX
    BY <2>1, UintMaxAssumption DEF DebtsAreCharged, debtOf
  <2> QED BY <2>2, FullRepayment
<1> QED BY <1>1, InvariantHolds, FactorsHold, PTL

-----------------------------------------------------------------------------
(* Positions *)

\* What may be lent against c of collateral, at the threshold t, leaves room for the
\* bonus b.
LEMMA LentWithBonus ==
    ASSUME NEW c \in Nat, NEW t \in Nat, NEW b \in Nat,
           b > PERCENTAGE_FACTOR, percentMul(t, b) <= PERCENTAGE_FACTOR
    PROVE  /\ percentDiv(c, b) \in Nat
           /\ 2 * (c * t) <= (2 * PERCENTAGE_FACTOR) * percentDiv(c, b) + PERCENTAGE_FACTOR + c
<1> DEFINE F == PERCENTAGE_FACTOR
           h == F \div 2
           k == b \div 2
           q == percentDiv(c, b)
<1>1. F \in Nat \ {0} /\ b \in Nat \ {0} /\ b >= F + 1
    BY ScalePositive
<1>2. h \in Nat /\ 2 * h >= F - 1 /\ 2 * h <= F /\ k \in Nat /\ 2 * k >= b - 1
    BY <1>1
<1>3. (t * b + h) \div F <= F
    BY DEF percentMul
<1>4. t * b \in Nat /\ t * b + h \in Nat /\ c * F \in Nat /\ c * F + k \in Nat
    BY <1>1, <1>2
<1>5. t * b + h + 1 <= F * F + F
  <2>1. PICK x \in Nat : x = t * b + h
    BY <1>4
  <2>2. x \div F \in Nat /\ x < F * (x \div F) + F /\ x \div F <= F
    BY <1>1, <1>3, <2>1, DivProp
  <2>3. F * (x \div F) <= F * F
    BY <1>1, <2>2
  <2>4. F * (x \div F) \in Nat /\ F * F \in Nat
    BY <1>1, <2>2
  <2> QED BY <1>1, <2>1, <2>2, <2>3, <2>4
<1>6. q \in Nat /\ c * F + k + 1 <= b * q + b
  <2>1. PICK x \in Nat : x = c * F + k
    BY <1>4
  <2>2. q = x \div b
    BY <2>1 DEF percentDiv
  <2>3. x \div b \in Nat /\ x < b * (x \div b) + b
    BY <1>1, DivProp
  <2>4. b * q \in Nat
    BY <1>1, <2>2, <2>3
  <2> QED BY <1>1, <2>1, <2>2, <2>3, <2>4
<1> HIDE DEF F, h, k, q
<1>7. b * (2 * (c * t)) <= 2 * (F * (c * F)) + c * F
  <2>1. c * (2 * (t * b) + 1) <= c * (2 * (F * F) + F)
    <3>1. t * b \in Nat /\ F * F \in Nat
      BY <1>1, <1>4
    <3>2. 2 * (t * b) + 1 <= 2 * (F * F) + F
      BY <1>1, <1>2, <1>5, <3>1
    <3>3. PICK x \in Nat, y \in Nat : x = 2 * (t * b) + 1 /\ y = 2 * (F * F) + F
      BY <1>1, <3>1
    <3>4. c * x <= c * y
      BY <3>2, <3>3
    <3> QED BY <3>3, <3>4
  <2>2. /\ c * (2 * (t * b) + 1) = b * (2 * (c * t)) + c
        /\ c * (2 * (F * F) + F) = 2 * (F * (c * F)) + c * F
    BY <1>1
  <2>3. b * (2 * (c * t)) \in Nat /\ F * (c * F) \in Nat
    BY <1>1
  <2> QED BY <1>1, <1>4, <2>1, <2>2, <2>3
<1>8. 2 * (F * (c * F)) <= b * (2 * (F * q) + F)
  <2>1. b * q \in Nat
    BY <1>1, <1>6
  <2>2. 2 * (c * F) <= 2 * (b * q) + b
    BY <1>1, <1>2, <1>4, <1>6, <2>1
  <2>3. PICK x \in Nat, y \in Nat : x = 2 * (c * F) /\ y = 2 * (b * q) + b
    BY <1>1, <1>4, <2>1
  <2>4. F * x <= F * y
    BY <1>1, <2>2, <2>3
  <2>5. F * x = 2 * (F * (c * F)) /\ F * y = b * (2 * (F * q) + F)
    BY <1>1, <1>6, <2>3
  <2> QED BY <2>4, <2>5
<1>9. c * F <= b * c
    BY <1>1
<1>10. b * (2 * (c * t)) <= b * (2 * (F * q) + F + c)
  <2>1. /\ b * (2 * (F * q) + F + c) = b * (2 * (F * q) + F) + b * c
        /\ b * (2 * (F * q) + F) \in Nat /\ b * c \in Nat /\ c * F \in Nat
        /\ b * (2 * (c * t)) \in Nat /\ F * (c * F) \in Nat
    BY <1>1, <1>6
  <2> QED BY <1>7, <1>8, <1>9, <2>1
<1>11. 2 * (c * t) <= 2 * (F * q) + F + c
  <2>1. PICK x \in Nat, y \in Nat : x = 2 * (c * t) /\ y = 2 * (F * q) + F + c
    BY <1>1, <1>6
  <2>2. b * x <= b * y
    BY <1>10, <2>1
  <2>3. x <= y
    BY <1>1, <2>2
  <2> QED BY <2>1, <2>3
<1>12. 2 * (F * q) = (2 * F) * q
    BY <1>1, <1>6
<1> QED BY <1>6, <1>11, <1>12 DEF F, q

\* A debt with a health factor of at least one is no more than what its collateral
\* allows, but for half a unit of the factor.
LEMMA HealthyDebt ==
    ASSUME NEW c \in Nat, NEW t \in Nat, NEW d \in Nat \ {0},
           wadDiv(percentMul(c, t), d) >= WAD
    PROVE  /\ percentMul(c, t) \in Nat /\ d <= percentMul(c, t) + d \div (2 * WAD)
           /\ (2 * PERCENTAGE_FACTOR) * percentMul(c, t) <= 2 * (c * t) + PERCENTAGE_FACTOR
<1> DEFINE F == PERCENTAGE_FACTOR
           h == F \div 2
           m == percentMul(c, t)
<1>1. F \in Nat \ {0} /\ WAD \in Nat \ {0} /\ h \in Nat /\ 2 * h <= F
    BY ScalePositive
<1>2. m \in Nat /\ F * m <= c * t + h
  <2>1. PICK x \in Nat : x = c * t + h
    BY <1>1
  <2>2. m = x \div F
    BY <2>1 DEF percentMul
  <2> QED BY <1>1, <2>1, <2>2, DivProp
<1>3. (m * WAD + d \div 2) \div d >= WAD
    BY DEF wadDiv
<1> HIDE DEF F, h, m
<1>4. d * WAD <= m * WAD + d \div 2
  <2>1. m * WAD \in Nat /\ d \div 2 \in Nat
    BY <1>1, <1>2
  <2>2. PICK x \in Nat : x = m * WAD + d \div 2
    BY <2>1
  <2>3. x \div d \in Nat /\ d * (x \div d) <= x /\ x \div d >= WAD
    BY <1>3, <2>2, DivProp
  <2>4. d * WAD <= d * (x \div d)
    BY <1>1, <2>3
  <2>5. d * WAD \in Nat /\ d * (x \div d) \in Nat
    BY <1>1, <2>3
  <2> QED BY <2>2, <2>3, <2>4, <2>5
<1>5. (2 * WAD) * (d - m) <= d
  <2>1. 2 * (d \div 2) <= d
    OBVIOUS
  <2>2. (2 * WAD) * (d - m) = 2 * (d * WAD) - 2 * (m * WAD)
    BY <1>1, <1>2
  <2>3. d * WAD \in Nat /\ m * WAD \in Nat
    BY <1>1, <1>2
  <2> QED BY <1>4, <2>1, <2>2, <2>3
<1>6. d <= m + d \div (2 * WAD)
  <2>1. CASE d <= m
    BY <1>1, <1>2, <2>1, DivProp
  <2>2. CASE d > m
    <3>1. PICK x \in Nat : x = d - m
      BY <1>2, <2>2
    <3>2. PICK w \in Nat \ {0} : w = 2 * WAD
      BY <1>1
    <3>3. w * x <= d
      BY <1>5, <3>1, <3>2
    <3>4. d \div w \in Nat /\ d < w * (d \div w) + w
      BY DivProp
    <3>5. x <= d \div w
      <4>1. CASE x > d \div w
        <5>1. w * (d \div w + 1) <= w * x
          BY <3>4, <4>1
        <5>2. w * (d \div w + 1) = w * (d \div w) + w /\ w * (d \div w) \in Nat /\ w * x \in Nat
          BY <3>4
        <5> QED BY <3>3, <3>4, <5>1, <5>2
      <4> QED BY <3>4, <4>1
    <3> QED BY <1>2, <3>1, <3>2, <3>4, <3>5
  <2> QED BY <1>2, <2>1, <2>2
<1>7. (2 * F) * m <= 2 * (c * t) + F
  <2>1. (2 * F) * m = 2 * (F * m) /\ F * m \in Nat /\ c * t \in Nat
    BY <1>1, <1>2
  <2> QED BY <1>1, <1>2, <2>1
<1> QED BY <1>2, <1>6, <1>7 DEF F, m

\* The sums over reserves are totals.
LEMMA CollateralTotal ==
    ASSUME NEW u, NEW S, IsFiniteSet(S),
           NEW f, \A a \in S : f[a] = collateralInETH(reserves, price, u, a, now)
    PROVE  MapThenSumSet(LAMBDA a : collateralInETH(reserves, price, u, a, now), S) = Total(f, S)
<1> DEFINE amount(a) == collateralInETH(reserves, price, u, a, now)
           iter == CHOOSE g : g = [s \in SUBSET S |->
                                      IF s = {} THEN 0 ELSE amount(anyOf(s)) + g[s \ {anyOf(s)}]]
<1>1. PICK h : Sums(h, f, S)
    BY SumExists
<1>2. MapThenSumSet(LAMBDA a : collateralInETH(reserves, price, u, a, now), S) = iter[S]
    BY DEF MapThenSumSet, MapThenFoldSet, anyOf
<1>3. \A s \in SUBSET S : s # {} => f[anyOf(s)] = amount(anyOf(s))
    BY DEF anyOf
<1> HIDE DEF amount
<1>4. \A g : Sums(g, f, S)
               <=> g = [s \in SUBSET S |->
                           IF s = {} THEN 0 ELSE amount(anyOf(s)) + g[s \ {anyOf(s)}]]
    BY <1>3 DEF Sums, summed
<1>5. Sums(iter, f, S)
    BY <1>1, <1>4
<1> HIDE DEF iter
<1> QED BY <1>2, <1>5, TotalIsTheSum

\* ... weighted with the thresholds,
LEMMA LimitsTotal ==
    ASSUME NEW u, NEW S, IsFiniteSet(S),
           NEW f, \A a \in S : f[a] = collateralInETH(reserves, price, u, a, now)
                                * reserves[a].config.liquidationThreshold
    PROVE  MapThenSumSet(LAMBDA a : collateralInETH(reserves, price, u, a, now)
                                      * reserves[a].config.liquidationThreshold, S)
             = Total(f, S)
<1> DEFINE amount(a) == collateralInETH(reserves, price, u, a, now)
                                * reserves[a].config.liquidationThreshold
           iter == CHOOSE g : g = [s \in SUBSET S |->
                                      IF s = {} THEN 0 ELSE amount(anyOf(s)) + g[s \ {anyOf(s)}]]
<1>1. PICK h : Sums(h, f, S)
    BY SumExists
<1>2. MapThenSumSet(LAMBDA a : collateralInETH(reserves, price, u, a, now)
                                      * reserves[a].config.liquidationThreshold, S)
        = iter[S]
    BY DEF MapThenSumSet, MapThenFoldSet, anyOf
<1>3. \A s \in SUBSET S : s # {} => f[anyOf(s)] = amount(anyOf(s))
    BY DEF anyOf
<1> HIDE DEF amount
<1>4. \A g : Sums(g, f, S)
               <=> g = [s \in SUBSET S |->
                           IF s = {} THEN 0 ELSE amount(anyOf(s)) + g[s \ {anyOf(s)}]]
    BY <1>3 DEF Sums, summed
<1>5. Sums(iter, f, S)
    BY <1>1, <1>4
<1> HIDE DEF iter
<1> QED BY <1>2, <1>5, TotalIsTheSum

\* ... less the bonus,
LEMMA CoveredTotal ==
    ASSUME NEW u, NEW S, IsFiniteSet(S),
           NEW f, \A a \in S : f[a] = percentDiv(collateralInETH(reserves, price, u, a, now),
                                           reserves[a].config.liquidationBonus)
    PROVE  MapThenSumSet(LAMBDA a : percentDiv(collateralInETH(reserves, price, u, a, now),
                                           reserves[a].config.liquidationBonus), S)
             = Total(f, S)
<1> DEFINE amount(a) == percentDiv(collateralInETH(reserves, price, u, a, now),
                                           reserves[a].config.liquidationBonus)
           iter == CHOOSE g : g = [s \in SUBSET S |->
                                      IF s = {} THEN 0 ELSE amount(anyOf(s)) + g[s \ {anyOf(s)}]]
<1>1. PICK h : Sums(h, f, S)
    BY SumExists
<1>2. MapThenSumSet(LAMBDA a : percentDiv(collateralInETH(reserves, price, u, a, now),
                                           reserves[a].config.liquidationBonus), S)
        = iter[S]
    BY DEF MapThenSumSet, MapThenFoldSet, anyOf
<1>3. \A s \in SUBSET S : s # {} => f[anyOf(s)] = amount(anyOf(s))
    BY DEF anyOf
<1> HIDE DEF amount
<1>4. \A g : Sums(g, f, S)
               <=> g = [s \in SUBSET S |->
                           IF s = {} THEN 0 ELSE amount(anyOf(s)) + g[s \ {anyOf(s)}]]
    BY <1>3 DEF Sums, summed
<1>5. Sums(iter, f, S)
    BY <1>1, <1>4
<1> HIDE DEF iter
<1> QED BY <1>2, <1>5, TotalIsTheSum

\* ... and the debts.
LEMMA DebtsTotal ==
    ASSUME NEW u, NEW S, IsFiniteSet(S),
           NEW f, \A a \in S : f[a] = debtInETH(reserves, price, u, a, now)
    PROVE  MapThenSumSet(LAMBDA a : debtInETH(reserves, price, u, a, now), S)
             = Total(f, S)
<1> DEFINE amount(a) == debtInETH(reserves, price, u, a, now)
           iter == CHOOSE g : g = [s \in SUBSET S |->
                                      IF s = {} THEN 0 ELSE amount(anyOf(s)) + g[s \ {anyOf(s)}]]
<1>1. PICK h : Sums(h, f, S)
    BY SumExists
<1>2. MapThenSumSet(LAMBDA a : debtInETH(reserves, price, u, a, now), S)
        = iter[S]
    BY DEF MapThenSumSet, MapThenFoldSet, anyOf
<1>3. \A s \in SUBSET S : s # {} => f[anyOf(s)] = amount(anyOf(s))
    BY DEF anyOf
<1> HIDE DEF amount
<1>4. \A g : Sums(g, f, S)
               <=> g = [s \in SUBSET S |->
                           IF s = {} THEN 0 ELSE amount(anyOf(s)) + g[s \ {anyOf(s)}]]
    BY <1>3 DEF Sums, summed
<1>5. Sums(iter, f, S)
    BY <1>1, <1>4
<1> HIDE DEF iter
<1> QED BY <1>2, <1>5, TotalIsTheSum

\* Values are natural numbers, of reserves that are listed or not.
LEMMA ValuesType ==
    ASSUME IInv, NEW a \in Asset, NEW u \in Account
    PROVE  /\ collateralInETH(reserves, price, u, a, now) \in Nat
           /\ debtInETH(reserves, price, u, a, now) \in Nat
<1>1. reserves[a] \in Reserve /\ price[a] \in Nat /\ now \in Nat /\ ReserveOK(reserves[a], now)
    BY DEF IInv, TypeOK, ReservesOK
<1>2. reserves[a].config.unit \in Nat \ {0}
    BY <1>1 DEF Reserve, Configuration
<1>3. \A n \in Nat : valueInETH(reserves, price, a, n) \in Nat
  <2> SUFFICES ASSUME NEW n \in Nat PROVE valueInETH(reserves, price, a, n) \in Nat
    OBVIOUS
  <2>1. PICK x \in Nat, y \in Nat \ {0} : x = price[a] * n /\ y = reserves[a].config.unit
    BY <1>1, <1>2
  <2> QED BY <2>1, DivProp DEF valueInETH
<1>4. /\ aTokenBalanceOf(reserves[a], u, now) \in Nat
      /\ stableDebtBalanceOf(reserves[a], u, now) \in Nat
      /\ variableDebtBalanceOf(reserves[a], u, now) \in Nat
  <2> DEFINE r == reserves[a]
             l == calculateLinearInterest(r.currentLiquidityRate, r.lastUpdateTimestamp, now)
             c == calculateCompoundedInterest(r.currentVariableBorrowRate, r.lastUpdateTimestamp, now)
             i == getNormalizedIncome(r, now)
             d == getNormalizedDebt(r, now)
  <2>1. /\ r.liquidityIndex \in Nat /\ r.variableBorrowIndex \in Nat /\ r.lastUpdateTimestamp \in Nat
        /\ r.currentLiquidityRate \in Nat /\ r.currentVariableBorrowRate \in Nat
        /\ r.lastUpdateTimestamp <= now /\ r.stableDebt \in StableToken
        /\ r.aToken.balance[u] \in Nat /\ r.variableDebt.balance[u] \in Nat
    BY <1>1, ReserveFields DEF ReserveOK
  <2>2. l \in Nat /\ c \in Nat
    BY <1>1, <2>1, LinearInterest, CompoundedInterest
  <2> HIDE DEF l, c
  <2>3. i \in Nat /\ d \in Nat
    BY <2>1, <2>2, RoundedInNat DEF getNormalizedIncome, getNormalizedDebt, l, c
  <2> HIDE DEF i, d
  <2>4. rayMul(r.aToken.balance[u], i) \in Nat /\ rayMul(r.variableDebt.balance[u], d) \in Nat
    BY <2>1, <2>3, RoundedInNat
  <2>5. stableDebtBalanceOf(r, u, now) \in Nat
    BY <1>1, <2>1, StableViews DEF stableDebtBalanceOf, ReserveOK
  <2> QED BY <2>4, <2>5 DEF aTokenBalanceOf, variableDebtBalanceOf, balanceOf, i, d
<1> QED BY <1>3, <1>4 DEF collateralInETH, debtInETH

\* The reserves that count as collateral of u, what each is worth, and the same
\* weighted with its threshold.
counted(u) == {a \in usersConfig[u].collateral : reserves[a].config.liquidationThreshold # 0}

collaterals(u) == [a \in counted(u) |-> collateralInETH(reserves, price, u, a, now)]

limits(u) ==
    [a \in counted(u) |-> collateralInETH(reserves, price, u, a, now)
                             * reserves[a].config.liquidationThreshold]

\* What a user is shown of his position, in terms of totals.
LEMMA AccountDataTotals ==
    ASSUME IInv, NEW u \in Account
    PROVE  /\ counted(u) \subseteq Asset /\ IsFiniteSet(counted(u))
           /\ collaterals(u) \in [counted(u) -> Nat] /\ limits(u) \in [counted(u) -> Nat]
           /\ accountData(u).totalCollateral = Total(collaterals(u), counted(u))
           /\ Total(collaterals(u), counted(u)) \in Nat /\ Total(limits(u), counted(u)) \in Nat
           /\ accountData(u).liquidationThreshold
                = IF Total(collaterals(u), counted(u)) > 0
                  THEN Total(limits(u), counted(u)) \div Total(collaterals(u), counted(u))
                  ELSE 0
           /\ accountData(u).totalDebt \in Nat
           /\ accountData(u).healthFactor
                = calculateHealthFactorFromBalances(accountData(u).totalCollateral,
                     accountData(u).totalDebt, accountData(u).liquidationThreshold)
<1> PICK S : S = counted(u)
    OBVIOUS
<1> PICK c : c = [a \in S |-> collateralInETH(reserves, price, u, a, now)]
    OBVIOUS
<1> PICK w : w = [a \in S |-> collateralInETH(reserves, price, u, a, now)
                             * reserves[a].config.liquidationThreshold]
    OBVIOUS
<1>0. S = {a \in usersConfig[u].collateral : reserves[a].config.liquidationThreshold # 0}
      /\ c = collaterals(u) /\ w = limits(u)
    BY DEF counted, collaterals, limits
<1>1. /\ usersConfig[u].collateral \subseteq Asset /\ usersConfig[u].borrowing \subseteq Asset
      /\ S \subseteq Asset
    BY <1>0 DEF IInv, TypeOK, UserConfiguration
<1>2. IsFiniteSet(S) /\ IsFiniteSet(usersConfig[u].borrowing)
    BY <1>1, AssetAssumption, FS_Subset
<1>3. \A a \in S : /\ collateralInETH(reserves, price, u, a, now) \in Nat
                   /\ reserves[a].config.liquidationThreshold \in Nat
  <2> SUFFICES ASSUME NEW a \in S PROVE /\ collateralInETH(reserves, price, u, a, now) \in Nat
                                         /\ reserves[a].config.liquidationThreshold \in Nat
    OBVIOUS
  <2>1. a \in Asset /\ reserves[a] \in Reserve
    BY <1>1 DEF IInv, TypeOK
  <2> QED BY <2>1, ValuesType DEF Reserve, Configuration
<1>4. c \in [S -> Nat]
    BY <1>3
<1>5. w \in [S -> Nat]
    BY <1>3, <1>4
<1>6. MapThenSumSet(LAMBDA a : collateralInETH(reserves, price, u, a, now), S) = Total(c, S)
    BY <1>2, CollateralTotal
<1>7. \A a \in S : w[a] = collateralInETH(reserves, price, u, a, now)
                            * reserves[a].config.liquidationThreshold
    OBVIOUS
<1>8. MapThenSumSet(LAMBDA a : collateralInETH(reserves, price, u, a, now)
                                 * reserves[a].config.liquidationThreshold, S) = Total(w, S)
    BY <1>2, <1>7, LimitsTotal
<1>9. Total(c, S) \in Nat /\ Total(w, S) \in Nat
    BY <1>2, <1>4, <1>5, TotalType
<1> DEFINE B == usersConfig[u].borrowing
           d == [a \in B |-> debtInETH(reserves, price, u, a, now)]
<1>10. MapThenSumSet(LAMBDA a : debtInETH(reserves, price, u, a, now), B) = Total(d, B)
    BY <1>2, DebtsTotal
<1>11. Total(d, B) \in Nat
  <2>1. \A a \in B : d[a] \in Nat
    BY <1>1, ValuesType
  <2> HIDE DEF d
  <2> QED BY <1>2, <2>1, TotalType
<1> HIDE DEF d
<1>12. /\ accountData(u).totalCollateral = Total(c, S)
       /\ accountData(u).totalDebt = Total(d, B)
       /\ accountData(u).liquidationThreshold
                = IF Total(c, S) > 0 THEN Total(w, S) \div Total(c, S) ELSE 0
       /\ accountData(u).healthFactor
                = calculateHealthFactorFromBalances(accountData(u).totalCollateral,
                     accountData(u).totalDebt, accountData(u).liquidationThreshold)
    BY <1>0, <1>6, <1>8, <1>10 DEF accountData, calculateUserAccountData
<1> QED BY <1>0, <1>1, <1>2, <1>4, <1>5, <1>9, <1>11, <1>12

\* What collateral allows to owe, in sum, is covered by what it is worth less the bonus.
LEMMA LimitsAreCovered ==
    ASSUME NEW S, IsFiniteSet(S), NEW c \in [S -> Nat], NEW w \in [S -> Nat], NEW q \in [S -> Nat],
           \A a \in S : 2 * w[a] <= (2 * PERCENTAGE_FACTOR) * q[a] + PERCENTAGE_FACTOR + c[a]
    PROVE  2 * Total(w, S) <= (2 * PERCENTAGE_FACTOR) * Total(q, S)
                                + PERCENTAGE_FACTOR * Cardinality(S) + Total(c, S)
<1> DEFINE F  == PERCENTAGE_FACTOR
           G  == 2 * F
           w2 == [a \in S |-> 2 * w[a]]
           q2 == [a \in S |-> G * q[a]]
           k  == [a \in S |-> F]
           kc == [a \in S |-> k[a] + c[a]]
           r  == [a \in S |-> q2[a] + kc[a]]
<1>1. F \in Nat /\ G \in Nat /\ 2 \in Int /\ F \in Int /\ G \in Int
    BY ScalePositive
<1> HIDE DEF F, G
<1>2. /\ \A a \in S : c[a] \in Int /\ w[a] \in Int /\ q[a] \in Int
      /\ \A a \in S : w2[a] \in Int /\ q2[a] \in Int /\ k[a] \in Int /\ kc[a] \in Int /\ r[a] \in Int
    BY <1>1
<1>3. \A a \in S : w2[a] <= r[a]
  <2> SUFFICES ASSUME NEW a \in S PROVE w2[a] <= r[a]
    OBVIOUS
  <2>1. w2[a] = 2 * w[a] /\ r[a] = G * q[a] + (F + c[a])
    OBVIOUS
  <2>2. G * q[a] \in Int /\ c[a] \in Int /\ 2 * w[a] <= G * q[a] + F + c[a]
    BY <1>1, <1>2 DEF F, G
  <2> QED BY <1>1, <2>1, <2>2
<1>4. Total(w2, S) = 2 * Total(w, S)
  <2>1. \A a \in S : w2[a] = 2 * w[a]
    OBVIOUS
  <2> HIDE DEF w2
  <2> QED BY <1>1, <1>2, <2>1, TotalOfMultiples
<1>5. Total(q2, S) = G * Total(q, S)
  <2>1. \A a \in S : q2[a] = G * q[a]
    OBVIOUS
  <2> HIDE DEF q2
  <2> QED BY <1>1, <1>2, <2>1, TotalOfMultiples
<1>6. Total(k, S) = F * Cardinality(S)
  <2>1. \A a \in S : k[a] = F
    OBVIOUS
  <2> HIDE DEF k
  <2> QED BY <1>1, <2>1, TotalOfConstant
<1>7. Total(kc, S) = Total(k, S) + Total(c, S)
  <2>1. \A a \in S : kc[a] = k[a] + c[a]
    OBVIOUS
  <2> HIDE DEF kc, k
  <2> QED BY <1>2, <2>1, TotalOfSums
<1>8. Total(r, S) = Total(q2, S) + Total(kc, S)
  <2>1. \A a \in S : r[a] = q2[a] + kc[a]
    OBVIOUS
  <2> HIDE DEF r, q2, kc
  <2> QED BY <1>2, <2>1, TotalOfSums
<1>9. Total(w2, S) <= Total(r, S)
  <2> HIDE DEF w2, r
  <2> QED BY <1>2, <1>3, TotalMonotone
<1> HIDE DEF w2, q2, k, kc, r
<1>10. /\ Total(w, S) \in Int /\ Total(q, S) \in Int /\ Total(c, S) \in Int /\ Total(k, S) \in Int
       /\ Total(q2, S) \in Int /\ Total(kc, S) \in Int
    BY <1>2, TotalType
<1>11. 2 * Total(w, S) <= G * Total(q, S) + F * Cardinality(S) + Total(c, S)
    BY <1>4, <1>5, <1>6, <1>7, <1>8, <1>9, <1>10
<1> QED BY <1>11 DEF F, G

\* Whoever is healthy owes what the limits of his collateral allow, of which what is
\* covered is all but the rounding.
LEMMA CoveredDebt ==
    ASSUME NEW C \in Nat, NEW D \in Nat, NEW T \in Nat, NEW L \in Nat, NEW Q \in Nat,
           NEW n \in Nat, NEW F \in Nat \ {0}, F = PERCENTAGE_FACTOR,
           C * T <= L, calculateHealthFactorFromBalances(C, D, T) >= WAD,
           2 * L <= (2 * F) * Q + F * n + C
    PROVE  D <= Q + (C + (n + 1) * F) \div (2 * F) + D \div (2 * WAD)
<1> PICK x \in Nat : x = C + (n + 1) * F
    OBVIOUS
<1> PICK g \in Nat \ {0} : g = 2 * F
    OBVIOUS
<1> PICK v \in Nat \ {0} : v = 2 * WAD
    BY ScalePositive
<1> PICK y \in Nat : y = x \div g
    BY DivProp
<1>1. x < g * y + g
    BY DivProp
<1>2. D \div v \in Nat
    BY DivProp
<1>3. CASE D = 0
    BY <1>2, <1>3
<1>4. CASE D # 0
  <2>1. wadDiv(percentMul(C, T), D) >= WAD
    BY <1>4 DEF calculateHealthFactorFromBalances
  <2>2. PICK m : m = percentMul(C, T)
    OBVIOUS
  <2>3. /\ m \in Nat /\ D <= m + D \div v
        /\ g * m <= 2 * (C * T) + F
    BY <1>4, <2>1, <2>2, HealthyDebt
  <2>4. g * m <= g * Q + x
    <3>1. C * T \in Nat /\ 2 * (C * T) <= 2 * L
      OBVIOUS
    <3>2. x = C + F * n + F /\ F * n \in Nat /\ g * m \in Nat /\ g * Q \in Nat
      BY <2>3
    <3>3. 2 * L <= g * Q + F * n + C
      OBVIOUS
    <3> QED BY <2>3, <3>1, <3>2, <3>3
  <2>5. m <= Q + y
    <3>1. CASE m > Q + y
      <4>1. PICK z \in Nat : z = Q + y + 1
        BY ONLY Q \in Nat, y \in Nat
      <4>2. g * z <= g * m
        BY ONLY <2>3, <3>1, <4>1, g \in Nat \ {0}, Q \in Nat, y \in Nat, z \in Nat
      <4>3. g * z = g * Q + g * y + g /\ g * y \in Nat /\ g * Q \in Nat /\ g * m \in Nat
        BY ONLY <2>3, <4>1, g \in Nat \ {0}, Q \in Nat, y \in Nat, z \in Nat
      <4> QED BY <1>1, <2>4, <4>2, <4>3
    <3> QED BY <2>3, <3>1
  <2> QED BY <1>2, <2>3, <2>5
<1> QED BY <1>3, <1>4

\* The collateral of a healthy position pays for its debt and the bonus.
LEMMA HealthyIsCovered ==
    ASSUME IInv, NEW u \in Account, healthy(u), NEW S, S = counted(u)
    PROVE  accountData(u).totalDebt
             <= MapThenSumSet(LAMBDA a : percentDiv(collateralInETH(reserves, price, u, a, now),
                                                    reserves[a].config.liquidationBonus), S)
                  + (accountData(u).totalCollateral + (Cardinality(S) + 1) * PERCENTAGE_FACTOR)
                       \div (2 * PERCENTAGE_FACTOR)
                  + accountData(u).totalDebt \div (2 * WAD)
<1> PICK c : c = collaterals(u)
    OBVIOUS
<1> PICK w : w = limits(u)
    OBVIOUS
<1> PICK q : q = [a \in S |-> percentDiv(c[a], reserves[a].config.liquidationBonus)]
    OBVIOUS
<1>1. /\ S \subseteq Asset /\ IsFiniteSet(S) /\ c \in [S -> Nat] /\ w \in [S -> Nat]
      /\ accountData(u).totalCollateral = Total(c, S) /\ Total(c, S) \in Nat
      /\ Total(w, S) \in Nat
      /\ accountData(u).liquidationThreshold
           = IF Total(c, S) > 0 THEN Total(w, S) \div Total(c, S) ELSE 0
      /\ accountData(u).totalDebt \in Nat
      /\ accountData(u).healthFactor
           = calculateHealthFactorFromBalances(accountData(u).totalCollateral,
                accountData(u).totalDebt, accountData(u).liquidationThreshold)
  <2>1. /\ counted(u) \subseteq Asset /\ IsFiniteSet(counted(u))
        /\ collaterals(u) \in [counted(u) -> Nat] /\ limits(u) \in [counted(u) -> Nat]
        /\ accountData(u).totalCollateral = Total(collaterals(u), counted(u))
        /\ Total(collaterals(u), counted(u)) \in Nat /\ Total(limits(u), counted(u)) \in Nat
        /\ accountData(u).liquidationThreshold
             = IF Total(collaterals(u), counted(u)) > 0
               THEN Total(limits(u), counted(u)) \div Total(collaterals(u), counted(u))
               ELSE 0
        /\ accountData(u).totalDebt \in Nat
        /\ accountData(u).healthFactor
             = calculateHealthFactorFromBalances(accountData(u).totalCollateral,
                  accountData(u).totalDebt, accountData(u).liquidationThreshold)
    BY AccountDataTotals
  <2> QED BY <2>1
<1>2. \A a \in S : /\ q[a] \in Nat
                   /\ 2 * w[a] <= (2 * PERCENTAGE_FACTOR) * q[a] + PERCENTAGE_FACTOR + c[a]
  <2> SUFFICES ASSUME NEW a \in S
               PROVE  /\ q[a] \in Nat
                      /\ 2 * w[a] <= (2 * PERCENTAGE_FACTOR) * q[a] + PERCENTAGE_FACTOR + c[a]
    OBVIOUS
  <2>1. a \in Asset /\ reserves[a].config \in Configuration
    BY <1>1, InvFacts, ReserveFields
  <2>2. PICK x \in Nat, t \in Nat, b \in Nat :
           /\ x = c[a] /\ t = reserves[a].config.liquidationThreshold
           /\ b = reserves[a].config.liquidationBonus
    BY <1>1, <2>1 DEF Configuration
  <2>3. b > PERCENTAGE_FACTOR /\ percentMul(t, b) <= PERCENTAGE_FACTOR
    <3>1. reserves[a].config.liquidationThreshold # 0
      BY DEF counted
    <3>2. BonusWithThreshold(reserves[a].config)
      BY <2>1 DEF IInv, ReservesOK
    <3> QED BY <2>2, <3>1, <3>2 DEF BonusWithThreshold
  <2>4. w[a] = x * t /\ q[a] = percentDiv(x, b)
    BY <2>2 DEF collaterals, limits
  <2>5. /\ percentDiv(x, b) \in Nat
        /\ 2 * (x * t) <= (2 * PERCENTAGE_FACTOR) * percentDiv(x, b) + PERCENTAGE_FACTOR + x
    BY <2>3, LentWithBonus
  <2> QED BY <2>2, <2>4, <2>5
<1>3. q \in [S -> Nat]
    BY <1>2
<1>4. MapThenSumSet(LAMBDA a : percentDiv(collateralInETH(reserves, price, u, a, now),
                                          reserves[a].config.liquidationBonus), S)
        = Total(q, S)
  <2>1. \A a \in S : q[a] = percentDiv(collateralInETH(reserves, price, u, a, now),
                                        reserves[a].config.liquidationBonus)
    BY DEF collaterals
  <2>2. IsFiniteSet(S)
    BY <1>1
  <2> QED BY ONLY <2>1, <2>2, CoveredTotal
<1>5. 2 * Total(w, S) <= (2 * PERCENTAGE_FACTOR) * Total(q, S)
                           + PERCENTAGE_FACTOR * Cardinality(S) + Total(c, S)
    BY <1>1, <1>2, <1>3, LimitsAreCovered, ZenonT(60)
<1>6. Total(q, S) \in Nat /\ Cardinality(S) \in Nat
  <2>1. \A a \in S : q[a] \in Nat
    BY <1>2
  <2> QED BY <1>1, <2>1, TotalType, FS_CardinalityType
<1> PICK C \in Nat : C = Total(c, S)
    BY <1>1
<1> PICK L \in Nat : L = Total(w, S)
    BY <1>1
<1> PICK Q \in Nat : Q = Total(q, S)
    BY <1>6
<1> PICK n \in Nat : n = Cardinality(S)
    BY <1>6
<1> PICK F \in Nat \ {0} : F = PERCENTAGE_FACTOR
    BY ScalePositive
<1> PICK D \in Nat : D = accountData(u).totalDebt
    BY <1>1
<1> PICK T : T = accountData(u).liquidationThreshold
    OBVIOUS
<1>7. T \in Nat /\ C * T <= L
  <2>1. T = IF C > 0 THEN L \div C ELSE 0
    BY <1>1
  <2>2. CASE C > 0
    <3>1. C \in Nat \ {0} /\ T = L \div C
      BY ONLY <2>1, <2>2, C \in Nat
    <3> QED BY ONLY <3>1, L \in Nat, DivProp
  <2>3. CASE ~(C > 0)
    BY ONLY <2>1, <2>3, C \in Nat, L \in Nat
  <2> QED BY <2>2, <2>3
<1>8. calculateHealthFactorFromBalances(C, D, T) >= WAD
    BY <1>1 DEF healthy, HEALTH_FACTOR_LIQUIDATION_THRESHOLD
<1>9. 2 * L <= (2 * F) * Q + F * n + C
    BY <1>5
<1>10. D <= Q + (C + (n + 1) * F) \div (2 * F) + D \div (2 * WAD)
    BY <1>7, <1>8, <1>9, CoveredDebt, ZenonT(60)
<1> QED BY <1>1, <1>4, <1>10

\* No mix of collateral, configured in any order, lets a healthy position owe more
\* than its collateral is worth less the bonus of a liquidator: what
\* configureReserveAsCollateral checks for one reserve is enough for all together.
THEOREM HealthyPaysTheBonus == Spec => []BonusIsCovered
<1>1. IInv => BonusIsCovered
    BY HealthyIsCovered DEF BonusIsCovered, counted
<1> QED BY <1>1, InvariantHolds, PTL
=============================================================================
