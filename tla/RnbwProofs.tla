------------------------------ MODULE RnbwProofs ------------------------------
(***************************************************************************)
(* What the incentives pay.  No user is ever marked as paid beyond the     *)
(* index of a distribution, so that the subtraction in getRewards cannot   *)
(* revert and the hook never locks the tokens of anybody.  Claims change   *)
(* nobody's earnings, and a new emission none if its manager knows the     *)
(* supply; time pays no more than what is emitted in it.  What movements   *)
(* of tokens pay is not bounded: the hook takes the balance of the user    *)
(* for the supply.                                                         *)
(***************************************************************************)
EXTENDS RnbwIncentivesController, ReserveProofs

\* A distribution updated no later than now, whose users are behind its index.
DistributionOK(d, time) ==
    /\ d \in AssetData
    /\ d.lastUpdateTimestamp <= time
    /\ \A u \in Account : d.users[u] <= d.index

IInv ==
    /\ TypeOK
    /\ tokens \in [RewardedToken -> BalancedToken]
    /\ \A t \in RewardedToken : DistributionOK(assets[t], now)

-----------------------------------------------------------------------------
(* Distributions *)

\* The index of a distribution never falls, whatever it is told is staked.
LEMMA AssetIndexGrows ==
    ASSUME NEW time \in Nat, NEW d, DistributionOK(d, time), NEW staked \in Nat
    PROVE  getAssetIndex(d, staked, time) \in Nat /\ getAssetIndex(d, staked, time) >= d.index
<1>1. /\ d.emissionPerSecond \in Nat /\ d.lastUpdateTimestamp \in Nat /\ d.index \in Nat
      /\ d.lastUpdateTimestamp <= time
    BY DEF DistributionOK, AssetData
<1>2. PRECISION \in Nat /\ DISTRIBUTION_END \in Nat
    BY DistributionAssumption
<1>3. CASE d.emissionPerSecond = 0 \/ staked = 0 \/ d.lastUpdateTimestamp >= DISTRIBUTION_END
    BY <1>1, <1>3 DEF getAssetIndex
<1>4. CASE ~(d.emissionPerSecond = 0 \/ staked = 0 \/ d.lastUpdateTimestamp >= DISTRIBUTION_END)
  <2> DEFINE seconds == currentTimestamp(time) - d.lastUpdateTimestamp
  <2>1. seconds \in Nat
    BY <1>1, <1>2, <1>4 DEF currentTimestamp
  <2> DEFINE emission == d.emissionPerSecond * seconds * PRECISION
  <2>2. emission \in Nat
    <3> HIDE DEF seconds
    <3> QED BY <1>1, <1>2, <2>1
  <2>3. emission \div staked \in Nat
    <3> HIDE DEF emission
    <3>1. staked \in Nat \ {0}
      BY <1>4
    <3> QED BY <2>2, <3>1, DivProp
  <2>4. getAssetIndex(d, staked, time) = emission \div staked + d.index
    BY <1>4 DEF getAssetIndex
  <2> QED
    <3> HIDE DEF emission
    <3> QED BY <1>1, <2>3, <2>4
<1> QED BY <1>3, <1>4

\* Bringing a distribution up to date, marking a user as paid and setting another
\* emission all keep it well-formed.
LEMMA DistributionUpdates ==
    ASSUME NEW time \in Nat, NEW d, DistributionOK(d, time), NEW staked \in Nat,
           NEW u \in Account, NEW emission \in Nat
    PROVE  /\ DistributionOK(updateUserAsset(d, u, staked, time), time)
           /\ DistributionOK(configureAsset(d, emission, staked, time), time)
<1> DEFINE i == getAssetIndex(d, staked, time)
<1>1. i \in Nat /\ i >= d.index
    BY AssetIndexGrows
<1>2. /\ d \in AssetData /\ d.index \in Nat /\ d.users \in [Account -> Nat]
      /\ \A v \in Account : d.users[v] <= d.index
    BY DEF DistributionOK, AssetData
<1> DEFINE n == updateAssetState(d, staked, time)
<1>3. n = [d EXCEPT !.index = i, !.lastUpdateTimestamp = time]
    BY DEF updateAssetState
<1> HIDE DEF i
<1>4. n \in AssetData /\ n.index = i /\ n.lastUpdateTimestamp = time /\ n.users = d.users
    BY <1>1, <1>2, <1>3 DEF AssetData
<1>5. \A v \in Account : n.users[v] <= n.index
    BY <1>1, <1>2, <1>4
<1>6. DistributionOK(updateUserAsset(d, u, staked, time), time)
  <2>1. updateUserAsset(d, u, staked, time) = [n EXCEPT !.users[u] = n.index]
    BY DEF updateUserAsset
  <2> HIDE DEF n
  <2>2. [n EXCEPT !.users[u] = n.index] \in AssetData
    BY <1>1, <1>4 DEF AssetData
  <2> QED BY <1>1, <1>4, <1>5, <2>1, <2>2 DEF DistributionOK, AssetData
<1>7. DistributionOK(configureAsset(d, emission, staked, time), time)
  <2>1. configureAsset(d, emission, staked, time) = [n EXCEPT !.emissionPerSecond = emission]
    BY DEF configureAsset
  <2> HIDE DEF n
  <2> QED BY <1>4, <1>5, <2>1 DEF DistributionOK, AssetData
<1> QED BY <1>6, <1>7

\* What a user is owed on a balance is unsigned.
LEMMA RewardsType ==
    ASSUME NEW time \in Nat, NEW d, DistributionOK(d, time), NEW u \in Account,
           NEW held \in Nat, NEW staked \in Nat
    PROVE  accruedRewards(d, u, held, staked, time) \in Nat
<1> DEFINE i == getAssetIndex(d, staked, time)
<1>1. i \in Nat /\ i >= d.index
    BY AssetIndexGrows
<1>2. d.users[u] \in Nat /\ d.users[u] <= d.index /\ d.index \in Nat
    BY DEF DistributionOK, AssetData
<1> HIDE DEF i
<1>3. i - d.users[u] \in Nat
    BY <1>1, <1>2
<1>4. held * (i - d.users[u]) \in Nat
  <2> DEFINE k == i - d.users[u]
  <2>1. k \in Nat
    BY <1>3
  <2> HIDE DEF k
  <2>2. held * k \in Nat
    BY <2>1
  <2> QED BY <2>2 DEF k
<1> QED BY <1>4, DivProp, DistributionAssumption DEF accruedRewards, getRewards, i

-----------------------------------------------------------------------------
(* Sums of rewards *)

\* What a user has accrued on each token since he was last paid on it.
owed(u) == [t \in RewardedToken |->
               accruedRewards(assets[t], u, tokens[t].balance[u], tokens[t].supply, now)]

\* accruedOn is the sum of what is owed on the tokens named.
LEMMA AccruedIsTotal ==
    \A u \in Account, claimed \in SUBSET RewardedToken :
        accruedOn(claimed, u) = Total(owed(u), claimed)
<1> SUFFICES ASSUME NEW u \in Account, NEW claimed \in SUBSET RewardedToken
             PROVE  accruedOn(claimed, u) = Total(owed(u), claimed)
    OBVIOUS
<1> DEFINE amount(t) == accruedRewards(assets[t], u, tokens[t].balance[u], tokens[t].supply, now)
           iter == CHOOSE g : g = [s \in SUBSET claimed |->
                                      IF s = {} THEN 0
                                      ELSE amount(anyOf(s)) + g[s \ {anyOf(s)}]]
<1>1. IsFiniteSet(claimed)
    BY RewardedTokenAssumption, PartsAreFinite
<1>2. PICK h : Sums(h, owed(u), claimed)
    BY <1>1, SumExists
<1>3. accruedOn(claimed, u) = iter[claimed]
    BY DEF accruedOn, MapThenSumSet, MapThenFoldSet, anyOf
<1>4. \A s \in SUBSET claimed : s # {} => owed(u)[anyOf(s)] = amount(anyOf(s))
    BY DEF owed, anyOf
<1>5. \A g : Sums(g, owed(u), claimed)
               <=> g = [s \in SUBSET claimed |->
                           IF s = {} THEN 0 ELSE amount(anyOf(s)) + g[s \ {anyOf(s)}]]
    BY <1>4 DEF Sums, summed
<1> HIDE DEF amount
<1>6. Sums(iter, owed(u), claimed)
    BY <1>2, <1>5
<1> HIDE DEF iter
<1> QED BY <1>1, <1>3, <1>6, TotalIsTheSum

\* What the invariant says of each variable, for the steps that use one.
LEMMA InvFacts ==
    ASSUME IInv
    PROVE  /\ now \in Nat /\ rewardHeld \in Nat
           /\ usersUnclaimedRewards \in [Account -> Nat] /\ rewardPaid \in [Account -> Nat]
           /\ tokens \in [RewardedToken -> BalancedToken]
           /\ assets \in [RewardedToken -> AssetData]
           /\ \A t \in RewardedToken :
                 /\ DistributionOK(assets[t], now)
                 /\ tokens[t] \in BalancedToken /\ tokens[t].supply \in Nat
                 /\ \A u \in Account : tokens[t].balance[u] \in Nat
BY BalancedTokenFields DEF IInv, TypeOK

\* What a user is owed is unsigned, on each token and on any of them together.
LEMMA OwedType ==
    ASSUME IInv, NEW u \in Account
    PROVE  /\ \A t \in RewardedToken : owed(u)[t] \in Nat
           /\ \A claimed \in SUBSET RewardedToken : Total(owed(u), claimed) \in Nat
<1>1. \A t \in RewardedToken : owed(u)[t] \in Nat
    BY InvFacts, RewardsType DEF owed
<1> QED BY <1>1, RewardedTokenAssumption, TotalType

OwedUnsigned == IInv => \A u \in Account, t \in RewardedToken : owed(u)[t] \in Nat

\* What a user is owed is unsigned in the next state as well.
LEMMA OwedNextType == OwedUnsigned'
<1>1. OwedUnsigned
    BY OwedType DEF OwedUnsigned
<1> QED BY <1>1, PTL

-----------------------------------------------------------------------------
(* The invariant *)

\* A step that moves tokens, credits rewards and leaves well-formed distributions.
LEMMA AssetsChange ==
    ASSUME IInv, now' = now, tokens' \in [RewardedToken -> BalancedToken],
           usersUnclaimedRewards' \in [Account -> Nat], rewardHeld' \in Nat,
           rewardPaid' \in [Account -> Nat],
           NEW f, assets' = [t \in RewardedToken |-> f[t]],
           \A t \in RewardedToken : DistributionOK(f[t], now)
    PROVE  IInv'
<1>1. \A t \in RewardedToken : assets'[t] = f[t]
    OBVIOUS
<1>2. \A t \in RewardedToken : DistributionOK(assets'[t], now')
    BY <1>1
<1>3. assets' \in [RewardedToken -> AssetData]
    BY <1>1 DEF DistributionOK
<1>4. tokens' \in [RewardedToken -> Token]
    BY DEF BalancedToken
<1> QED BY <1>2, <1>3, <1>4 DEF IInv, TypeOK, DistributionOK

\* The same when one distribution changes.
LEMMA OneAssetChanges ==
    ASSUME IInv, now' = now, tokens' \in [RewardedToken -> BalancedToken],
           usersUnclaimedRewards' \in [Account -> Nat], rewardHeld' \in Nat,
           rewardPaid' \in [Account -> Nat],
           NEW t \in RewardedToken, NEW d, DistributionOK(d, now),
           assets' = [assets EXCEPT ![t] = d]
    PROVE  IInv'
<1> DEFINE f == [assets EXCEPT ![t] = d]
<1>1. assets' = [x \in RewardedToken |-> f[x]]
    BY InvFacts
<1>2. \A x \in RewardedToken : DistributionOK(f[x], now)
    BY InvFacts
<1> HIDE DEF f
<1> QED BY <1>1, <1>2, AssetsChange

\* Crediting a user in the hook keeps the unclaimed rewards unsigned.
LEMMA CreditType ==
    ASSUME NEW time \in Nat, time = now, NEW d, DistributionOK(d, time), NEW u \in Account,
           NEW held \in Nat, NEW staked \in Nat, NEW unclaimed \in [Account -> Nat]
    PROVE  unclaimedAfterAction(d, unclaimed, u, held, staked) \in [Account -> Nat]
<1>1. accruedRewards(d, u, held, staked, now) \in Nat
    BY RewardsType
<1> QED BY <1>1 DEF unclaimedAfterAction

\* The hook, with any balance and supply, keeps the invariant.
LEMMA ReportPreserves ==
    ASSUME IInv, now' = now, tokens' \in [RewardedToken -> BalancedToken],
           rewardHeld' = rewardHeld, rewardPaid' = rewardPaid,
           NEW t \in RewardedToken, NEW u \in Account, NEW s \in Nat, NEW b \in Nat,
           report(t, u, s, b)
    PROVE  IInv'
<1> DEFINE d == updateUserAsset(assets[t], u, b, now)
<1>1. DistributionOK(assets[t], now) /\ now \in Nat
    BY InvFacts
<1>2. DistributionOK(d, now)
    BY <1>1, DistributionUpdates
<1>3. assets' = [assets EXCEPT ![t] = d]
    BY DEF report, handleAction
<1>4. usersUnclaimedRewards' \in [Account -> Nat] /\ rewardHeld' \in Nat
      /\ rewardPaid' \in [Account -> Nat]
    BY <1>1, InvFacts, CreditType DEF report
<1> HIDE DEF d
<1> QED BY <1>2, <1>3, <1>4, OneAssetChanges

\* A change of one token to a token keeps the tokens well-formed.
LEMMA TokenChanges ==
    ASSUME IInv, NEW t \in RewardedToken, NEW x \in BalancedToken,
           tokens' = [tokens EXCEPT ![t] = x]
    PROVE  tokens' \in [RewardedToken -> BalancedToken]
BY InvFacts

\* A mint, with its handleAction call, keeps the invariant.
LEMMA MintPreserves ==
    ASSUME IInv, NEW t \in RewardedToken, NEW u \in Account, NEW n \in Nat, Mint(t, u, n)
    PROVE  IInv'
<1>1. tokens[t] \in BalancedToken /\ tokens[t].balance[u] \in Nat /\ tokens[t].supply \in Nat
    BY InvFacts
<1>2. mintScaled(tokens[t], u, n) \in BalancedToken
    BY <1>1, ScaledTokenType
<1>3. tokens' \in [RewardedToken -> BalancedToken]
    BY <1>2, TokenChanges DEF Mint
<1> QED BY <1>1, <1>3, ReportPreserves DEF Mint

\* A burn, with its handleAction call, keeps the invariant.
LEMMA BurnPreserves ==
    ASSUME IInv, NEW t \in RewardedToken, NEW u \in Account, NEW n \in Nat, Burn(t, u, n)
    PROVE  IInv'
<1>1. tokens[t] \in BalancedToken /\ tokens[t].balance[u] \in Nat /\ tokens[t].supply \in Nat
    BY InvFacts
<1>2. burnScaled(tokens[t], u, n) \in BalancedToken
    BY <1>1, ScaledTokenType DEF Burn
<1>3. tokens' \in [RewardedToken -> BalancedToken]
    BY <1>2, TokenChanges DEF Burn
<1> QED BY <1>1, <1>3, ReportPreserves DEF Burn

\* A transfer, with the handleAction calls for both sides, keeps the invariant.
LEMMA TransferPreserves ==
    ASSUME IInv, NEW t \in RewardedToken, NEW u \in Account, NEW v \in Account,
           NEW n \in Nat, Transfer(t, u, v, n)
    PROVE  IInv'
<1> DEFINE s == tokens[t].supply
           hadU == tokens[t].balance[u]
           hadV == tokens[t].balance[v]
<1>1. /\ tokens[t] \in BalancedToken /\ s \in Nat /\ hadU \in Nat /\ hadV \in Nat
      /\ usersUnclaimedRewards \in [Account -> Nat]
    BY InvFacts
<1>2. transferScaled(tokens[t], u, v, n) \in BalancedToken
    BY <1>1, ScaledTokenType DEF Transfer
<1>3. /\ tokens' \in [RewardedToken -> BalancedToken] /\ now' = now
      /\ rewardHeld' = rewardHeld /\ rewardPaid' = rewardPaid
    BY <1>2, TokenChanges DEF Transfer
<1>4. CASE u = v
    BY <1>1, <1>3, <1>4, ReportPreserves DEF Transfer
<1>5. CASE u # v
  <2> DEFINE d1 == updateUserAsset(assets[t], u, hadU, now)
             d2 == updateUserAsset(d1, v, hadV, now)
             u1 == unclaimedAfterAction(assets[t], usersUnclaimedRewards, u, s, hadU)
             u2 == unclaimedAfterAction(d1, u1, v, s, hadV)
  <2>1. DistributionOK(assets[t], now) /\ now \in Nat
    BY InvFacts
  <2>2. assets' = [assets EXCEPT ![t] = d2] /\ usersUnclaimedRewards' = u2
    BY <1>5 DEF Transfer, handleAction
  <2> HIDE DEF s, hadU, hadV
  <2>3. DistributionOK(d1, now) /\ u1 \in [Account -> Nat]
    BY <1>1, <2>1, DistributionUpdates, CreditType
  <2> HIDE DEF d1, u1
  <2>4. DistributionOK(d2, now) /\ u2 \in [Account -> Nat]
    BY <1>1, <2>1, <2>3, DistributionUpdates, CreditType
  <2> HIDE DEF d2, u2
  <2> QED BY <1>3, <2>2, <2>4, InvFacts, OneAssetChanges
<1> QED BY <1>4, <1>5

\* Configuring an emission keeps the invariant, whatever is said to be staked.
LEMMA ConfigurePreserves ==
    ASSUME IInv, NEW t \in RewardedToken, NEW e \in Nat, NEW staked \in Nat,
           ConfigureAssets(t, e, staked)
    PROVE  IInv'
<1> DEFINE d == configureAsset(assets[t], e, staked, now)
<1>1. DistributionOK(assets[t], now) /\ now \in Nat
    BY InvFacts
<1>2. DistributionOK(d, now)
    BY <1>1, TreasuryAssumption, DistributionUpdates
<1>3. /\ assets' = [assets EXCEPT ![t] = d] /\ now' = now
      /\ tokens' = tokens /\ usersUnclaimedRewards' = usersUnclaimedRewards
      /\ rewardHeld' = rewardHeld /\ rewardPaid' = rewardPaid
    BY DEF ConfigureAssets
<1> HIDE DEF d
<1> QED BY <1>2, <1>3, InvFacts, OneAssetChanges

\* A claim stores the current index for its user, pays no more than is owed and held,
\* and keeps the invariant.
LEMMA ClaimPreserves ==
    ASSUME IInv, NEW u \in Account, NEW claimed \in SUBSET RewardedToken, NEW n \in Nat,
           ClaimRewards(u, claimed, n)
    PROVE  IInv'
<1> DEFINE f == [t \in RewardedToken |->
                    IF t \in claimed
                    THEN updateUserAsset(assets[t], u, tokens[t].supply, now)
                    ELSE assets[t]]
           unclaimed == getRewardsBalance(claimed, u)
           paid      == amountToClaim(n, unclaimed)
<1>1. ASSUME NEW t \in RewardedToken
      PROVE  DistributionOK(f[t], now)
  <2>1. DistributionOK(assets[t], now) /\ now \in Nat /\ tokens[t].supply \in Nat
    BY InvFacts
  <2>2. DistributionOK(updateUserAsset(assets[t], u, tokens[t].supply, now), now)
    BY <2>1, DistributionUpdates
  <2> QED BY <2>1, <2>2
<1>2. assets' = [t \in RewardedToken |-> f[t]]
    BY DEF ClaimRewards, assetsAfterClaim
<1>3. /\ now' = now /\ tokens' = tokens /\ paid <= rewardHeld
      /\ usersUnclaimedRewards' = [usersUnclaimedRewards EXCEPT ![u] = unclaimed - paid]
      /\ rewardHeld' = rewardHeld - paid /\ rewardPaid' = [rewardPaid EXCEPT ![u] = @ + paid]
    BY DEF ClaimRewards
<1>4. unclaimed \in Nat
    BY InvFacts, OwedType, AccruedIsTotal DEF getRewardsBalance
<1>5. paid \in Nat /\ paid <= unclaimed
    BY <1>4 DEF amountToClaim
<1> HIDE DEF f, unclaimed, paid
<1>6. /\ usersUnclaimedRewards' \in [Account -> Nat] /\ rewardHeld' \in Nat
      /\ rewardPaid' \in [Account -> Nat] /\ tokens' \in [RewardedToken -> BalancedToken]
    BY <1>3, <1>4, <1>5, InvFacts
<1> QED BY <1>1, <1>2, <1>3, <1>6, AssetsChange

\* Time passing moves no stored index.
LEMMA TickPreserves ==
    ASSUME IInv, Tick
    PROVE  IInv'
<1>1. /\ now' \in Nat /\ now <= now' /\ tokens' = tokens /\ assets' = assets
      /\ usersUnclaimedRewards' = usersUnclaimedRewards
      /\ rewardHeld' = rewardHeld /\ rewardPaid' = rewardPaid
    BY ControllerAssumption, InvFacts DEF Tick, controllerVars
<1> QED BY <1>1 DEF IInv, TypeOK, DistributionOK, AssetData

\* The deployed controller satisfies the invariant.
LEMMA InitialInvariant == Init => IInv
<1> SUFFICES ASSUME Init PROVE IInv
    OBVIOUS
<1>1. EmptyToken \in BalancedToken /\ EmptyToken \in Token
    BY EmptyTokenType, BalancedTokenFields
<1>2. EmptyAssetData \in AssetData /\ DistributionOK(EmptyAssetData, 1)
    BY DEF EmptyAssetData, AssetData, DistributionOK
<1> QED BY <1>1, <1>2, ControllerAssumption DEF Init, IInv, TypeOK

\* Every step of the controller keeps the invariant.
LEMMA NextPreserves == IInv /\ [Next]_vars => IInv'
<1> SUFFICES ASSUME IInv, [Next]_vars PROVE IInv'
    OBVIOUS
<1>1. CASE TokenStep
    BY <1>1, ControllerAssumption, MintPreserves, BurnPreserves, TransferPreserves DEF TokenStep
<1>2. CASE ManagerStep
  <2>1. PICK t \in RewardedToken : \E n \in StakesWritten \cup {tokens[t].supply} : Configured(t, n)
    BY <1>2 DEF ManagerStep
  <2>2. PICK staked \in StakesWritten \cup {tokens[t].supply}, e \in Emissions :
          ConfigureAssets(t, e, staked)
    BY <2>1 DEF Configured
  <2>3. staked \in Nat /\ e \in Nat
    BY <2>1, <2>2, ControllerAssumption, InvFacts
  <2> QED BY <2>2, <2>3, ConfigurePreserves
<1>3. CASE ClaimStep
    BY <1>3, ControllerAssumption, ClaimPreserves DEF ClaimStep
<1>4. CASE Tick
    BY <1>4, TickPreserves
<1>5. CASE UNCHANGED vars
    BY <1>5 DEF vars, controllerVars, IInv, TypeOK, DistributionOK
<1> QED BY <1>1, <1>2, <1>3, <1>4, <1>5 DEF Next

\* The invariant holds throughout.
LEMMA InvariantHolds == Spec => []IInv
BY InitialInvariant, NextPreserves, PTL DEF Spec

\* The balances, indexes and rewards stay unsigned: claims never take the unclaimed
\* rewards of a user, nor the fund of the controller, below zero.
THEOREM TypeCorrect == Spec => []TypeOK
<1>1. IInv => TypeOK
    BY DEF IInv
<1> QED BY <1>1, InvariantHolds, PTL

\* No user is marked as paid beyond the index of a distribution, whatever he holds,
\* moves or claims and whatever the emissions: getRewards never subtracts below zero,
\* and the hook never refuses a transfer, a mint or a burn.
THEOREM UsersStayBehindTheIndex == Spec => []UserIndexNotAhead
<1>1. IInv => UserIndexNotAhead
    BY DEF IInv, UserIndexNotAhead, DistributionOK
<1> QED BY <1>1, InvariantHolds, PTL

-----------------------------------------------------------------------------
(* Claims and new emissions *)

\* What a user earned: his payments, his unclaimed rewards, and what he is owed.
EarningsAddUp ==
    \A u \in Account :
        earned(u) = rewardPaid[u] + (usersUnclaimedRewards[u] + Total(owed(u), RewardedToken))

\* So it is in every state, and in the next.
LEMMA EarnedIsTotal == EarningsAddUp /\ EarningsAddUp'
<1>1. EarningsAddUp
    BY AccruedIsTotal DEF earned, getRewardsBalance, EarningsAddUp
<1> QED BY <1>1, PTL

\* A distribution that was just updated has the same index for any supply.
LEMMA IndexUpToDate ==
    ASSUME NEW time \in Nat, NEW d, DistributionOK(d, time), d.lastUpdateTimestamp = time,
           NEW staked \in Nat
    PROVE  getAssetIndex(d, staked, time) = d.index
<1>1. d.index \in Nat /\ d.emissionPerSecond \in Nat /\ PRECISION \in Nat /\ DISTRIBUTION_END \in Nat
    BY DistributionAssumption DEF DistributionOK, AssetData
<1>2. CASE d.emissionPerSecond = 0 \/ staked = 0 \/ d.lastUpdateTimestamp >= DISTRIBUTION_END
    BY <1>2 DEF getAssetIndex
<1>3. CASE ~(d.emissionPerSecond = 0 \/ staked = 0 \/ d.lastUpdateTimestamp >= DISTRIBUTION_END)
  <2>1. currentTimestamp(time) - d.lastUpdateTimestamp = 0
    BY <1>1, <1>3 DEF currentTimestamp
  <2>2. d.emissionPerSecond * 0 * PRECISION = 0
    BY <1>1
  <2>3. 0 \div staked = 0
    BY <1>3
  <2>4. getAssetIndex(d, staked, time) = 0 + d.index
    BY <1>3, <2>1, <2>2, <2>3 DEF getAssetIndex
  <2> QED BY <1>1, <2>4
<1> QED BY <1>2, <1>3

\* Paying a user leaves him nothing owed, and updating a distribution or setting its
\* emission leaves what others are owed.
LEMMA UpdatesOweTheSame ==
    ASSUME NEW time \in Nat, NEW d, DistributionOK(d, time), NEW staked \in Nat,
           NEW u \in Account, NEW v \in Account, NEW held \in Nat, NEW emission \in Nat
    PROVE  /\ accruedRewards(updateUserAsset(d, u, staked, time), v, held, staked, time)
                = IF u = v THEN 0 ELSE accruedRewards(d, v, held, staked, time)
           /\ accruedRewards(configureAsset(d, emission, staked, time), v, held, staked, time)
                = accruedRewards(d, v, held, staked, time)
<1> DEFINE i == getAssetIndex(d, staked, time)
           n == updateUserAsset(d, u, staked, time)
           c == configureAsset(d, emission, staked, time)
<1>1. i \in Nat /\ DistributionOK(n, time) /\ DistributionOK(c, time)
    BY AssetIndexGrows, DistributionUpdates
<1>2. /\ n.index = i /\ n.lastUpdateTimestamp = time /\ n.users[v] = IF u = v THEN i ELSE d.users[v]
      /\ c.index = i /\ c.lastUpdateTimestamp = time /\ c.users = d.users
    BY DEF DistributionOK, AssetData, updateUserAsset, updateAssetState, configureAsset
<1> HIDE DEF n, c
<1>3. getAssetIndex(n, staked, time) = i /\ getAssetIndex(c, staked, time) = i
    BY <1>1, <1>2, IndexUpToDate
<1>4. getRewards(held, i, i) = 0
  <2> HIDE DEF i
  <2>1. held * (i - i) = 0
    BY <1>1
  <2>2. 0 \div PRECISION = 0
    BY DistributionAssumption
  <2> QED BY <2>1, <2>2 DEF getRewards
<1>5. CASE u = v
    BY <1>2, <1>3, <1>4, <1>5 DEF accruedRewards, n, c
<1>6. CASE u # v
    BY <1>2, <1>3, <1>6 DEF accruedRewards, n, c
<1> QED BY <1>5, <1>6

\* A claim pays what it takes from the unclaimed rewards and from what is owed.
LEMMA ClaimConserves ==
    ASSUME IInv, NEW c \in Account, NEW claimed \in SUBSET RewardedToken, NEW n \in Nat,
           ClaimRewards(c, claimed, n), NEW u \in Account
    PROVE  earned(u)' = earned(u)
<1> DEFINE unclaimed == getRewardsBalance(claimed, c)
           paid == amountToClaim(n, unclaimed)
           was == owed(u)
           is  == owed(u)'
<1>1. IInv'
    BY ClaimPreserves
<1>2. /\ now' = now /\ tokens' = tokens /\ assets' = assetsAfterClaim(c, claimed)
      /\ usersUnclaimedRewards' = [usersUnclaimedRewards EXCEPT ![c] = unclaimed - paid]
      /\ rewardPaid' = [rewardPaid EXCEPT ![c] = @ + paid]
    BY DEF ClaimRewards
<1>3. /\ earned(u) = rewardPaid[u] + (usersUnclaimedRewards[u] + Total(was, RewardedToken))
      /\ earned(c) = rewardPaid[c] + (usersUnclaimedRewards[c] + Total(owed(c), RewardedToken))
    BY EarnedIsTotal DEF EarningsAddUp
<1>5. earned(u)' = rewardPaid'[u] + (usersUnclaimedRewards'[u] + Total(is, RewardedToken))
    BY EarnedIsTotal DEF EarningsAddUp
<1>6. unclaimed = usersUnclaimedRewards[c] + Total(owed(c), claimed)
    BY AccruedIsTotal DEF getRewardsBalance
<1>7. \A t \in RewardedToken : is[t] = IF t \in claimed /\ u = c THEN 0 ELSE was[t]
  <2> SUFFICES ASSUME NEW t \in RewardedToken
               PROVE  is[t] = IF t \in claimed /\ u = c THEN 0 ELSE was[t]
    OBVIOUS
  <2>1. is[t] = accruedRewards(assets'[t], u, tokens[t].balance[u], tokens[t].supply, now)
    BY <1>2 DEF owed
  <2>2. was[t] = accruedRewards(assets[t], u, tokens[t].balance[u], tokens[t].supply, now)
    BY DEF owed
  <2>3. assets'[t] = IF t \in claimed
                     THEN updateUserAsset(assets[t], c, tokens[t].supply, now)
                     ELSE assets[t]
    BY <1>2 DEF assetsAfterClaim
  <2>4. accruedRewards(updateUserAsset(assets[t], c, tokens[t].supply, now),
                       u, tokens[t].balance[u], tokens[t].supply, now)
          = IF c = u THEN 0 ELSE was[t]
    BY <2>2, InvFacts, UpdatesOweTheSame
  <2> QED BY <2>1, <2>2, <2>3, <2>4
<1>8. \A t \in RewardedToken : was[t] \in Nat
    BY OwedType
<1>9. /\ rewardPaid[u] \in Nat /\ usersUnclaimedRewards[u] \in Nat
      /\ usersUnclaimedRewards[c] \in Nat /\ rewardPaid[c] \in Nat
      /\ rewardPaid \in [Account -> Nat] /\ usersUnclaimedRewards \in [Account -> Nat]
    BY InvFacts
<1>10. Total(was, RewardedToken) \in Nat /\ Total(was, claimed) \in Nat /\ Total(owed(c), claimed) \in Nat
    BY OwedType
<1>11. unclaimed \in Nat /\ paid \in Nat
  <2>1. unclaimed \in Nat
    BY <1>6, <1>9, <1>10
  <2> QED BY <2>1 DEF amountToClaim
<1> HIDE DEF unclaimed, paid, was, is
<1>12. CASE u # c
  <2>1. Total(is, RewardedToken) = Total(was, RewardedToken)
    BY <1>7, <1>8, <1>12, TotalSame, RewardedTokenAssumption
  <2>2. rewardPaid'[u] = rewardPaid[u] /\ usersUnclaimedRewards'[u] = usersUnclaimedRewards[u]
    BY <1>2, <1>9, <1>12
  <2> QED BY <1>3, <1>5, <2>1, <2>2
<1>13. CASE u = c
  <2> DEFINE g == [t \in RewardedToken |-> IF t \in claimed THEN was[t] ELSE 0]
  <2>1. Total(g, RewardedToken) = Total(was, claimed)
    <3>1. /\ \A t \in claimed : was[t] \in Int
          /\ \A t \in RewardedToken : g[t] = IF t \in claimed THEN was[t] ELSE 0
      BY <1>8
    <3> HIDE DEF g
    <3> QED BY <3>1, TotalOfSome, RewardedTokenAssumption
  <2>2. /\ \A t \in RewardedToken : is[t] \in Int /\ g[t] \in Int
        /\ \A t \in RewardedToken : was[t] = is[t] + g[t]
    BY <1>7, <1>8, <1>13
  <2> HIDE DEF g
  <2>3. Total(was, RewardedToken) = Total(is, RewardedToken) + Total(g, RewardedToken)
    BY <2>2, TotalOfSums, RewardedTokenAssumption
  <2>4. Total(is, RewardedToken) \in Int
    BY <2>2, TotalType, RewardedTokenAssumption
  <2>5. rewardPaid'[u] = rewardPaid[u] + paid /\ usersUnclaimedRewards'[u] = unclaimed - paid
    BY <1>2, <1>9, <1>13
  <2>6. unclaimed = usersUnclaimedRewards[u] + Total(was, claimed)
    BY <1>6, <1>13 DEF was
  <2> QED BY <1>3, <1>5, <1>9, <1>10, <1>11, <2>1, <2>3, <2>4, <2>5, <2>6
<1> QED BY <1>12, <1>13

\* A new emission starts after the old one was accrued.
LEMMA ConfigureConserves ==
    ASSUME IInv, NEW a \in RewardedToken, NEW e \in Nat,
           ConfigureAssets(a, e, tokens[a].supply), NEW u \in Account
    PROVE  earned(u)' = earned(u)
<1> DEFINE was == owed(u)
           is  == owed(u)'
<1>1. /\ now' = now /\ tokens' = tokens /\ usersUnclaimedRewards' = usersUnclaimedRewards
      /\ rewardPaid' = rewardPaid
      /\ assets' = [assets EXCEPT ![a] = configureAsset(assets[a], e, tokens[a].supply, now)]
    BY DEF ConfigureAssets
<1>2. earned(u) = rewardPaid[u] + (usersUnclaimedRewards[u] + Total(was, RewardedToken))
    BY EarnedIsTotal DEF EarningsAddUp
<1>4. \A t \in RewardedToken : is[t] = was[t]
  <2> SUFFICES ASSUME NEW t \in RewardedToken PROVE is[t] = was[t]
    OBVIOUS
  <2>1. is[t] = accruedRewards(assets'[t], u, tokens[t].balance[u], tokens[t].supply, now)
    BY <1>1 DEF owed
  <2>2. was[t] = accruedRewards(assets[t], u, tokens[t].balance[u], tokens[t].supply, now)
    BY DEF owed
  <2>3. assets'[t] = IF t = a THEN configureAsset(assets[t], e, tokens[t].supply, now)
                     ELSE assets[t]
    BY <1>1, InvFacts
  <2>4. accruedRewards(configureAsset(assets[t], e, tokens[t].supply, now),
                       u, tokens[t].balance[u], tokens[t].supply, now) = was[t]
    BY <2>2, InvFacts, UpdatesOweTheSame
  <2> QED BY <2>1, <2>2, <2>3, <2>4
<1>5. \A t \in RewardedToken : was[t] \in Int
    BY OwedType
<1>6. earned(u)' = rewardPaid'[u] + (usersUnclaimedRewards'[u] + Total(is, RewardedToken))
    BY EarnedIsTotal DEF EarningsAddUp
<1> HIDE DEF was, is
<1>7. Total(is, RewardedToken) = Total(was, RewardedToken)
    BY <1>4, <1>5, TotalSame, RewardedTokenAssumption
<1> QED BY <1>1, <1>2, <1>6, <1>7

\* An emission set without the stake loses what was emitted since the last update.
LEMMA LostEmission ==
    ASSUME NEW time \in Nat, NEW d, DistributionOK(d, time), NEW supply \in Nat,
           NEW u \in Account, NEW held \in Nat, NEW e \in Nat
    PROVE  accruedRewards(configureAsset(d, e, 0, time), u, held, supply, time)
             <= accruedRewards(d, u, held, supply, time)
<1> DEFINE i == getAssetIndex(d, supply, time)
           c == configureAsset(d, e, 0, time)
<1>1. i \in Nat /\ i >= d.index
    BY AssetIndexGrows
<1>2. PICK o \in Nat : o = 0
    OBVIOUS
<1>3. DistributionOK(configureAsset(d, e, o, time), time)
    BY DistributionUpdates
<1>4. /\ DistributionOK(c, time) /\ c.index = d.index /\ c.lastUpdateTimestamp = time
      /\ c.users = d.users /\ d.users[u] \in Nat /\ d.users[u] <= d.index /\ d.index \in Nat
    BY <1>2, <1>3 DEF DistributionOK, AssetData, configureAsset, updateAssetState, getAssetIndex
<1> HIDE DEF i, c
<1>5. getAssetIndex(c, supply, time) = d.index
    BY <1>4, IndexUpToDate
<1>6. held * (d.index - d.users[u]) <= held * (i - d.users[u])
      /\ held * (d.index - d.users[u]) \in Nat /\ held * (i - d.users[u]) \in Nat
  <2> DEFINE x == d.index - d.users[u]
             y == i - d.users[u]
  <2>1. x \in Nat /\ y \in Nat /\ x <= y /\ held <= held
    BY <1>1, <1>4
  <2> HIDE DEF x, y
  <2>2. held * x \in Nat /\ held * y \in Nat /\ held * x <= held * y
    BY <2>1, ProductsMonotone
  <2> QED BY <2>2 DEF x, y
<1>7. getRewards(held, d.index, d.users[u]) <= getRewards(held, i, d.users[u])
    BY <1>6, DivMonotone, DistributionAssumption DEF getRewards
<1> QED BY <1>4, <1>5, <1>7 DEF accruedRewards, i, c

\* Nobody gains by it.
LEMMA ConfigureTakes ==
    ASSUME IInv, NEW a \in RewardedToken, NEW e \in Nat, ConfigureAssets(a, e, 0),
           NEW u \in Account
    PROVE  earned(u)' <= earned(u)
<1> DEFINE was == owed(u)
           is  == owed(u)'
<1>1. /\ now' = now /\ tokens' = tokens /\ usersUnclaimedRewards' = usersUnclaimedRewards
      /\ rewardPaid' = rewardPaid
      /\ assets' = [assets EXCEPT ![a] = configureAsset(assets[a], e, 0, now)]
    BY DEF ConfigureAssets
<1>2. earned(u) = rewardPaid[u] + (usersUnclaimedRewards[u] + Total(was, RewardedToken))
    BY EarnedIsTotal DEF EarningsAddUp
<1>3. earned(u)' = rewardPaid'[u] + (usersUnclaimedRewards'[u] + Total(is, RewardedToken))
    BY EarnedIsTotal DEF EarningsAddUp
<1>4. \A t \in RewardedToken : was[t] \in Nat
    BY OwedType
<1>5. \A t \in RewardedToken : is[t] <= was[t]
  <2> SUFFICES ASSUME NEW t \in RewardedToken PROVE is[t] <= was[t]
    OBVIOUS
  <2>1. is[t] = accruedRewards(assets'[t], u, tokens[t].balance[u], tokens[t].supply, now)
    BY <1>1 DEF owed
  <2>2. was[t] = accruedRewards(assets[t], u, tokens[t].balance[u], tokens[t].supply, now)
    BY DEF owed
  <2>3. assets'[t] = IF t = a THEN configureAsset(assets[t], e, 0, now) ELSE assets[t]
    BY <1>1, InvFacts
  <2>4. accruedRewards(configureAsset(assets[t], e, 0, now),
                       u, tokens[t].balance[u], tokens[t].supply, now) <= was[t]
    BY <2>2, InvFacts, LostEmission
  <2>5. was[t] <= was[t]
    BY <1>4
  <2> QED BY <2>1, <2>2, <2>3, <2>4, <2>5
<1>6. \A t \in RewardedToken : is[t] \in Nat
  <2>1. PICK o \in Nat : o = 0
    OBVIOUS
  <2>2. ConfigureAssets(a, e, o)
    BY <2>1
  <2>3. IInv'
    BY <2>2, ConfigurePreserves
  <2> QED BY <2>3, OwedNextType DEF OwedUnsigned
<1>7. rewardPaid[u] \in Nat /\ usersUnclaimedRewards[u] \in Nat
    BY InvFacts
<1> HIDE DEF was, is
<1>8. Total(is, RewardedToken) <= Total(was, RewardedToken)
    BY <1>4, <1>5, <1>6, TotalMonotone, RewardedTokenAssumption
<1>9. Total(is, RewardedToken) \in Int /\ Total(was, RewardedToken) \in Int
    BY <1>4, <1>6, TotalType, RewardedTokenAssumption
<1> QED BY <1>1, <1>2, <1>3, <1>7, <1>8, <1>9

\* Claiming, for any assets, in part or in full, by whomever and however often, moves
\* what is earned from owed to paid: nobody's earnings change.  Neither do they when an
\* emission is configured with the supply; configured with a stake of 0 it can only take.
\* Movements of tokens are not claims, and are not spoken of.
THEOREM ClaimsConserveEarnings == Spec => EarnedIsConserved
<1>1. ASSUME IInv, NEW u \in Account
      PROVE  /\ ClaimStep => earned(u)' = earned(u)
             /\ \A t \in RewardedToken :
                   /\ Configured(t, tokens[t].supply) => earned(u)' = earned(u)
                   /\ Configured(t, 0) => earned(u)' <= earned(u)
  <2>1. ClaimStep => earned(u)' = earned(u)
    BY <1>1, ControllerAssumption, ClaimConserves DEF ClaimStep
  <2>2. ASSUME NEW t \in RewardedToken, Configured(t, tokens[t].supply)
        PROVE  earned(u)' = earned(u)
    BY <1>1, <2>2, ControllerAssumption, ConfigureConserves DEF Configured
  <2>3. ASSUME NEW t \in RewardedToken, Configured(t, 0)
        PROVE  earned(u)' <= earned(u)
    BY <1>1, <2>3, ControllerAssumption, ConfigureTakes DEF Configured
  <2> QED BY <2>1, <2>2, <2>3
<1>2. IInv => \A u \in Account :
                 /\ ClaimStep => earned(u)' = earned(u)
                 /\ \A t \in RewardedToken :
                       /\ Configured(t, tokens[t].supply) => earned(u)' = earned(u)
                       /\ Configured(t, 0) => earned(u)' <= earned(u)
    BY <1>1
<1> QED BY <1>2, InvariantHolds, PTL DEF EarnedIsConserved

-----------------------------------------------------------------------------
(* Time *)

\* A quotient grows by what is added to the dividend, but for less than a unit.
LEMMA QuotientGrows ==
    ASSUME NEW a \in Nat, NEW c \in Nat, NEW b \in Nat \ {0}, a <= c
    PROVE  /\ c \div b - a \div b \in Nat
           /\ b * (c \div b - a \div b) <= (c - a) + (b - 1)
<1> DEFINE p == a \div b
           q == c \div b
<1>1. /\ p \in Nat /\ b * p <= a /\ a < b * p + b
      /\ q \in Nat /\ b * q <= c /\ c < b * q + b
    BY DivProp
<1>2. p <= q
    BY DivMonotone
<1> HIDE DEF p, q
<1>3. b * (q - p) = b * q - b * p
    BY <1>1
<1>4. b * p \in Nat /\ b * q \in Nat
    BY <1>1
<1>5. b * (q - p) <= (c - a) + (b - 1)
    BY <1>1, <1>3, <1>4
<1>6. q - p \in Nat
    BY <1>1, <1>2
<1> QED BY <1>5, <1>6 DEF p, q

\* The units lost by n holders and by the index, counted in whole rewards.
LEMMA UnitsOfRounding ==
    ASSUME NEW b \in Nat \ {0}, NEW x \in Nat, NEW e \in Nat, NEW s \in Nat, NEW n \in Nat,
           b * x <= b * e + s + n * (b - 1)
    PROVE  x <= e + (n + s \div b)
<1> DEFINE k == s \div b
           y == e + n + k
<1>1. k \in Nat /\ s < b * k + b
    BY DivProp
<1> HIDE DEF k
<1>2. y \in Nat
    BY <1>1
<1>3. n * (b - 1) = b * n - n /\ b * n \in Nat /\ b * e \in Nat /\ b * k \in Nat
    BY <1>1
<1>4. b * y = b * e + b * n + b * k
    BY <1>1
<1> HIDE DEF y
<1>5. b * y \in Nat /\ b * x \in Nat
    BY <1>2
<1>6. b * x < b * y + b
    BY <1>1, <1>3, <1>4, <1>5
<1>7. ASSUME x > y PROVE FALSE
  <2>1. b * (y + 1) <= b * x
    BY <1>2, <1>7, ProductsMonotone
  <2>2. b * (y + 1) = b * y + b
    BY <1>2
  <2> QED BY <1>5, <1>6, <2>1, <2>2
<1>8. x <= y
    BY <1>2, <1>7
<1> QED BY <1>1, <1>8 DEF k, y

\* The seconds of an interval in which the distribution lasts.
LEMMA SecondsBetween ==
    ASSUME NEW from \in Nat, NEW to \in Nat, from <= to
    PROVE  /\ Cardinality({s \in from + 1 .. to : s <= DISTRIBUTION_END}) \in Nat
           /\ currentTimestamp(to)
                = currentTimestamp(from)
                    + Cardinality({s \in from + 1 .. to : s <= DISTRIBUTION_END})
<1> DEFINE seconds == {s \in from + 1 .. to : s <= DISTRIBUTION_END}
           last == currentTimestamp(to)
<1>1. DISTRIBUTION_END \in Nat
    BY DistributionAssumption
<1>2. seconds = from + 1 .. last
    BY <1>1 DEF currentTimestamp
<1>3. last \in Nat
    BY <1>1 DEF currentTimestamp
<1>4. Cardinality(seconds) = IF from + 1 > last THEN 0 ELSE last - (from + 1) + 1
  <2> HIDE DEF seconds, last
  <2>1. from + 1 \in Int /\ last \in Int
    BY <1>3
  <2> QED BY <1>2, <2>1, FS_Interval
<1>5. CASE from > DISTRIBUTION_END
  <2>1. last = DISTRIBUTION_END /\ currentTimestamp(from) = DISTRIBUTION_END
    BY <1>1, <1>5 DEF currentTimestamp
  <2> HIDE DEF last, seconds
  <2>2. Cardinality(seconds) = 0
    BY <1>1, <1>4, <1>5, <2>1
  <2> QED BY <1>1, <2>1, <2>2 DEF last, seconds
<1>6. CASE from <= DISTRIBUTION_END
  <2>1. currentTimestamp(from) = from /\ from <= last
    BY <1>1, <1>6 DEF currentTimestamp
  <2> HIDE DEF last, seconds
  <2>2. Cardinality(seconds) = last - from
    BY <1>3, <1>4, <2>1
  <2> QED BY <1>3, <2>1, <2>2 DEF last, seconds
<1> QED BY <1>1, <1>5, <1>6

\* Over time a unit staked earns its share of the emission, but for a unit of the index.
LEMMA IndexRises ==
    ASSUME NEW from \in Nat, NEW to \in Nat, from <= to,
           NEW d, DistributionOK(d, from), NEW staked \in Nat, NEW seconds \in Nat,
           currentTimestamp(to) = currentTimestamp(from) + seconds
    PROVE  /\ getAssetIndex(d, staked, from) <= getAssetIndex(d, staked, to)
           /\ staked * (getAssetIndex(d, staked, to) - getAssetIndex(d, staked, from))
                <= PRECISION * (d.emissionPerSecond * seconds) + staked
<1> DEFINE e == d.emissionPerSecond
           i == getAssetIndex(d, staked, from)
           j == getAssetIndex(d, staked, to)
<1>1. /\ e \in Nat /\ d.index \in Nat /\ d.lastUpdateTimestamp \in Nat
      /\ d.lastUpdateTimestamp <= from
    BY DEF DistributionOK, AssetData
<1>2. PRECISION \in Nat /\ DISTRIBUTION_END \in Nat
    BY DistributionAssumption
<1>3. e * seconds \in Nat /\ PRECISION * (e * seconds) \in Nat
    BY <1>1, <1>2, ProductsMonotone
<1>4. CASE e = 0 \/ staked = 0 \/ d.lastUpdateTimestamp >= DISTRIBUTION_END
  <2>1. i = d.index /\ j = d.index
    BY <1>4 DEF getAssetIndex
  <2>2. staked * (j - i) = 0 /\ i <= j
    BY <1>1, <2>1
  <2> QED BY <1>3, <2>2
<1>5. CASE ~(e = 0 \/ staked = 0 \/ d.lastUpdateTimestamp >= DISTRIBUTION_END)
  <2> DEFINE s == currentTimestamp(from) - d.lastUpdateTimestamp
             a == e * s * PRECISION
             c == e * (s + seconds) * PRECISION
  <2>1. s \in Nat /\ currentTimestamp(to) - d.lastUpdateTimestamp = s + seconds
    BY <1>1, <1>2, <1>5 DEF currentTimestamp
  <2>2. i = a \div staked + d.index /\ j = c \div staked + d.index
    BY <1>5, <2>1 DEF getAssetIndex
  <2> HIDE DEF e, i, j, s
  <2>3. a \in Nat /\ c \in Nat /\ a <= c
    BY <1>1, <1>2, <2>1, ProductsMonotone
  <2>4. c - a = PRECISION * (e * seconds)
    BY <1>1, <1>2, <2>1
  <2> HIDE DEF a, c
  <2>5. staked \in Nat \ {0}
    BY <1>5
  <2>6. /\ c \div staked - a \div staked \in Nat
        /\ staked * (c \div staked - a \div staked) <= (c - a) + (staked - 1)
    BY <2>3, <2>5, QuotientGrows
  <2>7. a \div staked \in Nat /\ c \div staked \in Nat
    BY <2>3, <2>5, DivProp
  <2>8. j - i = c \div staked - a \div staked /\ i <= j
    BY <1>1, <2>2, <2>6, <2>7
  <2>9. staked * (j - i) <= PRECISION * (e * seconds) + (staked - 1)
    BY <2>4, <2>6, <2>8
  <2>10. staked * (j - i) \in Nat
    <3>1. j - i \in Nat
      BY <2>6, <2>8
    <3> QED BY <2>5, <3>1, ProductsMonotone
  <2>11. staked * (j - i) <= PRECISION * (e * seconds) + staked
    BY <1>3, <2>5, <2>9, <2>10
  <2> QED BY <2>8, <2>11 DEF e, i, j
<1> QED BY <1>4, <1>5

\* What time makes each user be owed more, token by token.
grown == [u \in Account |-> [t \in RewardedToken |-> owed(u)'[t] - owed(u)[t]]]

\* A tick leaves everything but the clock, which does not go back.
LEMMA TickMovesTime ==
    ASSUME IInv, Tick
    PROVE  /\ now \in Nat /\ now' \in Nat /\ now <= now' /\ tokens' = tokens /\ assets' = assets
           /\ usersUnclaimedRewards' = usersUnclaimedRewards /\ rewardPaid' = rewardPaid
BY ControllerAssumption, InvFacts DEF Tick, controllerVars

\* A holder is owed his part of what the index rises, but for a unit of reward.
LEMMA HolderGains ==
    ASSUME IInv, Tick, NEW t \in RewardedToken, NEW u \in Account,
           NEW rise \in Nat,
           getAssetIndex(assets[t], tokens[t].supply, now')
             = getAssetIndex(assets[t], tokens[t].supply, now) + rise
    PROVE  /\ grown[u][t] \in Nat
           /\ PRECISION * grown[u][t] <= rise * tokens[t].balance[u] + (PRECISION - 1)
<1> DEFINE d == assets[t]
           b == tokens[t].balance[u]
           i == getAssetIndex(d, tokens[t].supply, now)
           j == getAssetIndex(d, tokens[t].supply, now')
           a == b * (i - d.users[u])
           c == b * (j - d.users[u])
<1>1. /\ now \in Nat /\ tokens' = tokens /\ assets' = assets
      /\ DistributionOK(d, now) /\ tokens[t].supply \in Nat /\ b \in Nat
    BY TickMovesTime, InvFacts
<1>2. PRECISION \in Nat \ {0}
    BY DistributionAssumption
<1>3. owed(u)[t] = a \div PRECISION
    BY DEF owed, accruedRewards, getRewards
<1>4. owed(u)'[t] = c \div PRECISION
    BY <1>1 DEF owed, accruedRewards, getRewards
<1>5. i \in Nat /\ i >= d.index
    BY <1>1, AssetIndexGrows
<1>6. d.users[u] \in Nat /\ d.users[u] <= d.index /\ d.index \in Nat
    BY <1>1 DEF DistributionOK, AssetData
<1>7. grown[u][t] = c \div PRECISION - a \div PRECISION
    BY <1>3, <1>4 DEF grown
<1> DEFINE k == i - d.users[u]
<1>8. k \in Nat /\ j - d.users[u] = k + rise
  <2>1. j = i + rise
    OBVIOUS
  <2> HIDE DEF i, j, d
  <2> QED BY <1>5, <1>6, <2>1
<1>9. a = b * k /\ c = b * (k + rise)
    BY <1>8
<1> HIDE DEF a, b, c, k
<1>10. a \in Nat /\ c \in Nat /\ a <= c
    BY <1>1, <1>8, <1>9, ProductsMonotone
<1>11. c - a = rise * b
    BY <1>1, <1>8, <1>9
<1>12. /\ c \div PRECISION - a \div PRECISION \in Nat
       /\ PRECISION * (c \div PRECISION - a \div PRECISION) <= (c - a) + (PRECISION - 1)
    BY <1>2, <1>10, QuotientGrows
<1> QED BY <1>7, <1>11, <1>12 DEF b

\* On one token, time pays all the holders what is emitted for it, but for the rounding.
LEMMA TimePaysToken ==
    ASSUME IInv, Tick, NEW t \in RewardedToken, NEW seconds \in Nat,
           currentTimestamp(now') = currentTimestamp(now) + seconds
    PROVE  /\ \A u \in Account : grown[u][t] \in Nat
           /\ Total([u \in Account |-> grown[u][t]], Account)
                <= assets[t].emissionPerSecond * seconds
                     + (Cardinality(Account) + tokens[t].supply \div PRECISION)
<1> DEFINE supply == tokens[t].supply
           rise == getAssetIndex(assets[t], supply, now') - getAssetIndex(assets[t], supply, now)
           gain == [u \in Account |-> grown[u][t]]
           most == [u \in Account |-> rise * tokens[t].balance[u] + (PRECISION - 1)]
           x == Total(gain, Account)
           n == Cardinality(Account)
<1>1. /\ now \in Nat /\ now' \in Nat /\ now <= now'
      /\ DistributionOK(assets[t], now) /\ supply \in Nat
      /\ \A u \in Account : tokens[t].balance[u] \in Nat
      /\ supply = Total(tokens[t].balance, Account)
      /\ assets[t].emissionPerSecond \in Nat
    BY TickMovesTime, InvFacts, BalancedTokenFields DEF DistributionOK, AssetData
<1>2. PRECISION \in Nat \ {0} /\ n \in Nat
    BY DistributionAssumption, AccountAssumption, FS_CardinalityType
<1>3. /\ getAssetIndex(assets[t], supply, now) \in Nat
      /\ getAssetIndex(assets[t], supply, now) <= getAssetIndex(assets[t], supply, now')
      /\ supply * rise <= PRECISION * (assets[t].emissionPerSecond * seconds) + supply
    BY <1>1, AssetIndexGrows, IndexRises
<1>4. getAssetIndex(assets[t], supply, now') \in Nat
  <2>1. DistributionOK(assets[t], now')
    BY <1>1 DEF DistributionOK, AssetData
  <2> QED BY <1>1, <2>1, AssetIndexGrows
<1>5. /\ rise \in Nat
      /\ getAssetIndex(assets[t], supply, now') = getAssetIndex(assets[t], supply, now) + rise
    BY <1>3, <1>4
<1>6. \A u \in Account :
          grown[u][t] \in Nat
          /\ PRECISION * grown[u][t] <= rise * tokens[t].balance[u] + (PRECISION - 1)
  <2> HIDE DEF rise
  <2> QED BY <1>5, HolderGains
<1>7. \A u \in Account : gain[u] = grown[u][t]
    OBVIOUS
<1> DEFINE inUnits == [u \in Account |-> PRECISION * gain[u]]
           shares == [u \in Account |-> rise * tokens[t].balance[u]]
           units == [u \in Account |-> PRECISION - 1]
<1>8. \A u \in Account :
          /\ inUnits[u] = PRECISION * gain[u] /\ shares[u] = rise * tokens[t].balance[u]
          /\ units[u] = PRECISION - 1 /\ most[u] = shares[u] + units[u]
    OBVIOUS
<1> HIDE DEF rise, gain, most, inUnits, shares, units
<1>9. \A u \in Account : gain[u] \in Nat /\ inUnits[u] \in Nat /\ shares[u] \in Nat
                         /\ units[u] \in Nat /\ most[u] \in Nat /\ inUnits[u] <= most[u]
  <2> TAKE u \in Account
  <2>1. gain[u] \in Nat /\ PRECISION * gain[u] \in Nat
    BY <1>2, <1>6, <1>7, ProductsMonotone
  <2>2. rise * tokens[t].balance[u] \in Nat
    BY <1>1, <1>5, ProductsMonotone
  <2> QED BY <1>2, <1>6, <1>7, <1>8, <2>1, <2>2
<1>10. Total(inUnits, Account) = PRECISION * Total(gain, Account)
    BY <1>2, <1>8, <1>9, AccountAssumption, TotalOfMultiples
<1>11. Total(shares, Account) = rise * supply
    BY <1>1, <1>5, <1>8, AccountAssumption, TotalOfMultiples, SMTT(30)
<1>12. Total(units, Account) = (PRECISION - 1) * n
    BY <1>2, <1>8, AccountAssumption, TotalOfConstant
<1>13. Total(most, Account) = Total(shares, Account) + Total(units, Account)
    BY <1>8, <1>9, AccountAssumption, TotalOfSums
<1>14. Total(inUnits, Account) <= Total(most, Account)
    BY <1>9, AccountAssumption, TotalMonotone
<1>15. Total(gain, Account) \in Nat
    BY <1>9, AccountAssumption, TotalType
<1> HIDE DEF x, n, supply
<1>16. PRECISION * x <= supply * rise + n * (PRECISION - 1)
    BY <1>1, <1>2, <1>5, <1>10, <1>11, <1>12, <1>13, <1>14 DEF x
<1>17. assets[t].emissionPerSecond * seconds \in Nat
    BY <1>1, ProductsMonotone
<1> DEFINE e == assets[t].emissionPerSecond * seconds
<1>18. PRECISION * x <= PRECISION * e + supply + n * (PRECISION - 1)
  <2>1. /\ PRECISION * e \in Nat /\ supply * rise \in Nat /\ n * (PRECISION - 1) \in Nat
        /\ PRECISION * x \in Nat /\ supply * rise <= PRECISION * e + supply
    BY <1>1, <1>2, <1>3, <1>5, <1>15, <1>17, ProductsMonotone DEF x
  <2> HIDE DEF e
  <2> QED BY <1>1, <1>16, <2>1
<1>19. x \in Nat /\ e \in Nat /\ supply \in Nat
    BY <1>1, <1>15, <1>17 DEF x
<1>20. x <= e + (n + supply \div PRECISION)
  <2> HIDE DEF e
  <2> QED BY <1>2, <1>18, <1>19, UnitsOfRounding
<1> QED BY <1>6, <1>20 DEF x, gain, n, supply

-----------------------------------------------------------------------------
(* The sums of TimePaysEmission, as sums of functions *)

\* What every user earns in a step.
gained == [u \in Account |-> earned(u)' - earned(u)]

\* The sum of TimePaysEmission is that of gained.
LEMMA GainedIsTotal ==
    MapThenSumSet(LAMBDA u : earned(u)' - earned(u), Account) = Total(gained, Account)
<1> DEFINE amount(u) == earned(u)' - earned(u)
           iter == CHOOSE g : g = [s \in SUBSET Account |->
                                      IF s = {} THEN 0
                                      ELSE amount(anyOf(s)) + g[s \ {anyOf(s)}]]
<1>1. PICK h : Sums(h, gained, Account)
    BY AccountAssumption, SumExists
<1>2. MapThenSumSet(LAMBDA u : earned(u)' - earned(u), Account) = iter[Account]
    BY DEF MapThenSumSet, MapThenFoldSet, anyOf
<1>3. \A s \in SUBSET Account : s # {} => gained[anyOf(s)] = amount(anyOf(s))
    BY DEF gained, anyOf
<1>4. \A g : Sums(g, gained, Account)
               <=> g = [s \in SUBSET Account |->
                           IF s = {} THEN 0 ELSE amount(anyOf(s)) + g[s \ {anyOf(s)}]]
  <2> HIDE DEF amount
  <2> QED BY <1>3 DEF Sums, summed
<1> HIDE DEF amount
<1>5. Sums(iter, gained, Account)
    BY <1>1, <1>4
<1> HIDE DEF iter
<1> QED BY <1>2, <1>5, AccountAssumption, TotalIsTheSum

\* What is emitted for each token in some seconds, and what rounding may add to it.
emission(seconds) == [t \in RewardedToken |-> assets[t].emissionPerSecond * seconds]
rounded == [t \in RewardedToken |-> Cardinality(Account) + tokens[t].supply \div PRECISION]

\* emitted is the sum of the emissions over the seconds the distribution lasts.
LEMMA EmittedIsTotal ==
    ASSUME NEW from, NEW to
    PROVE  emitted(from, to)
             = Total(emission(Cardinality({s \in from + 1 .. to : s <= DISTRIBUTION_END})),
                     RewardedToken)
<1> DEFINE seconds == {s \in from + 1 .. to : s <= DISTRIBUTION_END}
           f == emission(Cardinality(seconds))
           amount(t) == assets[t].emissionPerSecond * Cardinality(seconds)
           iter == CHOOSE g : g = [s \in SUBSET RewardedToken |->
                                      IF s = {} THEN 0
                                      ELSE amount(anyOf(s)) + g[s \ {anyOf(s)}]]
<1>1. PICK h : Sums(h, f, RewardedToken)
    BY RewardedTokenAssumption, SumExists
<1>2. emitted(from, to) = iter[RewardedToken]
    BY DEF emitted, MapThenSumSet, MapThenFoldSet, anyOf
<1>3. \A s \in SUBSET RewardedToken : s # {} => f[anyOf(s)] = amount(anyOf(s))
    BY DEF emission, anyOf
<1> HIDE DEF amount, f
<1>4. \A g : Sums(g, f, RewardedToken)
               <=> g = [s \in SUBSET RewardedToken |->
                           IF s = {} THEN 0 ELSE amount(anyOf(s)) + g[s \ {anyOf(s)}]]
    BY <1>3 DEF Sums, summed
<1>5. Sums(iter, f, RewardedToken)
    BY <1>1, <1>4
<1> HIDE DEF iter
<1>6. emitted(from, to) = Total(f, RewardedToken)
    BY <1>2, <1>5, RewardedTokenAssumption, TotalIsTheSum
<1> QED BY <1>6 DEF f

\* rounding is the sum of what is rounded on each token.
LEMMA RoundingIsTotal == rounding = Total(rounded, RewardedToken)
<1> DEFINE amount(t) == Cardinality(Account) + tokens[t].supply \div PRECISION
           iter == CHOOSE g : g = [s \in SUBSET RewardedToken |->
                                      IF s = {} THEN 0
                                      ELSE amount(anyOf(s)) + g[s \ {anyOf(s)}]]
<1>1. PICK h : Sums(h, rounded, RewardedToken)
    BY RewardedTokenAssumption, SumExists
<1>2. rounding = iter[RewardedToken]
    BY DEF rounding, MapThenSumSet, MapThenFoldSet, anyOf
<1>3. \A s \in SUBSET RewardedToken : s # {} => rounded[anyOf(s)] = amount(anyOf(s))
    BY DEF rounded, anyOf
<1> HIDE DEF amount
<1>4. \A g : Sums(g, rounded, RewardedToken)
               <=> g = [s \in SUBSET RewardedToken |->
                           IF s = {} THEN 0 ELSE amount(anyOf(s)) + g[s \ {anyOf(s)}]]
    BY <1>3 DEF Sums, summed
<1>5. Sums(iter, rounded, RewardedToken)
    BY <1>1, <1>4
<1> HIDE DEF iter
<1> QED BY <1>2, <1>5, RewardedTokenAssumption, TotalIsTheSum

\* A user earns in a tick what he is owed more on all tokens.
LEMMA TickEarns ==
    ASSUME IInv, Tick, NEW u \in Account
    PROVE  gained[u] = Total(grown[u], RewardedToken)
<1> DEFINE was == owed(u)
           is  == owed(u)'
           more == grown[u]
<1>1. earned(u) = rewardPaid[u] + (usersUnclaimedRewards[u] + Total(was, RewardedToken))
    BY EarnedIsTotal DEF EarningsAddUp
<1>2. earned(u)' = rewardPaid'[u] + (usersUnclaimedRewards'[u] + Total(is, RewardedToken))
    BY EarnedIsTotal DEF EarningsAddUp
<1>3. rewardPaid' = rewardPaid /\ usersUnclaimedRewards' = usersUnclaimedRewards
    BY TickMovesTime
<1>4. rewardPaid[u] \in Nat /\ usersUnclaimedRewards[u] \in Nat
    BY InvFacts
<1>5. \A t \in RewardedToken : was[t] \in Nat
    BY OwedType
<1>6. \A t \in RewardedToken : is[t] \in Nat
  <2>1. IInv'
    BY TickPreserves
  <2> QED BY <2>1, OwedNextType DEF OwedUnsigned
<1>7. \A t \in RewardedToken : more[t] = is[t] - was[t]
    BY DEF grown
<1> HIDE DEF was, is, more
<1>8. \A t \in RewardedToken : more[t] \in Int /\ is[t] = was[t] + more[t]
    BY <1>5, <1>6, <1>7
<1>9. Total(is, RewardedToken) = Total(was, RewardedToken) + Total(more, RewardedToken)
    BY <1>5, <1>8, RewardedTokenAssumption, TotalOfSums
<1>10. Total(was, RewardedToken) \in Int /\ Total(more, RewardedToken) \in Int
    BY <1>5, <1>8, RewardedTokenAssumption, TotalType
<1>11. gained[u] = earned(u)' - earned(u)
    BY DEF gained
<1>12. gained[u] = Total(more, RewardedToken)
    BY <1>1, <1>2, <1>3, <1>4, <1>9, <1>10, <1>11
<1> QED BY <1>12 DEF more

\* Time pays what it emits, but for the rounding: summed by token, each is within its
\* own emission.
LEMMA TickPaysEmission ==
    ASSUME IInv, Tick
    PROVE  Total(gained, Account) <= emitted(now, now') + rounding
<1> DEFINE count == Cardinality({s \in now + 1 .. now' : s <= DISTRIBUTION_END})
           most == [t \in RewardedToken |-> emission(count)[t] + rounded[t]]
           column(t) == [u \in Account |-> grown[u][t]]
           columns == [t \in RewardedToken |-> Total(column(t), Account)]
           rows == [u \in Account |-> Total(grown[u], RewardedToken)]
<1>1. now \in Nat /\ now' \in Nat /\ now <= now'
    BY TickMovesTime
<1>2. count \in Nat /\ currentTimestamp(now') = currentTimestamp(now) + count
    BY <1>1, SecondsBetween
<1>3. emitted(now, now') = Total(emission(count), RewardedToken)
    BY EmittedIsTotal
<1> HIDE DEF count
<1>4. ASSUME NEW t \in RewardedToken
      PROVE  /\ \A u \in Account : grown[u][t] \in Nat
             /\ columns[t] <= most[t]
             /\ emission(count)[t] \in Nat /\ rounded[t] \in Nat
             /\ most[t] = emission(count)[t] + rounded[t]
  <2>1. /\ \A u \in Account : grown[u][t] \in Nat
        /\ Total(column(t), Account)
             <= assets[t].emissionPerSecond * count
                  + (Cardinality(Account) + tokens[t].supply \div PRECISION)
    BY <1>2, TimePaysToken
  <2>2. emission(count)[t] = assets[t].emissionPerSecond * count
        /\ rounded[t] = Cardinality(Account) + tokens[t].supply \div PRECISION
    BY DEF emission, rounded
  <2>3. assets[t].emissionPerSecond \in Nat /\ tokens[t].supply \in Nat
    BY InvFacts DEF AssetData
  <2>4. assets[t].emissionPerSecond * count \in Nat
    BY <1>2, <2>3, ProductsMonotone
  <2>5. Cardinality(Account) \in Nat /\ tokens[t].supply \div PRECISION \in Nat
    BY <2>3, AccountAssumption, FS_CardinalityType, DivProp, DistributionAssumption
  <2>6. columns[t] = Total(column(t), Account)
    OBVIOUS
  <2>7. most[t] = emission(count)[t] + rounded[t]
    OBVIOUS
  <2> HIDE DEF column, columns, most
  <2> QED BY <2>1, <2>2, <2>4, <2>5, <2>6, <2>7
<1>5. \A u \in Account, t \in RewardedToken : grown[u][t] \in Int
  <2> HIDE DEF columns, most
  <2> QED BY <1>4
<1>6. \A t \in RewardedToken : columns[t] \in Int
  <2> TAKE t \in RewardedToken
  <2>1. \A u \in Account : column(t)[u] = grown[u][t]
    OBVIOUS
  <2>2. columns[t] = Total(column(t), Account)
    OBVIOUS
  <2> HIDE DEF column, columns
  <2> QED BY <1>5, <2>1, <2>2, AccountAssumption, TotalType
<1>7. Total(rows, Account) = Total(columns, RewardedToken)
    BY <1>5, AccountAssumption, RewardedTokenAssumption, TotalOfTable
<1>8. \A u \in Account : rows[u] \in Int
  <2> TAKE u \in Account
  <2>1. Total(grown[u], RewardedToken) \in Int
    BY <1>5, RewardedTokenAssumption, TotalType
  <2> QED BY <2>1
<1>9. \A u \in Account : gained[u] = rows[u]
    BY TickEarns
<1> HIDE DEF rows, columns, column, most
<1>10. Total(gained, Account) = Total(columns, RewardedToken)
    BY <1>7, <1>8, <1>9, AccountAssumption, TotalSame
<1>11. \A t \in RewardedToken : most[t] \in Int
    BY <1>4
<1>12. Total(columns, RewardedToken) <= Total(most, RewardedToken)
    BY <1>4, <1>6, <1>11, RewardedTokenAssumption, TotalMonotone
<1>13. Total(most, RewardedToken)
         = Total(emission(count), RewardedToken) + Total(rounded, RewardedToken)
    BY <1>4, RewardedTokenAssumption, TotalOfSums
<1> QED BY <1>3, <1>10, <1>12, <1>13, RoundingIsTotal

\* Whatever is staked and whoever holds it, no interval pays the holders together more
\* than what is emitted in it, a unit for each holder and what a unit of the index pays
\* the supply: time past the end of the distribution pays nothing.
THEOREM TimePaysNoMore == Spec => TimePaysEmission
<1>1. ASSUME IInv, [Next]_vars, now' # now
      PROVE  MapThenSumSet(LAMBDA u : earned(u)' - earned(u), Account)
               <= emitted(now, now') + rounding
  <2>1. Tick
    BY <1>1 DEF Next, vars, TokenStep, ManagerStep, Configured, ClaimStep, Mint, Burn, Transfer,
                ConfigureAssets, ClaimRewards
  <2>2. Total(gained, Account) <= emitted(now, now') + rounding
    BY <1>1, <2>1, TickPaysEmission
  <2> QED BY <2>2, GainedIsTotal
<1>2. IInv /\ [Next]_vars
        => (now' # now => MapThenSumSet(LAMBDA u : earned(u)' - earned(u), Account)
                            <= emitted(now, now') + rounding)
    BY <1>1
<1> QED BY <1>2, InvariantHolds, PTL DEF Spec, TimePaysEmission
=============================================================================
