----------------------- MODULE RnbwIncentivesController -----------------------
(***************************************************************************)
(* The rewards of the holders of aTokens and variable debt tokens: the     *)
(* controller, and the three functions of IncentivizedERC20 that move      *)
(* scaled tokens and report to it.  What the lending pool moves and why is *)
(* left to LendingProtocol: here tokens move at will.                      *)
(***************************************************************************)
EXTENDS RnbwDistributionManager, FiniteSetsExt

CONSTANTS
    RewardedToken,      \* the rewarded tokens
    RewardFund,         \* reward tokens the controller is given at the start
    ClaimAll,           \* type(uint256).max, above every reward of an instance
    MintAmounts, BurnAmounts, TransferAmounts, ClaimAmounts, Emissions,
    StakesWritten,      \* stakes the manager writes down, instead of asking for the supply
    MaxSupply,          \* bound on the supply of a token
    TimeSteps, MaxTime  \* how the clock advances, and its bound

ASSUME ControllerAssumption ==
    /\ RewardFund \in Nat /\ ClaimAll \in Nat
    /\ MintAmounts \subseteq Nat /\ BurnAmounts \subseteq Nat
    /\ TransferAmounts \subseteq Nat /\ ClaimAmounts \subseteq Nat /\ Emissions \subseteq Nat
    /\ StakesWritten \subseteq Nat
    /\ MaxSupply \in Nat /\ TimeSteps \subseteq Nat /\ MaxTime \in Nat

ASSUME RewardedTokenAssumption == IsFiniteSet(RewardedToken)

VARIABLES
    tokens,                 \* _balances and _totalSupply of each rewarded token
    assets,                 \* the distribution of each
    usersUnclaimedRewards,  \* _usersUnclaimedRewards
    rewardHeld,             \* reward tokens the controller still holds
    rewardPaid,             \* reward tokens claimed, per user
    now                     \* block.timestamp

controllerVars == <<assets, usersUnclaimedRewards>>
vars == <<tokens, controllerVars, rewardHeld, rewardPaid, now>>

Init ==
    /\ tokens = [t \in RewardedToken |-> EmptyToken]
    /\ assets = [t \in RewardedToken |-> EmptyAssetData]
    /\ usersUnclaimedRewards = [u \in Account |-> 0]
    /\ rewardHeld = RewardFund
    /\ rewardPaid = [u \in Account |-> 0]
    /\ now = 1

-----------------------------------------------------------------------------
\* handleAction, called by token t: what it makes of the token's distribution and
\* of the user's unclaimed rewards.  getRewards must not subtract below zero.
handleActionAccepted(d, user, userBalance, supply) ==
    userBalance # 0 => d.users[user] <= getAssetIndex(d, supply, now)

handleAction(d, user, supply) == updateUserAsset(d, user, supply, now)

unclaimedAfterAction(d, unclaimed, user, userBalance, supply) ==
    [unclaimed EXCEPT ![user] = @ + accruedRewards(d, user, userBalance, supply, now)]

\* _mint and _burn report the supply first and the balance second, and the
\* controller takes the first for the balance and the second for the supply.
report(t, account, oldTotalSupply, oldAccountBalance) ==
    /\ handleActionAccepted(assets[t], account, oldTotalSupply, oldAccountBalance)
    /\ assets' = [assets EXCEPT ![t] = handleAction(@, account, oldAccountBalance)]
    /\ usersUnclaimedRewards' =
         unclaimedAfterAction(assets[t], usersUnclaimedRewards, account,
                              oldTotalSupply, oldAccountBalance)

Mint(t, account, amount) ==
    /\ tokens[t].supply + amount <= MaxSupply
    /\ tokens' = [tokens EXCEPT ![t] = mintScaled(@, account, amount)]
    /\ report(t, account, tokens[t].supply, tokens[t].balance[account])
    /\ UNCHANGED <<rewardHeld, rewardPaid, now>>

Burn(t, account, amount) ==
    /\ burnScaledAccepted(tokens[t], account, amount)
    /\ tokens' = [tokens EXCEPT ![t] = burnScaled(@, account, amount)]
    /\ report(t, account, tokens[t].supply, tokens[t].balance[account])
    /\ UNCHANGED <<rewardHeld, rewardPaid, now>>

\* _transfer reports the sender, and then the recipient unless he is the same.
Transfer(t, sender, recipient, amount) ==
    LET supply    == tokens[t].supply
        senderHad == tokens[t].balance[sender]
        recipientHad == tokens[t].balance[recipient]
        d1 == handleAction(assets[t], sender, senderHad)
        u1 == unclaimedAfterAction(assets[t], usersUnclaimedRewards, sender, supply, senderHad)
    IN  /\ transferScaledAccepted(tokens[t], sender, amount)
        /\ tokens' = [tokens EXCEPT ![t] = transferScaled(@, sender, recipient, amount)]
        /\ IF sender = recipient
           THEN report(t, sender, supply, senderHad)
           ELSE /\ handleActionAccepted(assets[t], sender, supply, senderHad)
                /\ handleActionAccepted(d1, recipient, supply, recipientHad)
                /\ assets' = [assets EXCEPT ![t] = handleAction(d1, recipient, recipientHad)]
                /\ usersUnclaimedRewards' =
                     unclaimedAfterAction(d1, u1, recipient, supply, recipientHad)
        /\ UNCHANGED <<rewardHeld, rewardPaid, now>>

-----------------------------------------------------------------------------
\* configureAssets for one asset: the emission manager says how much is staked, and
\* whatever he says is believed.
ConfigureAssets(t, emission, totalStaked) ==
    /\ assets' = [assets EXCEPT ![t] = configureAsset(@, emission, totalStaked, now)]
    /\ UNCHANGED <<tokens, usersUnclaimedRewards, rewardHeld, rewardPaid, now>>

accruedOn(claimed, user) ==
    MapThenSumSet(LAMBDA t : accruedRewards(assets[t], user, tokens[t].balance[user],
                                            tokens[t].supply, now), claimed)

getRewardsBalance(claimed, user) == usersUnclaimedRewards[user] + accruedOn(claimed, user)

\* Mutant: more than the user has earned may be claimed.
amountToClaim_uncapped(amount, unclaimed) == IF amount = ClaimAll THEN unclaimed ELSE amount

amountToClaim(amount, unclaimed) == IF amount > unclaimed THEN unclaimed ELSE amount

\* Mutant: the user is marked as paid for the assets he did not name, too.
assetsAfterClaim_all(user, claimed) ==
    [t \in RewardedToken |-> updateUserAsset(assets[t], user, tokens[t].supply, now)]

assetsAfterClaim(user, claimed) ==
    [t \in RewardedToken |-> IF t \in claimed
                             THEN updateUserAsset(assets[t], user, tokens[t].supply, now)
                             ELSE assets[t]]

\* claimRewards asks the tokens for balance and supply itself, in the right order.
\* Naming an asset twice adds nothing, so the assets are a set.
ClaimRewards(user, claimed, amount) ==
    LET unclaimed == getRewardsBalance(claimed, user)
        paid      == amountToClaim(amount, unclaimed)
    IN  /\ amount # 0
        /\ \A t \in claimed : handleActionAccepted(assets[t], user, tokens[t].balance[user],
                                                   tokens[t].supply)
        /\ paid <= rewardHeld
        /\ assets' = assetsAfterClaim(user, claimed)
        /\ usersUnclaimedRewards' = [usersUnclaimedRewards EXCEPT ![user] = unclaimed - paid]
        /\ rewardHeld' = rewardHeld - paid
        /\ rewardPaid' = [rewardPaid EXCEPT ![user] = @ + paid]
        /\ UNCHANGED <<tokens, now>>

Tick ==
    /\ \E dt \in TimeSteps : now + dt <= MaxTime /\ now' = now + dt
    /\ UNCHANGED <<tokens, controllerVars, rewardHeld, rewardPaid>>

TokenStep ==
    \E t \in RewardedToken, u \in Account :
        \/ \E n \in MintAmounts : Mint(t, u, n)
        \/ \E n \in BurnAmounts : Burn(t, u, n)
        \/ \E v \in Account, n \in TransferAmounts : Transfer(t, u, v, n)

Configured(t, totalStaked) == \E e \in Emissions : ConfigureAssets(t, e, totalStaked)

\* The manager passes the supply, or what he wrote down: the configuration of the halo
\* market passes 0 for every asset.
ManagerStep ==
    \E t \in RewardedToken :
        \E totalStaked \in StakesWritten \cup {tokens[t].supply} : Configured(t, totalStaked)

ClaimStep ==
    \E u \in Account, claimed \in SUBSET RewardedToken, n \in ClaimAmounts :
        ClaimRewards(u, claimed, n)

Next == TokenStep \/ ManagerStep \/ ClaimStep \/ Tick

Spec == Init /\ [][Next]_vars

-----------------------------------------------------------------------------
TypeOK ==
    /\ tokens \in [RewardedToken -> Token]
    /\ assets \in [RewardedToken -> AssetData]
    /\ usersUnclaimedRewards \in [Account -> Nat]
    /\ rewardHeld \in Nat
    /\ rewardPaid \in [Account -> Nat]
    /\ now \in Nat

\* What a user was paid and would be paid now.
earned(u) == rewardPaid[u] + getRewardsBalance(RewardedToken, u)

\* No user is marked as paid beyond the index: getRewards would revert in the hook
\* of every transfer, deposit and withdrawal of his, and lock his tokens.
UserIndexNotAhead ==
    \A t \in RewardedToken, u \in Account : assets[t].users[u] <= assets[t].index

\* Claiming, for some assets or all, in part or in full, now or again, moves what
\* someone earned from owed to paid, and changes nobody's earnings.  Neither does a new
\* emission whose manager passes the supply; when he passes 0, what was emitted since the
\* last update is lost to the holders, and nobody gains by it.  Of a stake in between
\* nothing is promised, nor of movements of tokens: see MovingTokensPaysNothing.
EarnedIsConserved ==
    [][\A u \in Account :
          /\ ClaimStep => earned(u)' = earned(u)
          /\ \A t \in RewardedToken :
                /\ Configured(t, tokens[t].supply) => earned(u)' = earned(u)
                /\ Configured(t, 0) => earned(u)' <= earned(u)]_vars

\* The emission of the seconds after from, up to to, that the distribution lasts.
emitted(from, to) ==
    LET seconds == {s \in from + 1 .. to : s <= DISTRIBUTION_END}
    IN  MapThenSumSet(LAMBDA t : assets[t].emissionPerSecond * Cardinality(seconds), RewardedToken)

\* A unit of rounding for each holder, and what a unit of the index pays all of them.
rounding ==
    MapThenSumSet(LAMBDA t : Cardinality(Account) + tokens[t].supply \div PRECISION, RewardedToken)

\* While tokens rest, time pays all holders together no more than the emission of
\* that time, up to the end of the distribution, but for the rounding.
TimePaysEmission ==
    [][now' # now =>
        MapThenSumSet(LAMBDA u : earned(u)' - earned(u), Account)
            <= emitted(now, now') + rounding]_vars

\* A movement of tokens pays nobody: what the user is credited with in the hook he had
\* earned before, with the balance and the supply he had until now.
MovingTokensPaysNothing ==
    [][tokens' # tokens => \A u \in Account : earned(u)' <= earned(u) + 1]_vars
=============================================================================
