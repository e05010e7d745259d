----------------------- MODULE RnbwDistributionManager -----------------------
(***************************************************************************)
(* One distribution of rewards: its index is what a unit staked from the   *)
(* start has earned, and each user's index is how far he has been paid.    *)
(* A list of assets given to configureAssets or claimRewards is handled    *)
(* entry by entry, and entries of different assets do not touch each other.*)
(***************************************************************************)
EXTENDS ScaledToken

CONSTANTS
    PRECISION,          \* 10 ** 18
    DISTRIBUTION_END    \* when rewards stop

ASSUME DistributionAssumption ==
    PRECISION \in Nat \ {0} /\ DISTRIBUTION_END \in Nat

AssetData ==
    [emissionPerSecond : Nat, lastUpdateTimestamp : Nat, index : Nat, users : [Account -> Nat]]

EmptyAssetData ==
    [emissionPerSecond |-> 0, lastUpdateTimestamp |-> 0, index |-> 0,
     users |-> [u \in Account |-> 0]]

-----------------------------------------------------------------------------
getRewards(principalUserBalance, reserveIndex, userIndex) ==
    (principalUserBalance * (reserveIndex - userIndex)) \div PRECISION

\* Mutant: the end of the distribution matters only when the last update is past it.
currentTimestamp_uncapped(now) == now

currentTimestamp(now) == IF now > DISTRIBUTION_END THEN DISTRIBUTION_END ELSE now

\* The index as of now, for a supply of totalBalance since the last update.
getAssetIndex(d, totalBalance, now) ==
    IF d.emissionPerSecond = 0 \/ totalBalance = 0 \/ d.lastUpdateTimestamp >= DISTRIBUTION_END
    THEN d.index
    ELSE (d.emissionPerSecond * (currentTimestamp(now) - d.lastUpdateTimestamp) * PRECISION)
            \div totalBalance + d.index

updateAssetState(d, totalStaked, now) ==
    [d EXCEPT !.index = getAssetIndex(d, totalStaked, now), !.lastUpdateTimestamp = now]

\* Mutant: a new emission starts with a new index.
configureAsset_restart(d, emission, totalStaked, now) ==
    [updateAssetState(d, totalStaked, now) EXCEPT !.emissionPerSecond = emission, !.index = 0]

configureAsset(d, emission, totalStaked, now) ==
    [updateAssetState(d, totalStaked, now) EXCEPT !.emissionPerSecond = emission]

updateUserAsset(d, user, totalStaked, now) ==
    LET n == updateAssetState(d, totalStaked, now)
    IN  [n EXCEPT !.users[user] = n.index]

\* What updateUserAsset pays the user, and what the views show him.
accruedRewards(d, user, stakedByUser, totalStaked, now) ==
    getRewards(stakedByUser, getAssetIndex(d, totalStaked, now), d.users[user])
=============================================================================
