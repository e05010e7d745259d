------------------------------ MODULE Accounts ------------------------------
\* The addresses that hold tokens.
EXTENDS WadRayMath, FiniteSets

CONSTANTS
    Account,    \* holders of tokens: users, contracts, the treasury
    Treasury    \* RESERVE_TREASURY_ADDRESS of the aTokens

ASSUME TreasuryAssumption == Treasury \in Account

\* There are 2 ** 160 addresses.
ASSUME AccountAssumption == IsFiniteSet(Account)
=============================================================================
