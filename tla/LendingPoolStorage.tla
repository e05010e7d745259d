------------------------- MODULE LendingPoolStorage -------------------------
(***************************************************************************)
(* The state the contracts share: the storage of LendingPool and of the    *)
(* debt tokens' allowances, the underlying assets users hold, the oracle's *)
(* prices, and the clock.                                                  *)
(***************************************************************************)
EXTENDS GenericLogic, Sequences

CONSTANTS
    MAX_NUMBER_RESERVES,                  \* 128
    MAX_STABLE_RATE_BORROW_SIZE_PERCENT,  \* 25%
    FLASHLOAN_PREMIUM_TOTAL,              \* 0.09%
    LIQUIDATION_CLOSE_FACTOR_PERCENT,     \* 50%
    REBALANCE_UP_LIQUIDITY_RATE_THRESHOLD,  \* 40%
    REBALANCE_UP_USAGE_RATIO_THRESHOLD    \* 95%, in ray

ASSUME PoolConstantsAssumption ==
    /\ MAX_NUMBER_RESERVES \in Nat
    /\ MAX_STABLE_RATE_BORROW_SIZE_PERCENT \in Nat
    /\ FLASHLOAN_PREMIUM_TOTAL \in Nat
    /\ LIQUIDATION_CLOSE_FACTOR_PERCENT \in Nat
    /\ REBALANCE_UP_LIQUIDITY_RATE_THRESHOLD \in Nat
    /\ REBALANCE_UP_USAGE_RATIO_THRESHOLD \in Nat

STABLE   == "stable"
VARIABLE_RATE == "variable"
NONE     == "none"
RateMode == {STABLE, VARIABLE_RATE}

VARIABLES
    reserves,         \* _reserves, with the tokens of each
    reservesList,     \* _reservesList, as a set: its order only names bits
    usersConfig,      \* _usersConfig
    paused,           \* _paused
    borrowAllowance,  \* _borrowAllowances of both debt tokens, per asset
    wallet,           \* underlying assets held by users
    price,            \* what the price oracle answers
    now,              \* block.timestamp
    flashLoans        \* flash loans in progress, the innermost last

poolVars == <<reserves, reservesList, usersConfig, paused, borrowAllowance>>
vars     == <<poolVars, wallet, price, now, flashLoans>>

\* A frame of flashLoan: the loop that lends the legs, the receiver's callback,
\* and the loop that settles them.  next is the leg the loop comes to.
FlashLoanLeg == [asset : Asset, amount : Nat, mode : RateMode \cup {NONE}]
LENDING   == "lending"
CALLBACK  == "callback"
SETTLING  == "settling"
FlashLoanFrame ==
    [initiator : Account, receiver : Account, onBehalfOf : Account,
     legs : Seq(FlashLoanLeg), stage : {LENDING, CALLBACK, SETTLING}, next : Nat]

TypeOK ==
    /\ reserves \in [Asset -> Reserve]
    /\ reservesList \subseteq Asset
    /\ usersConfig \in [Account -> UserConfiguration]
    /\ paused \in BOOLEAN
    /\ borrowAllowance \in [Asset -> [RateMode -> [Account -> [Account -> Nat]]]]
    /\ wallet \in [Asset -> [Account -> Nat]]
    /\ price \in [Asset -> Nat]
    /\ now \in Nat
    /\ flashLoans \in Seq(FlashLoanFrame)

\* Who may send a transaction or, during a flash loan, make a call within it.
CanCall(account) ==
    \/ flashLoans = <<>>
    \/ /\ flashLoans # <<>>
       /\ LET frame == flashLoans[Len(flashLoans)]
          IN  frame.stage = CALLBACK /\ frame.receiver = account

\* A call on an asset that is not listed reaches address zero and reverts.
Listed(asset) == asset \in reservesList
=============================================================================
