--------------------------- MODULE LendingProtocol ---------------------------
(***************************************************************************)
(* The composed system: users, liquidators, flash-loan receivers, the      *)
(* admins, the oracle and the clock, in any order.  The constants of this  *)
(* module are the inputs an instance lets them choose from.                *)
(***************************************************************************)
EXTENDS LendingPoolConfigurator

CONSTANTS
    User,              \* accounts that deposit, borrow and liquidate
    InitialWallet,     \* underlying each account starts with, per asset
    InitialPrice,
    DepositAmounts, WithdrawAmounts, BorrowAmounts, RepayAmounts,
    TransferAmounts, LiquidationAmounts, AllowanceAmounts,
    FlashLoanLegs,     \* sequences of legs a flash loan may have
    Prices,            \* answers of the oracle, per asset
    Strategies,        \* strategies the admin may deploy
    Units,             \* 10 ** decimals of the assets
    CollateralParams,  \* what the admin may pass to configureReserveAsCollateral
    ReserveFactors,
    AdminAssets,       \* reserves the admin reconfigures
    PauseValues,       \* arguments of setPoolPause
    TimeSteps, MaxTime \* how the clock advances, and its bound

ASSUME InputAssumption ==
    /\ User \subseteq Account
    /\ InitialWallet \in [Asset -> [Account -> Nat]]
    /\ InitialPrice \in [Asset -> Nat]
    /\ DepositAmounts \subseteq Nat /\ WithdrawAmounts \subseteq Nat
    /\ BorrowAmounts \subseteq Nat /\ RepayAmounts \subseteq Nat
    /\ TransferAmounts \subseteq Nat /\ LiquidationAmounts \subseteq Nat
    /\ AllowanceAmounts \subseteq Nat
    /\ FlashLoanLegs \subseteq Seq(FlashLoanLeg)
    /\ \A a \in Asset : Prices[a] \subseteq Nat
    /\ Strategies \subseteq Strategy
    /\ Units \subseteq Nat \ {0}
    /\ \A p \in CollateralParams :
          p.ltv \in Nat /\ p.liquidationThreshold \in Nat /\ p.liquidationBonus \in Nat
    /\ ReserveFactors \subseteq Nat
    /\ AdminAssets \subseteq Asset
    /\ PauseValues \subseteq BOOLEAN
    /\ TimeSteps \subseteq Nat /\ MaxTime \in Nat

-----------------------------------------------------------------------------
Init ==
    /\ reserves = [a \in Asset |-> EmptyReserve]
    /\ reservesList = {}
    /\ usersConfig = [u \in Account |-> [collateral |-> {}, borrowing |-> {}]]
    /\ paused = FALSE
    /\ borrowAllowance = [a \in Asset |-> [m \in RateMode |->
                             [u \in Account |-> [v \in Account |-> 0]]]]
    /\ wallet = InitialWallet
    /\ price = InitialPrice
    /\ now = 1
    /\ flashLoans = <<>>

\* A later block.
Tick ==
    /\ flashLoans = <<>>
    /\ \E dt \in TimeSteps : now + dt <= MaxTime /\ now' = now + dt
    /\ UNCHANGED <<poolVars, wallet, price, flashLoans>>

PriceChange ==
    /\ flashLoans = <<>>
    /\ \E a \in Asset : \E p \in Prices[a] \ {price[a]} :
          price' = [price EXCEPT ![a] = p]
    /\ UNCHANGED <<poolVars, wallet, now, flashLoans>>

DepositStep   == \E u, v \in User, a \in Asset, n \in DepositAmounts : Deposit(u, a, n, v)
WithdrawStep  == \E u \in User, a \in Asset, n \in WithdrawAmounts : Withdraw(u, a, n, u)
BorrowStep    == \E u, v \in User, a \in Asset, n \in BorrowAmounts, m \in RateMode :
                    Borrow(u, a, n, m, v)
RepayStep     == \E u, v \in User, a \in Asset, n \in RepayAmounts, m \in RateMode :
                    Repay(u, a, n, m, v)
SwapStep      == \E u \in User, a \in Asset, m \in RateMode : SwapBorrowRateMode(u, a, m)
RebalanceStep == \E u, v \in User, a \in Asset : RebalanceStableBorrowRate(u, a, v)
CollateralStep == \E u \in User, a \in Asset, b \in BOOLEAN : SetUserUseReserveAsCollateral(u, a, b)
TransferStep  == \E u, v \in User, a \in Asset, n \in TransferAmounts : Transfer(u, a, v, n)
ApproveStep   == \E u, v \in User, a \in Asset, m \in RateMode, n \in AllowanceAmounts :
                    ApproveDelegation(u, a, m, v, n)
LiquidationStep ==
    \E u, v \in User, a, d \in Asset, n \in LiquidationAmounts, b \in BOOLEAN :
        LiquidationCall(u, a, d, v, n, b)

UserStep ==
    \/ DepositStep \/ WithdrawStep \/ BorrowStep \/ RepayStep \/ SwapStep
    \/ RebalanceStep \/ CollateralStep \/ TransferStep \/ ApproveStep \/ LiquidationStep

\* The treasury contract withdraws the fees minted to it.
TreasuryStep ==
    \E a \in Asset, n \in WithdrawAmounts, u \in User : Withdraw(Treasury, a, n, u)

FlashLoanBeginStep ==
    \E u, v, w \in User, legs \in FlashLoanLegs : FlashLoanBegin(u, v, legs, w)

FlashLoanStep ==
    \/ FlashLoanBeginStep
    \/ FlashLoanLend
    \/ FlashLoanReturn
    \/ FlashLoanSettle

\* The receiver of a flash loan could be an admin only if an admin wrote it so.
AdminStep ==
    /\ flashLoans = <<>>
    /\ \/ \E a \in Asset, s \in Strategies, n \in Units : InitReserve(a, s, n)
       \/ \E a \in AdminAssets :
            \/ \E b \in BOOLEAN : EnableBorrowingOnReserve(a, b)
            \/ DisableBorrowingOnReserve(a)
            \/ \E p \in CollateralParams :
                 ConfigureReserveAsCollateral(a, p.ltv, p.liquidationThreshold, p.liquidationBonus)
            \/ EnableReserveStableRate(a)
            \/ DisableReserveStableRate(a)
            \/ ActivateReserve(a)
            \/ DeactivateReserve(a)
            \/ FreezeReserve(a)
            \/ UnfreezeReserve(a)
            \/ \E f \in ReserveFactors : SetReserveFactor(a, f)
            \/ \E s \in Strategies : SetReserveInterestRateStrategyAddress(a, s)
       \/ \E b \in PauseValues : SetPoolPause(b)

Next == Tick \/ PriceChange \/ UserStep \/ TreasuryStep \/ FlashLoanStep \/ AdminStep

Spec == Init /\ [][Next]_vars

=============================================================================
