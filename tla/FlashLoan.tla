------------------------------ MODULE FlashLoan ------------------------------
(***************************************************************************)
(* flashLoan, the one function of the pool that calls code it does not     *)
(* know while it runs: other calls may come in between the release of the  *)
(* funds and the return of the callback.  The transaction is a series of   *)
(* steps: FlashLoanBegin, one FlashLoanLend per leg, any calls of the      *)
(* receiver, FlashLoanReturn when its callback returns true, and one       *)
(* FlashLoanSettle per leg.  A transaction that reverts never happened: it *)
(* is a behaviour that stops within the flash loan.                        *)
(***************************************************************************)
EXTENDS LendingPoolCollateralManager

CONSTANT MaxFlashLoanDepth  \* bound on the nesting of flash loans

ASSUME DepthAssumption == MaxFlashLoanDepth \in Nat

currentLoan == flashLoans[Len(flashLoans)]
currentLeg  == currentLoan.legs[currentLoan.next]

\* The loop at a stage of the innermost flash loan starts, and goes on.
enterStage(stage) ==
    flashLoans' = [flashLoans EXCEPT ![Len(flashLoans)].stage = stage,
                                     ![Len(flashLoans)].next = 1]

nextLeg == flashLoans' = [flashLoans EXCEPT ![Len(flashLoans)].next = @ + 1]

\* Mutant: the end of a flash loan taken within another one ends both.
endFlashLoan_both == flashLoans' = <<>>

endFlashLoan == flashLoans' = SubSeq(flashLoans, 1, Len(flashLoans) - 1)

inStage(stage) == flashLoans # <<>> /\ currentLoan.stage = stage

FlashLoanBegin(initiator, receiver, legs, onBehalfOf) ==
    /\ Len(flashLoans) < MaxFlashLoanDepth
    /\ CanCall(initiator) /\ ~paused
    /\ flashLoans' = Append(flashLoans,
                            [initiator |-> initiator, receiver |-> receiver,
                             onBehalfOf |-> onBehalfOf, legs |-> legs,
                             stage |-> IF legs = <<>> THEN CALLBACK ELSE LENDING, next |-> 1])
    /\ UNCHANGED <<poolVars, wallet, price, now>>

FlashLoanLend ==
    /\ inStage(LENDING)
    /\ Listed(currentLeg.asset)
    /\ currentLeg.amount <= reserves[currentLeg.asset].liquidity
    /\ reserves' = [reserves EXCEPT ![currentLeg.asset].liquidity = @ - currentLeg.amount]
    /\ payOut(currentLeg.asset, currentLoan.receiver, currentLeg.amount)
    /\ IF currentLoan.next = Len(currentLoan.legs) THEN enterStage(CALLBACK) ELSE nextLeg
    /\ UNCHANGED <<reservesList, usersConfig, paused, borrowAllowance, price, now>>

\* executeOperation returned true.
FlashLoanReturn ==
    /\ inStage(CALLBACK)
    /\ IF currentLoan.legs = <<>> THEN endFlashLoan ELSE enterStage(SETTLING)
    /\ UNCHANGED <<poolVars, wallet, price, now>>

flashLoanPremium(amount) == (amount * FLASHLOAN_PREMIUM_TOTAL) \div PERCENTAGE_FACTOR

\* The receiver pays the leg back with its premium, which depositors share.
payBack(leg, receiver) ==
    LET premium == flashLoanPremium(leg.amount)
        due     == leg.amount + premium
        r1 == updateState(reserves[leg.asset], now)
        r2 == cumulateToLiquidityIndex(r1, aTokenTotalSupply(r1, now), premium)
        r3 == updateInterestRates(r2, due, 0, now)
    IN  /\ updateStateAccepted(reserves[leg.asset], now)
        /\ aTokenTotalSupply(r1, now) # 0
        /\ updateInterestRatesAccepted(r2, due, 0)
        /\ payIn(leg.asset, receiver, due)
        /\ setReserve(leg.asset, [r3 EXCEPT !.liquidity = @ + due])
        /\ UNCHANGED <<usersConfig, borrowAllowance>>

\* Mutant: the debtor is taken for the borrower, so that no allowance is asked for.
keepAsDebt_ownRisk(leg, initiator, onBehalfOf) ==
    ExecuteBorrow(leg.asset, onBehalfOf, onBehalfOf, leg.amount, leg.mode, FALSE)

\* The receiver keeps the leg: the initiator borrows what was lent, on his own behalf or
\* at the expense of the allowance that onBehalfOf gives him by now.
keepAsDebt(leg, initiator, onBehalfOf) ==
    ExecuteBorrow(leg.asset, initiator, onBehalfOf, leg.amount, leg.mode, FALSE)

FlashLoanSettle ==
    /\ inStage(SETTLING)
    /\ Listed(currentLeg.asset)
    /\ IF currentLeg.mode = NONE
       THEN payBack(currentLeg, currentLoan.receiver)
       ELSE keepAsDebt(currentLeg, currentLoan.initiator, currentLoan.onBehalfOf)
    /\ IF currentLoan.next = Len(currentLoan.legs) THEN endFlashLoan ELSE nextLeg
    /\ UNCHANGED <<reservesList, paused, price, now>>
=============================================================================
