----------------------------- MODULE ScaledToken -----------------------------
(***************************************************************************)
(* Storage of AToken and VariableDebtToken: the ERC20 balances and supply, *)
(* divided by the index at the time of each mint, burn or transfer.  The   *)
(* operators are the internal functions of IncentivizedERC20; a SafeMath   *)
(* revert is the negation of the operator whose name ends in Accepted.     *)
(***************************************************************************)
EXTENDS Accounts

Token == [balance : [Account -> Nat], supply : Nat]

EmptyToken == [balance |-> [u \in Account |-> 0], supply |-> 0]

mintScaled(t, account, amount) ==
    [balance |-> [t.balance EXCEPT ![account] = @ + amount],
     supply  |-> t.supply + amount]

burnScaledAccepted(t, account, amount) ==
    amount <= t.supply /\ amount <= t.balance[account]

burnScaled(t, account, amount) ==
    [balance |-> [t.balance EXCEPT ![account] = @ - amount],
     supply  |-> t.supply - amount]

transferScaledAccepted(t, sender, amount) == amount <= t.balance[sender]

\* Mutant: both balances are read before either is written.
transferScaled_cached(t, sender, recipient, amount) ==
    [t EXCEPT !.balance = [t.balance EXCEPT ![sender] = @ - amount,
                                    ![recipient] = t.balance[recipient] + amount]]

\* The recipient's balance is read after the sender's was written, so that a
\* transfer to oneself leaves the balance as it was.
transferScaled(t, sender, recipient, amount) ==
    LET debited == [t.balance EXCEPT ![sender] = @ - amount]
    IN  [t EXCEPT !.balance = [debited EXCEPT ![recipient] = @ + amount]]

-----------------------------------------------------------------------------
\* AToken.mint, VariableDebtToken.mint: revert when the amount is worth no token.
mintAccepted(amount, index) == rayDiv(amount, index) # 0

mint(t, account, amount, index) == mintScaled(t, account, rayDiv(amount, index))

\* AToken.burn, VariableDebtToken.burn.
burnAccepted(t, account, amount, index) ==
    /\ rayDiv(amount, index) # 0
    /\ burnScaledAccepted(t, account, rayDiv(amount, index))

burn(t, account, amount, index) == burnScaled(t, account, rayDiv(amount, index))

\* AToken.mintToTreasury: a fee worth less than one token is lost, not refused.
mintToTreasury(t, treasury, amount, index) ==
    IF amount = 0 THEN t ELSE mintScaled(t, treasury, rayDiv(amount, index))

\* balanceOf and totalSupply of both tokens, at a normalized income or debt.
balanceOf(t, account, index) == rayMul(t.balance[account], index)
totalSupply(t, index) == rayMul(t.supply, index)
=============================================================================
