-------------------------- MODULE CollateralVault ---------------------------
(***************************************************************************)
(* contracts/src/CollateralVault.sol: each user's free and locked          *)
(* collateral, and the native balance of the contract that backs them.     *)
(* The functions carry no caller check, so an action has no caller.  The   *)
(* balances are per user: a lock is not tied to the pool it was made for.  *)
(***************************************************************************)
EXTENDS Integers, FiniteSetsExt

CONSTANTS
    Users,        \* depositors
    Amounts,      \* amounts a call may carry (natural numbers)
    MaxDeposits   \* bound: the native currency the vault holds at any time

VARIABLES
    collateral,   \* collateralBalances
    locked,       \* lockedBalances
    vaultBalance  \* the contract's native balance

vars == <<collateral, locked, vaultBalance>>

Lesser(x, y) == IF x > y THEN y ELSE x

Init ==
    /\ collateral = [u \in Users |-> 0]
    /\ locked = [u \in Users |-> 0]
    /\ vaultBalance = 0

DepositCollateral(user, amount) ==
    /\ amount > 0
    /\ vaultBalance + amount <= MaxDeposits
    /\ collateral' = [collateral EXCEPT ![user] = @ + amount]
    /\ vaultBalance' = vaultBalance + amount
    /\ UNCHANGED locked

SlashCollateral(user, amount) ==
    /\ collateral' = [collateral EXCEPT ![user] = @ - Lesser(amount, @)]
    /\ UNCHANGED <<locked, vaultBalance>>

LockCollateral(user, amount) ==
    /\ amount <= collateral[user]
    /\ collateral' = [collateral EXCEPT ![user] = @ - amount]
    /\ locked' = [locked EXCEPT ![user] = @ + amount]
    /\ UNCHANGED vaultBalance

SlashLocked(user, amount) ==
    /\ locked' = [locked EXCEPT ![user] = @ - Lesser(amount, @)]
    /\ UNCHANGED <<collateral, vaultBalance>>

\* Mutant: the whole amount is taken, whatever is locked.
CompensatedInFull(lockedAmount, amount) == lockedAmount - amount

\* What is left locked once a pool has been compensated out of it.
Compensated(lockedAmount, amount) == lockedAmount - Lesser(amount, lockedAmount)

\* Mutant: the treasury receives the amount asked for, not what was locked.
CompensatePoolInFull(user, amount) ==
    /\ amount <= vaultBalance
    /\ locked' = [locked EXCEPT ![user] = Compensated(@, amount)]
    /\ vaultBalance' = vaultBalance - amount
    /\ UNCHANGED collateral

\* No transfer to the treasury: only the books of the user change.
CompensatePool(user, amount) ==
    /\ locked' = [locked EXCEPT ![user] = Compensated(@, amount)]
    /\ UNCHANGED <<collateral, vaultBalance>>

\* Mutant: the payment is made without the books being changed.
ReleaseCollateralUnbooked(user, amount) ==
    /\ amount <= collateral[user]
    /\ amount <= vaultBalance
    /\ vaultBalance' = vaultBalance - amount
    /\ UNCHANGED <<collateral, locked>>

ReleaseCollateral(user, amount) ==
    /\ amount <= collateral[user]
    /\ amount <= vaultBalance
    /\ collateral' = [collateral EXCEPT ![user] = @ - amount]
    /\ vaultBalance' = vaultBalance - amount
    /\ UNCHANGED locked

Next ==
    \E user \in Users, amount \in Amounts :
        \/ DepositCollateral(user, amount)
        \/ SlashCollateral(user, amount)
        \/ LockCollateral(user, amount)
        \/ SlashLocked(user, amount)
        \/ CompensatePool(user, amount)
        \/ ReleaseCollateral(user, amount)

Spec == Init /\ [][Next]_vars

-----------------------------------------------------------------------------
(* Properties *)

\* No balance is ever negative: the checked subtractions never revert.
TypeOK ==
    /\ collateral \in [Users -> Nat]
    /\ locked \in [Users -> Nat]
    /\ vaultBalance \in Nat

\* What the vault owes: the free and locked collateral of every user.
Owed == MapThenSumSet(LAMBDA u : collateral[u] + locked[u], Users)

\* The vault can pay back everyone at once, so the transfer of
\* releaseCollateral never fails for want of funds.
Solvent == Owed <= vaultBalance
=============================================================================
