----------------------------- MODULE TestToken -----------------------------
(***************************************************************************)
(* The ERC-20 tokens of the test network.  Each operator is one external   *)
(* function called by sender; a call that would revert is not enabled.     *)
(***************************************************************************)
EXTENDS Integers, Sequences

CONSTANTS
    Tokens,     \* token contracts
    Users,      \* accounts
    Router,     \* the SwapRouter's address
    Nobody      \* address(0)

ASSUME TokenAccounts == Router \notin Users /\ Nobody \notin Users /\ Router # Nobody

VARIABLES
    balanceOf,  \* balanceOf[t][a]
    allowance,  \* allowance[t][u]: what u lets the router take
    events      \* Transfer events of all tokens, one block each

tokenVars == <<balanceOf, allowance, events>>

Accounts == Users \cup {Router}

TokenInit ==
    /\ balanceOf = [t \in Tokens |-> [a \in Accounts |-> 0]]
    /\ allowance = [t \in Tokens |-> [u \in Users |-> 0]]
    /\ events = <<>>

Emit(t, from, to) == events' = Append(events, [token |-> t, from |-> from, to |-> to])

Moved(t, from, to, amount) ==
    /\ balanceOf[t][from] >= amount
    /\ balanceOf' = [balanceOf EXCEPT ![t] =
           [a \in Accounts |-> @[a] - (IF a = from THEN amount ELSE 0)
                                    + (IF a = to THEN amount ELSE 0)]]
    /\ Emit(t, from, to)

\* By the owner for anybody (mint) or by anybody for itself (faucet).
Mint(t, to, amount) ==
    /\ balanceOf' = [balanceOf EXCEPT ![t][to] = @ + amount]
    /\ Emit(t, Nobody, to)
    /\ UNCHANGED allowance

Transfer(t, sender, to, amount) ==
    /\ Moved(t, sender, to, amount)
    /\ UNCHANGED allowance

Approve(t, sender, amount) ==
    /\ allowance' = [allowance EXCEPT ![t][sender] = amount]
    /\ UNCHANGED <<balanceOf, events>>

\* The router takes what sender approved.
TransferFrom(t, sender, amount) ==
    /\ allowance[t][sender] >= amount
    /\ allowance' = [allowance EXCEPT ![t][sender] = @ - amount]
    /\ Moved(t, sender, Router, amount)
=============================================================================
