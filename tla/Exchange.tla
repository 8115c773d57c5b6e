------------------------------ MODULE Exchange ------------------------------
(***************************************************************************)
(* What the market promises its traders and providers, whatever the        *)
(* formulas, the fee and the rounding: a transaction moves value between   *)
(* the account of its sender and one pool and touches nobody else; a swap  *)
(* never lowers the product of the reserves; and a change of shares leaves *)
(* the other providers the coins behind theirs, and the tokens but for one *)
(* unit.  SwapRouter and its tokens implement it.                          *)
(***************************************************************************)
EXTENDS Integers

CONSTANTS Tokens, Users

VARIABLES
    pool,       \* pool[t]: the coins, tokens and shares of the pool of t
    stake,      \* stake[t][u]: the shares of u
    purse,      \* purse[u]: coins of u
    wallet      \* wallet[t][u]: tokens of u

vars == <<pool, stake, purse, wallet>>

\* Everybody begins with some coins.
Init ==
    /\ pool = [t \in Tokens |-> [ctc |-> 0, token |-> 0, total |-> 0]]
    /\ stake = [t \in Tokens |-> [u \in Users |-> 0]]
    /\ wallet = [t \in Tokens |-> [u \in Users |-> 0]]
    /\ \A u \in Users : purse[u] >= 0

\* What u gives the pool of t is what the pool gets, on both sides.
Deal(t, u) ==
    /\ pool' = [pool EXCEPT ![t] = pool'[t]]
    /\ purse' = [purse EXCEPT ![u] = @ - (pool'[t].ctc - pool[t].ctc)]
    /\ wallet' = [wallet EXCEPT ![t][u] = @ - (pool'[t].token - pool[t].token)]

Swap(t, u) ==
    /\ Deal(t, u)
    /\ stake' = stake
    /\ pool'[t].total = pool[t].total
    /\ pool'[t].ctc * pool'[t].token >= pool[t].ctc * pool[t].token

Restake(t, u) ==
    /\ Deal(t, u)
    /\ stake' = [stake EXCEPT ![t][u] = @ + (pool'[t].total - pool[t].total)]
    /\ pool'[t].ctc * pool[t].total >= pool[t].ctc * pool'[t].total
    /\ (pool'[t].token + 1) * pool[t].total >= pool[t].token * pool'[t].total

\* Coins sent to the market for nothing.
Donate(u) ==
    /\ purse' = [purse EXCEPT ![u] = purse'[u]]
    /\ purse'[u] <= purse[u]
    /\ UNCHANGED <<pool, stake, wallet>>

\* Tokens are minted and sent beside the market, by their owner only.
Send(t, u) ==
    /\ \A s \in Tokens, v \in Users : wallet'[s][v] >= wallet[s][v] \/ (s = t /\ v = u)
    /\ UNCHANGED <<pool, stake, purse>>

Next ==
    \/ \E t \in Tokens, u \in Users : Swap(t, u) \/ Restake(t, u) \/ Send(t, u)
    \/ \E u \in Users : Donate(u)

\* No account is ever overdrawn.
Covered ==
    \A u \in Users : /\ purse[u] >= 0
                     /\ \A t \in Tokens : wallet[t][u] >= 0 /\ stake[t][u] >= 0

Spec == Init /\ [][Next /\ Covered']_vars
=============================================================================
