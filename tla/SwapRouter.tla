----------------------------- MODULE SwapRouter -----------------------------
(***************************************************************************)
(* The constant-product market of SwapRouter.sol: a pool of native coins   *)
(* and one token per token contract.  Each action is a transaction that    *)
(* succeeds; v is msg.value.                                               *)
(***************************************************************************)
EXTENDS TestToken

VARIABLES
    pools,      \* pools[t]: reserves and shares
    shares,     \* shares[t][u]
    coins       \* coins[a]: native coins of the users and the router

marketVars == <<pools, shares>>
routerVars == <<tokenVars, marketVars, coins>>

Pool == [ctc : Nat, token : Nat, total : Nat]

RouterInit ==
    /\ TokenInit
    /\ pools = [t \in Tokens |-> [ctc |-> 0, token |-> 0, total |-> 0]]
    /\ shares = [t \in Tokens |-> [u \in Users |-> 0]]

Pay(u, v) ==
    /\ v > 0 /\ coins[u] >= v
    /\ coins' = [coins EXCEPT ![u] = @ - v, ![Router] = @ + v]

PayOut(u, v) ==
    /\ coins[Router] >= v
    /\ coins' = [coins EXCEPT ![u] = @ + v, ![Router] = @ - v]

\* Mutant: without the fee, and rounded up.
OutRoundedUp(in, inReserve, outReserve) ==
    (in * outReserve + inReserve + in - 1) \div (inReserve + in)

\* What in buys, less three thousandths of it, rounded down.
Out(in, inReserve, outReserve) ==
    (in * 997 * outReserve) \div (inReserve * 1000 + in * 997)

Liquid(t) == pools[t].ctc > 0 /\ pools[t].token > 0

\* The first provider brings all the tokens it approved, later ones the
\* tokens that go with their coins at the present rate.
Brought(t, u, v) ==
    IF pools[t].total = 0 THEN allowance[t][u]
    ELSE (v * pools[t].token) \div pools[t].ctc

\* Mutant: shares are rounded up.
MintedUp(t, v) ==
    IF pools[t].total = 0 THEN v
    ELSE (v * pools[t].total + pools[t].ctc - 1) \div pools[t].ctc

Minted(t, v) ==
    IF pools[t].total = 0 THEN v ELSE (v * pools[t].total) \div pools[t].ctc

AddLiquidity(t, u, v) ==
    /\ Pay(u, v)
    /\ Brought(t, u, v) > 0
    /\ TransferFrom(t, u, Brought(t, u, v))
    /\ pools' = [pools EXCEPT ![t] =
           [ctc |-> @.ctc + v, token |-> @.token + Brought(t, u, v),
            total |-> @.total + Minted(t, v)]]
    /\ shares' = [shares EXCEPT ![t][u] = @ + Minted(t, v)]

Part(t, s, reserve) == (s * reserve) \div pools[t].total

RemoveLiquidity(t, u, s) ==
    /\ s > 0 /\ shares[t][u] >= s
    /\ pools[t].total > 0
    /\ shares' = [shares EXCEPT ![t][u] = @ - s]
    /\ pools' = [pools EXCEPT ![t] =
           [ctc |-> @.ctc - Part(t, s, @.ctc), token |-> @.token - Part(t, s, @.token),
            total |-> @.total - s]]
    /\ PayOut(u, Part(t, s, pools[t].ctc))
    /\ Transfer(t, Router, u, Part(t, s, pools[t].token))

SwapCTCForToken(t, u, v, minOut) ==
    LET out == Out(v, pools[t].ctc, pools[t].token)
    IN  /\ Liquid(t)
        /\ Pay(u, v)
        /\ out >= minOut /\ out <= pools[t].token
        /\ pools' = [pools EXCEPT ![t].ctc = @ + v, ![t].token = @ - out]
        /\ Transfer(t, Router, u, out)
        /\ UNCHANGED shares

SwapTokenForCTC(t, u, in, minOut) ==
    LET out == Out(in, pools[t].token, pools[t].ctc)
    IN  /\ Liquid(t)
        /\ in > 0
        /\ TransferFrom(t, u, in)
        /\ out >= minOut /\ out <= pools[t].ctc
        /\ pools' = [pools EXCEPT ![t].token = @ + in, ![t].ctc = @ - out]
        /\ PayOut(u, out)
        /\ UNCHANGED shares

\* receive: coins sent without a call belong to no pool.
Receive(u, v) == Pay(u, v) /\ UNCHANGED <<tokenVars, marketVars>>

\* getQuote: what a swap would give now.
Quote(t, in, ctcToToken) ==
    IF ctcToToken THEN Out(in, pools[t].ctc, pools[t].token)
    ELSE Out(in, pools[t].token, pools[t].ctc)

-----------------------------------------------------------------------------
(* Properties *)

\* A pool has shares exactly when it has coins, and exactly when it has
\* tokens: no provider is left with shares of an empty side, no reserve is
\* left without an owner, and addLiquidity never divides by zero.
ReservesAgree ==
    \A t \in Tokens :
        /\ pools[t].total > 0 <=> pools[t].ctc > 0
        /\ pools[t].total > 0 <=> pools[t].token > 0
=============================================================================
