------------------------------- MODULE Custody ------------------------------
(***************************************************************************)
(* CollateralService and the token operations of TokenService that send or *)
(* announce something.  The deployer's account holds the deposited tokens, *)
(* table collaterals says how much of them is whose; a release pays on the *)
(* chain first and writes the row it read before after that.               *)
(*                                                                         *)
(* Amounts of requests are in fractions, Whole of which make one token;    *)
(* the balances of the table are whole tokens.                             *)
(***************************************************************************)
EXTENDS Notifications

CONSTANTS
    Requests,   \* requests in flight
    Pools,      \* pools a row of collateral may be for
    Amounts,    \* amounts of requests
    Whole,      \* fractions of one token
    None,       \* null
    MaxCalls,   \* bound on the requests and deposits of a behaviour
    MaxSent     \* bound on the notifications of transfers and the faucet

ASSUME WholeAssumption == Whole \in Nat \ {0}
ASSUME AmountsAssumption == Amounts \subseteq Nat

VARIABLES
    collaterals,    \* rows of table collaterals, by their id
    requests,       \* requests[r]: what request r does and has read
    deposits,       \* transfers to the deployer that were mined
    credited,       \* credited[w]: whole tokens confirmed or locked so far
    paid,           \* paid[w]: fractions the deployer has sent back
    minted,         \* minted[w]: fractions the faucet has minted
    calls           \* bound

moneyVars == <<deposits, credited, paid, minted>>
vars == <<noteVars, collaterals, requests, moneyVars, calls>>

Init ==
    /\ NotesInit
    /\ collaterals = <<>>
    /\ requests = [r \in Requests |-> None]
    /\ deposits = {}
    /\ credited = [w \in Clients |-> 0]
    /\ paid = [w \in Clients |-> 0]
    /\ minted = [w \in Clients |-> 0]
    /\ calls = 0

\* parseAmountToBigInt cuts the fraction off.
ParseAmount(amount) == amount \div Whole

Begin(r, t) ==
    /\ requests[r] = None
    /\ calls < MaxCalls
    /\ calls' = calls + 1
    /\ requests' = [requests EXCEPT ![r] = t]

Continue(r, t) ==
    /\ requests' = [requests EXCEPT ![r] = t]
    /\ UNCHANGED calls

End(r) == Continue(r, None)

Doing(r, op, at) == requests[r] # None /\ requests[r].op = op /\ requests[r].at = at

Key(event, amount, tx) == [event |-> event, amount |-> amount, tx |-> tx]

-----------------------------------------------------------------------------
(* Rows of collateral *)

Fresh(w, p) ==
    [id |-> 0, wallet |-> w, pool |-> p, locked |-> 0, slashed |-> 0, available |-> 0]

\* findOne: without a pool, whichever row of the wallet the database gives.
Found(w, p) ==
    {i \in DOMAIN collaterals :
        collaterals[i].wallet = w /\ (p # None => collaterals[i].pool = p)}

Loaded(w, p) ==
    IF Found(w, p) = {} THEN {Fresh(w, p)}
    ELSE {[collaterals[i] EXCEPT !.id = i] : i \in Found(w, p)}

\* The unique index on wallet and pool lets rows without a pool repeat.
Insertable(row) ==
    row.pool # None => Found(row.wallet, row.pool) = {}

Saved(row) ==
    IF row.id = 0 THEN Append(collaterals, [row EXCEPT !.id = Len(collaterals) + 1])
    ELSE [collaterals EXCEPT ![row.id] = row]

\* The transfer buildDepositToken made ready, signed and mined.
DepositToken(w, amount) ==
    /\ calls < MaxCalls
    /\ calls' = calls + 1
    /\ deposits' = deposits \cup {[tx |-> calls + 1, wallet |-> w, amount |-> amount]}
    /\ UNCHANGED <<noteVars, collaterals, requests, credited, paid, minted>>

\* confirmTokenDeposit and lock read a row and add to it; nothing tells a
\* deposit that was confirmed before.
ReadToAdd(r, op, w, p, amount, tx) ==
    /\ \E row \in Loaded(w, p) :
           Begin(r, [op |-> op, at |-> "save", amount |-> amount, tx |-> tx,
                     row |-> [row EXCEPT !.locked = @ + ParseAmount(amount)]])
    /\ UNCHANGED <<noteVars, collaterals, moneyVars>>

ConfirmTokenDeposit(r, d) == ReadToAdd(r, "confirm", d.wallet, None, d.amount, d.tx)

Lock(r, w, p, amount) == ReadToAdd(r, "lock", w, p, amount, None)

SaveAdded(r) ==
    LET t == requests[r]
    IN  /\ t # None /\ t.op \in {"confirm", "lock"}
        /\ IF t.row.id = 0 => Insertable(t.row)
           THEN /\ collaterals' = Saved(t.row)
                /\ credited' = [credited EXCEPT ![t.row.wallet] = @ + ParseAmount(t.amount)]
                /\ IF t.op = "confirm"
                   THEN Notify(<<Note(t.row.wallet, "collateral_deposit_confirmed",
                                      Key("deposit", t.amount, t.tx), "", "")>>)
                   ELSE UNCHANGED noteVars
           ELSE UNCHANGED <<noteVars, collaterals, credited>>
        /\ End(r)
        /\ UNCHANGED <<deposits, paid, minted>>

Lesser(x, y) == IF x < y THEN x ELSE y

\* Mutant: what is slashed is not taken from the locked balance.
SlashedTwice(row, amount) ==
    [row EXCEPT !.slashed = @ + Lesser(ParseAmount(amount), row.locked)]

\* At most the locked balance is slashed.
Slashed(row, amount) ==
    LET actual == Lesser(ParseAmount(amount), row.locked)
    IN  [row EXCEPT !.locked = @ - actual, !.slashed = @ + actual]

Slash(r, w, p, amount) ==
    /\ \E i \in Found(w, p) :
           Begin(r, [op |-> "slash", at |-> "save",
                     row |-> Slashed([collaterals[i] EXCEPT !.id = i], amount)])
    /\ UNCHANGED <<noteVars, collaterals, moneyVars>>

SaveSlashed(r) ==
    /\ Doing(r, "slash", "save")
    /\ collaterals' = Saved(requests[r].row)
    /\ End(r)
    /\ UNCHANGED <<noteVars, moneyVars>>

-----------------------------------------------------------------------------
(* Releases *)

ReleaseFailed(w, amount) ==
    Notify(<<Note(w, "collateral_released", Key("release_failed", amount, None),
                  "failed", "transaction")>>)

\* The row is read and checked; then the transfer is on its way.
Release(r, w, amount) ==
    \/ \E i \in Found(w, None) :
           /\ ParseAmount(amount) <= collaterals[i].locked
           /\ Begin(r, [op |-> "release", at |-> "transfer", amount |-> amount, tx |-> calls + 1,
                        row |-> [collaterals[i] EXCEPT !.id = i]])
           /\ UNCHANGED <<noteVars, collaterals, moneyVars>>
    \/ /\ calls < MaxCalls /\ calls' = calls + 1
       /\ \/ Found(w, None) = {}
          \/ \E i \in Found(w, None) : ParseAmount(amount) > collaterals[i].locked
       /\ ReleaseFailed(w, amount)
       /\ UNCHANGED <<requests, collaterals, moneyVars>>

\* The transfer is mined; what awaits it may still fail.
TransferMined(r) ==
    /\ Doing(r, "release", "transfer")
    /\ LET t == requests[r]
       IN  /\ paid' = [paid EXCEPT ![t.row.wallet] = @ + t.amount]
           /\ \/ Continue(r, [t EXCEPT !.at = "save"]) /\ UNCHANGED noteVars
              \/ End(r) /\ ReleaseFailed(t.row.wallet, t.amount)
    /\ UNCHANGED <<collaterals, deposits, credited, minted>>

TransferFails(r) ==
    /\ Doing(r, "release", "transfer")
    /\ End(r) /\ ReleaseFailed(requests[r].row.wallet, requests[r].amount)
    /\ UNCHANGED <<collaterals, moneyVars>>

\* The row as it was read before the transfer, less what was released.
Released(t) ==
    [t.row EXCEPT !.locked = @ - ParseAmount(t.amount), !.available = @ + ParseAmount(t.amount)]

SaveReleased(r) ==
    /\ Doing(r, "release", "save")
    /\ LET t == requests[r]
       IN  \/ /\ collaterals' = Saved(Released(t))
              /\ Notify(<<Note(t.row.wallet, "collateral_released",
                               Key("released", t.amount, t.tx), "confirmed", "transaction")>>)
           \/ ReleaseFailed(t.row.wallet, t.amount) /\ UNCHANGED collaterals
    /\ End(r)
    /\ UNCHANGED moneyVars

-----------------------------------------------------------------------------
(* Tokens *)

Announced(w, type, status, key) == Note(w, type, key, status, "transaction")

\* buildTransfer announces a transfer to be signed, or that it could not be
\* made ready; buildWithdraw does so and announces itself besides.
BuildTransfer(w, amount, ok, withdraw) ==
    LET status == IF ok THEN "pending" ELSE "failed"
        transfer == Announced(w, "transfer_built", status, Key(status, amount, None))
        withdrawal == Announced(w, "withdraw_built", status, Key(status, amount, None))
    IN  /\ calls < MaxCalls /\ calls' = calls + 1
        /\ sent + (IF withdraw THEN 2 ELSE 1) <= MaxSent
        /\ Notify(IF withdraw THEN <<transfer, withdrawal>> ELSE <<transfer>>)
        /\ UNCHANGED <<requests, collaterals, moneyVars>>

\* The faucet's mint is mined or not, and the wait for it succeeds or not.
MintFaucetTokens(w, amount, mined, seen) ==
    /\ seen => mined
    /\ sent < MaxSent
    /\ calls < MaxCalls /\ calls' = calls + 1
    /\ minted' = IF mined THEN [minted EXCEPT ![w] = @ + amount] ELSE minted
    /\ Notify(<<IF seen
                THEN Announced(w, "faucet_credited", "confirmed",
                               Key("faucet", amount, calls + 1))
                ELSE Announced(w, "system", "failed", Key("faucet_failed", amount, None))>>)
    /\ UNCHANGED <<requests, collaterals, deposits, credited, paid>>

-----------------------------------------------------------------------------
Ask(w, amount) ==
    \/ DepositToken(w, amount)
    \/ \E r \in Requests :
          \/ Release(r, w, amount)
          \/ \E p \in Pools \cup {None} : Lock(r, w, p, amount) \/ Slash(r, w, p, amount)
    \/ \E ok, withdraw \in BOOLEAN : BuildTransfer(w, amount, ok, withdraw)
    \/ \E mined, seen \in BOOLEAN : MintFaucetTokens(w, amount, mined, seen)

Step(r) ==
    \/ SaveAdded(r) \/ SaveSlashed(r)
    \/ TransferMined(r) \/ TransferFails(r) \/ SaveReleased(r)

Background ==
    /\ \/ \E c \in outbox : CreateStep(c)
       \/ \E w \in Clients : FindForWalletIncremental(w)
       \/ day < 1 /\ PassWindow
    /\ UNCHANGED <<collaterals, requests, moneyVars, calls>>

Next ==
    \/ \E w \in Clients, amount \in Amounts : Ask(w, amount)
    \/ \E r \in Requests, d \in deposits : ConfirmTokenDeposit(r, d)
    \/ \E r \in Requests : Step(r)
    \/ Background

Spec == Init /\ [][Next]_vars

-----------------------------------------------------------------------------
(* Properties *)

\* Each row of collateral is under its id, of one wallet and pool no other row
\* has, and holds no negative balance; no notification is of the future.
TypeOK ==
    /\ \A i \in DOMAIN collaterals : collaterals[i] \in
           [id : {i}, wallet : Clients, pool : Pools \cup {None},
            locked : Nat, slashed : Nat, available : Nat]
    /\ \A i, j \in DOMAIN collaterals :
           /\ i # j /\ collaterals[i].pool # None
           /\ collaterals[i].wallet = collaterals[j].wallet
           => collaterals[i].pool # collaterals[j].pool
    /\ credited \in [Clients -> Nat] /\ paid \in [Clients -> Nat] /\ minted \in [Clients -> Nat]
    /\ \A i \in DOMAIN notes : notes[i].created \in 1..clock /\ notes[i].day \in 0..day

Total(w, column) ==
    MapThenSumSet(LAMBDA i : collaterals[i][column], Found(w, None))

\* However requests overlap, fail or save rows they read long ago, the rows of
\* a wallet never hold more than was confirmed or locked for it, no balance is
\* negative, and none is recorded as released that was not paid (slash, lock,
\* confirmTokenDeposit, releaseTokenCollateral).
BalancesExplained == \A w \in Clients :
    /\ \A i \in Found(w, None) : collaterals[i].locked \in Nat
    /\ Total(w, "locked") + Total(w, "slashed") + Total(w, "available") <= credited[w]
    /\ Total(w, "available") * Whole <= paid[w]
=============================================================================
