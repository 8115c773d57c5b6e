------------------------------ MODULE PoolBook ------------------------------
(***************************************************************************)
(* How a pool gets from the chain into the database and back: the          *)
(* transactions PoolsService builds for wallets to sign, the two writers   *)
(* of the pool row (createPoolFromCreationTx and the indexer's             *)
(* handlePoolCreated), the backfill and the whole-row saves of getPool,    *)
(* the rules row of RulesService with its copy in the pool row, and the    *)
(* tiers the backend configures.  The contract is reduced to what these    *)
(* read of it; EqubPool has the rest, PoolLifecycle seasons and rounds.    *)
(***************************************************************************)
EXTENDS Integers, Sequences, FiniteSets

CONSTANTS
    Wallets, NoWallet,
    TierMax,        \* the maximal contribution configureTiersOnChain gives each tier
    Amounts,        \* contributions a client may ask for
    Types, NoType,  \* kinds of equb; the first, 0, is the default
    Requests,       \* requests the backend handles at a time
    MaxPools, MaxRows, MaxRounds, MaxCalls  \* bounds of the instance

ASSUME PoolBookAssumption ==
    /\ NoWallet \notin Wallets /\ NoType \notin Types /\ 0 \in Types
    /\ TierMax \in Seq(Nat)
ASSUME MaxRowsAssumption == MaxRows \in Nat

VARIABLES
    tiers,      \* TierRegistry: [enabled, max] of each tier
    chain,      \* the pools on the chain
    signed,     \* transactions that were built and signed, not yet mined
    pools,      \* the pool rows, in the order of their insertion
    rules,      \* rules[r]: the equbType of the rules row of pool row r
    requests,   \* the requests in progress
    cooling,    \* selectWinnerCloseGuard: pool rows whose round was just closed
    torn,       \* history: rows two writers overlapped on, or one left half written
    calls       \* history: how many calls there were

db == <<pools, rules, torn>>
vars == <<tiers, chain, signed, pools, rules, requests, cooling, torn, calls>>

Rows == 1 .. Len(pools)
Tiers == DOMAIN TierMax

-----------------------------------------------------------------------------
(* The chain *)

\* The last closed round of a pool is the number of its winners.  Membership
\* and contributions are the contract's own business, see EqubPool.
Created(creator, amount, members) ==
    [creator |-> creator, amount |-> amount, maxMembers |-> members, type |-> 0,
     winners |-> <<>>, scheduled |-> {}, frozen |-> {}]

Accepts(tx) ==
    CASE tx.kind = "create" ->
           /\ tx.amount > 0 /\ tx.members > 1 /\ tx.treasury
           /\ tiers[tx.tier].enabled /\ tx.amount <= tiers[tx.tier].max
      [] tx.kind = "contribute" -> tx.value = chain[tx.pool].amount
      [] tx.kind = "close" -> TRUE
      [] tx.kind = "schedule" ->
           LET p == chain[tx.pool]
           IN  /\ tx.from = p.creator
               /\ p.winners # <<>> /\ Len(p.winners) \notin p.scheduled
               /\ tx.beneficiary = p.winners[Len(p.winners)]
               /\ tx.beneficiary \notin p.frozen

\* closeRound draws one of the members in good standing that paid, any wallet
\* may be one, or reverts.
Closed(p) ==
    {p} \cup {[p EXCEPT !.winners = Append(@, w)] : w \in Wallets \ p.frozen}

Effects(tx) ==
    CASE tx.kind = "create" ->
           {Append(chain, Created(tx.from, tx.amount, tx.members))}
      [] tx.kind = "contribute" -> {chain}
      [] tx.kind = "close" ->
           {[chain EXCEPT ![tx.pool] = p] : p \in Closed(chain[tx.pool])}
      [] tx.kind = "schedule" ->
           {[chain EXCEPT ![tx.pool].scheduled = @ \cup {Len(chain[tx.pool].winners)}]}

Mine ==
    /\ \E tx \in signed :
          /\ signed' = signed \ {tx}
          /\ chain' \in IF Accepts(tx) THEN Effects(tx) ELSE {chain}
    /\ Len(chain') <= MaxPools
    /\ \A i \in DOMAIN chain' : Len(chain'[i].winners) <= MaxRounds
    /\ UNCHANGED <<tiers, db, requests, cooling, calls>>

Call ==
    /\ calls < MaxCalls
    /\ calls' = calls + 1

\* The governor changes the rules of a pool; a creator declares a default.
UpdateRulesOnChain ==
    /\ Call
    /\ \E i \in DOMAIN chain, type \in Types : chain' = [chain EXCEPT ![i].type = type]
    /\ UNCHANGED <<tiers, signed, db, requests, cooling>>

TriggerDefault ==
    /\ Call
    /\ \E i \in DOMAIN chain, w \in Wallets : chain' = [chain EXCEPT ![i].frozen = @ \cup {w}]
    /\ UNCHANGED <<tiers, signed, db, requests, cooling>>

\* The owner of the registry by hand, and the backend at its start: tiers in
\* order, those enabled are left alone, the first failure ends it.
ConfigureTier ==
    /\ Call
    /\ \E t \in Tiers, on \in BOOLEAN : \E max \in 0 .. TierMax[t] :
          tiers' = [tiers EXCEPT ![t] = [enabled |-> on, max |-> max]]
    /\ UNCHANGED <<chain, signed, db, requests, cooling>>

ConfigureTiersOnChain ==
    /\ \E t \in Tiers :
          /\ \A lower \in 1 .. t - 1 : tiers[lower].enabled
          /\ ~tiers[t].enabled
          /\ tiers' = [tiers EXCEPT ![t] = [enabled |-> TRUE, max |-> TierMax[t]]]
    /\ Call
    /\ UNCHANGED <<chain, signed, db, requests, cooling>>

-----------------------------------------------------------------------------
(* Transactions for wallets to sign *)

Offer(tx) == signed' = signed \cup {tx}

\* Mutant: the maximum of the tier is not looked at.
CreatableAtAnyAmount(t, amount, members, treasury) ==
    /\ amount > 0 /\ members > 1 /\ treasury
    /\ tiers[t].enabled

\* What buildCreatePool refuses, so that the contract does not have to.
Creatable(t, amount, members, treasury) ==
    /\ amount > 0 /\ members > 1 /\ treasury
    /\ tiers[t].enabled
    /\ amount <= tiers[t].max

BuildCreatePool ==
    /\ Call
    /\ \E t \in Tiers, amount \in Amounts, members \in 1 .. 2, treasury \in BOOLEAN, w \in Wallets :
          /\ Creatable(t, amount, members, treasury)
          /\ Offer([kind |-> "create", tier |-> t, amount |-> amount, members |-> members,
                    treasury |-> treasury, from |-> w, seen |-> tiers[t]])
    /\ UNCHANGED <<tiers, chain, db, requests, cooling>>

RowsOf(i) == {r \in Rows : pools[r].onChainPoolId = i}

\* The amount in the calldata of the transaction that created the pool, which
\* the row names; what the client says without a row or an answer.
ResolveNativeContributionValue(i, fallback) ==
    {[value |-> fallback, sure |-> FALSE]}
        \cup {[value |-> chain[i].amount, sure |-> TRUE] : r \in RowsOf(i)}

BuildContribute ==
    /\ Call
    /\ \E i \in DOMAIN chain, fallback \in Amounts :
          \E v \in ResolveNativeContributionValue(i, fallback) :
             Offer([kind |-> "contribute", pool |-> i, value |-> v.value, seen |-> v.sure])
    /\ UNCHANGED <<tiers, chain, db, requests, cooling>>

CloseTx(i) == [kind |-> "close", pool |-> i, seen |-> Len(chain[i].winners)]

\* Whoever asks: the contract lets in the creator only.  That a completed
\* season refuses (assertSeasonActive) is part of PoolLifecycle.
BuildCloseRound ==
    /\ Call
    /\ \E i \in DOMAIN chain : Offer(CloseTx(i))
    /\ UNCHANGED <<tiers, chain, db, requests, cooling>>

\* buildSelectWinner: the creator, as the row knows him, gets a transaction
\* that closes the round, at most one within the cooldown, or reads the winner
\* of the last closed round, or both.
Idle == [pc |-> "idle"]
BuildSelectWinner(q, phase) ==
    \E r \in Rows :
        /\ requests[q] = Idle
        /\ pools[r].createdBy # NoWallet /\ pools[r].onChainPoolId # 0
        /\ IF phase = "schedule" THEN UNCHANGED <<signed, cooling>>
           ELSE /\ r \notin cooling
                /\ cooling' = cooling \cup {r}
                /\ Offer(CloseTx(pools[r].onChainPoolId))
        /\ requests' = IF phase = "close" THEN requests ELSE
               [requests EXCEPT ![q] = [pc |-> "winner", row |-> r, caller |-> pools[r].createdBy]]
        /\ Call
        /\ UNCHANGED <<tiers, chain, db>>

\* rotatingWinnerForLastClosedRound, or roundWinner of the round before the
\* current one where the contract has no such view.
LastClosed(i) == Len(chain[i].winners)

ReadWinner(q) ==
    /\ requests[q].pc = "winner"
    /\ LET i == pools[requests[q].row].onChainPoolId
       IN  requests' = [requests EXCEPT ![q] =
               IF LastClosed(i) = 0 THEN Idle
               ELSE [pc |-> "scheduled", row |-> @.row, caller |-> @.caller, round |-> LastClosed(i),
                     winner |-> chain[i].winners[LastClosed(i)]]]
    /\ UNCHANGED <<tiers, chain, signed, db, cooling, calls>>

ReadScheduled(q) ==
    LET m == requests[q]
        i == pools[m.row].onChainPoolId
    IN  /\ m.pc = "scheduled"
        /\ IF m.round \in chain[i].scheduled THEN UNCHANGED signed
           ELSE Offer([kind |-> "schedule", pool |-> i, beneficiary |-> m.winner,
                       from |-> m.caller, seen |-> m.round])
        /\ requests' = [requests EXCEPT ![q] = Idle]
        /\ UNCHANGED <<tiers, chain, db, cooling, calls>>

\* Eight seconds pass.
CoolDown ==
    /\ \E r \in cooling : cooling' = cooling \ {r}
    /\ UNCHANGED <<tiers, chain, signed, db, requests, calls>>

-----------------------------------------------------------------------------
(* Pool rows.  Requests that write a row are stepped through database calls; *)
(* a save of TypeORM writes the whole row as the request holds it.           *)

Answering(q, m) == requests[q] = Idle /\ requests' = [requests EXCEPT ![q] = m]
Going(q, m) == requests' = [requests EXCEPT ![q] = m]

WritesRow(m, r) == m.pc \in {"fetch", "find", "rules", "pool", "loaded", "save"} /\ m.row = r
Overlapped(r) == IF \E q \in Requests : WritesRow(requests[q], r) THEN torn \cup {r} ELSE torn

\* The legacy row of createPool, which nothing ever links to the chain.
CreatePool ==
    /\ Call
    /\ Len(pools) < MaxRows
    /\ pools' = Append(pools, [onChainPoolId |-> 0, createdBy |-> NoWallet, txHash |-> FALSE,
                              equbType |-> NoType, after |-> Len(pools)])
    /\ UNCHANGED <<tiers, chain, signed, rules, requests, cooling, torn>>

\* Mutant: a row without a creator is not found.
UnknownCreator(i) == \A r \in RowsOf(i) : pools[r].createdBy # chain[i].creator

\* The two writers look for a row of the pool first; after keeps when.
Unknown(i) == RowsOf(i) = {}

ToInsert(i, creator) ==
    [pc |-> "insert", onChainPoolId |-> i, createdBy |-> creator, after |-> Len(pools)]

\* Once the transaction is mined and its PoolCreated is found.
CreatePoolFromCreationTx(q) ==
    /\ \E i \in DOMAIN chain : Unknown(i) /\ Answering(q, ToInsert(i, chain[i].creator))
    /\ Call
    /\ UNCHANGED <<tiers, chain, signed, db, cooling>>

\* The creator stays unknown when the transaction cannot be read.
HandlePoolCreated(q) ==
    /\ \E i \in DOMAIN chain : \E creator \in {chain[i].creator, NoWallet} :
          Unknown(i) /\ Answering(q, ToInsert(i, creator))
    /\ Call
    /\ UNCHANGED <<tiers, chain, signed, db, cooling>>

InsertPool(q) ==
    LET m == requests[q]
    IN  /\ m.pc = "insert"
        /\ Len(pools) < MaxRows
        /\ pools' = Append(pools, [onChainPoolId |-> m.onChainPoolId, createdBy |-> m.createdBy,
                                  txHash |-> TRUE, equbType |-> NoType, after |-> m.after])
        /\ Going(q, [pc |-> "fetch", row |-> Len(pools'), times |-> 1])
        /\ UNCHANGED <<tiers, chain, signed, rules, cooling, torn, calls>>

\* getPool loads the row, fills in a missing creator and saves it, saves it
\* again with what it derived of the season: as it was loaded otherwise.
LoadPool(q) ==
    /\ \E r \in Rows :
          /\ Answering(q, [pc |-> "loaded", row |-> r, pool |-> pools[r]])
          /\ torn' = Overlapped(r)
    /\ Call
    /\ UNCHANGED <<tiers, chain, signed, pools, rules, cooling>>

BackfillPoolFromCreationTx(q) ==
    LET m == requests[q]
    IN  /\ m.pc = "loaded"
        /\ m.pool.txHash /\ m.pool.createdBy = NoWallet
        /\ LET found == [m.pool EXCEPT !.createdBy = chain[m.pool.onChainPoolId].creator]
           IN  /\ pools' = [pools EXCEPT ![m.row] = found]
               /\ Going(q, [m EXCEPT !.pc = "save", !.pool = found])
        /\ UNCHANGED <<tiers, chain, signed, rules, cooling, torn, calls>>

SavePool(q) ==
    LET m == requests[q]
    IN  /\ m.pc \in {"loaded", "save"}
        /\ pools' = [pools EXCEPT ![m.row] = m.pool]
        /\ Going(q, Idle)
        /\ UNCHANGED <<tiers, chain, signed, rules, cooling, torn, calls>>

-----------------------------------------------------------------------------
(* Rules.  Each writer finds the rules row, saves it and then updates the   *)
(* copy in the pool row; times says how often it does the latter.           *)

Writer(q, r, m) == Answering(q, m) /\ torn' = Overlapped(r)

\* The rules of a pool without a row come from the chain; a pool row without
\* a type is updated once more.
GetRules(q) ==
    /\ \E r \in Rows :
          /\ rules[r] = NoType /\ pools[r].onChainPoolId # 0
          /\ Writer(q, r, [pc |-> "fetch", row |-> r,
                           times |-> IF pools[r].equbType = NoType THEN 2 ELSE 1])
    /\ Call
    /\ UNCHANGED <<tiers, chain, signed, pools, rules, cooling>>

\* The creator's POST, and his PATCH with or without a type.
SetRules(q) ==
    /\ \E r \in Rows, type \in Types :
          /\ pools[r].createdBy # NoWallet
          /\ Writer(q, r, [pc |-> "find", row |-> r, type |-> type, times |-> 1])
    /\ Call
    /\ UNCHANGED <<tiers, chain, signed, pools, rules, cooling>>

\* Mutant: a patch leaves the pool row alone.
CopiesOfPatchNone(type) == 0

CopiesOfPatch(type) == IF type = NoType THEN 0 ELSE 1

UpdateRules(q) ==
    /\ \E r \in Rows, type \in Types \cup {NoType} :
          /\ pools[r].createdBy # NoWallet
          /\ Writer(q, r, [pc |-> "find", row |-> r, type |-> type, times |-> CopiesOfPatch(type)])
    /\ Call
    /\ UNCHANGED <<tiers, chain, signed, pools, rules, cooling>>

\* RulesUpdated of the chain, delivered late or again.
HandleRulesUpdated(q) ==
    /\ \E r \in Rows :
          /\ pools[r].onChainPoolId # 0
          /\ Writer(q, r, [pc |-> "fetch", row |-> r, times |-> 1])
    /\ Call
    /\ UNCHANGED <<tiers, chain, signed, pools, rules, cooling>>

FetchRulesFromChain(q) ==
    LET m == requests[q]
    IN  /\ m.pc = "fetch"
        /\ Going(q, [pc |-> "find", row |-> m.row, times |-> m.times,
                     type |-> chain[pools[m.row].onChainPoolId].type])
        /\ UNCHANGED <<tiers, chain, signed, db, cooling, calls>>

\* What is written: the type asked for, or else the one of the row that was
\* found, or else the default, whatever the chain says.
FindRules(q) ==
    LET m == requests[q]
        found == rules[m.row]
    IN  /\ m.pc = "find"
        /\ Going(q, [pc |-> "rules", row |-> m.row, times |-> m.times, found |-> found # NoType,
                     type |-> CASE m.type # NoType -> m.type
                                [] m.type = NoType /\ found # NoType -> found
                                [] OTHER -> 0])
        /\ UNCHANGED <<tiers, chain, signed, db, cooling, calls>>

CopyTimes(m, n) == IF n = 0 THEN Idle ELSE [pc |-> "pool", row |-> m.row, type |-> m.type, times |-> n]

\* The second of two that found no row fails: poolId is unique.
SaveRules(q) ==
    LET m == requests[q]
    IN  /\ m.pc = "rules"
        /\ IF m.found \/ rules[m.row] = NoType
           THEN /\ rules' = [rules EXCEPT ![m.row] = m.type]
                /\ Going(q, CopyTimes(m, m.times))
           ELSE UNCHANGED rules /\ Going(q, Idle)
        /\ UNCHANGED <<tiers, chain, signed, pools, cooling, torn, calls>>

CopyType(q) ==
    LET m == requests[q]
    IN  /\ m.pc = "pool"
        /\ pools' = [pools EXCEPT ![m.row].equbType = m.type]
        /\ Going(q, CopyTimes(m, m.times - 1))
        /\ UNCHANGED <<tiers, chain, signed, rules, cooling, torn, calls>>

-----------------------------------------------------------------------------

HalfWritten(q) == IF requests[q].pc = "pool" THEN {requests[q].row} ELSE {}

\* A call of the database or of the node fails, or the backend dies.
Fail(q) ==
    /\ requests[q] # Idle
    /\ Going(q, Idle)
    /\ torn' = torn \cup HalfWritten(q)
    /\ UNCHANGED <<tiers, chain, signed, pools, rules, cooling, calls>>

Restart ==
    /\ Call
    /\ requests' = [q \in Requests |-> Idle]
    /\ cooling' = {}
    /\ torn' = torn \cup UNION {HalfWritten(q) : q \in Requests}
    /\ UNCHANGED <<tiers, chain, signed, pools, rules>>

\* One pool was created before the backend is first started.
Init ==
    /\ tiers = [t \in Tiers |-> [enabled |-> FALSE, max |-> 0]]
    /\ \E w \in Wallets : chain = <<Created(w, 1, 2)>>
    /\ signed = {}
    /\ pools = <<>>
    /\ rules = [r \in 1 .. MaxRows |-> NoType]
    /\ requests = [q \in Requests |-> Idle]
    /\ cooling = {}
    /\ torn = {}
    /\ calls = 0

Ask(q) ==
    \/ \E phase \in {"auto", "close", "schedule"} : BuildSelectWinner(q, phase)
    \/ CreatePoolFromCreationTx(q) \/ HandlePoolCreated(q)
    \/ LoadPool(q) \/ GetRules(q) \/ SetRules(q) \/ UpdateRules(q)
    \/ HandleRulesUpdated(q)

Step(q) ==
    \/ ReadWinner(q) \/ ReadScheduled(q)
    \/ InsertPool(q) \/ BackfillPoolFromCreationTx(q) \/ SavePool(q)
    \/ FetchRulesFromChain(q) \/ FindRules(q) \/ SaveRules(q) \/ CopyType(q)
    \/ Fail(q)

Next ==
    \/ Mine \/ UpdateRulesOnChain \/ TriggerDefault \/ ConfigureTier \/ ConfigureTiersOnChain
    \/ BuildCreatePool \/ BuildContribute \/ BuildCloseRound \/ CoolDown
    \/ CreatePool \/ Restart
    \/ \E q \in Requests : Ask(q) \/ Step(q)

Spec == Init /\ [][Next]_vars

-----------------------------------------------------------------------------
(* Properties *)

\* A pool of the chain has two rows only if the writer of the later one looked
\* before the earlier one was there: neither a repeated request, an indexer
\* that replays PoolCreated nor a restart makes another.
RowsExplained ==
    \A later \in Rows, earlier \in Rows :
        (earlier < later /\ pools[earlier].onChainPoolId = pools[later].onChainPoolId
           /\ pools[later].onChainPoolId # 0)
            => pools[later].after < earlier

\* The type in the pool row, which lists and analytics filter by, is the one
\* of its rules, unless two requests wrote the row at a time or one failed
\* between its two saves; a patch without a type may leave it empty.
RulesAgree ==
    \A r \in Rows \ torn :
        (\A q \in Requests : ~WritesRow(requests[q], r))
            => pools[r].equbType \in {rules[r], NoType}

\* A transaction the backend built is accepted by the contract when it is
\* mined before the state it was built on changes: a pool in a tier as it was,
\* the contribution of a pool whose row was found, the payout of a round that
\* is still the last closed one, not scheduled and not of a frozen winner.
StillValid(tx) ==
    CASE tx.kind = "create" -> tiers[tx.tier] = tx.seen
      [] tx.kind = "contribute" -> tx.seen
      [] tx.kind = "close" -> TRUE
      [] tx.kind = "schedule" ->
           /\ LastClosed(tx.pool) = tx.seen
           /\ tx.seen \notin chain[tx.pool].scheduled
           /\ tx.beneficiary \notin chain[tx.pool].frozen
BuiltTransactionsFit == \A tx \in signed : StillValid(tx) => Accepts(tx)
=============================================================================
