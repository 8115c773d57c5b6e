---------------------------- MODULE PoolLifecycle ---------------------------
(***************************************************************************)
(* backend/src/pools/pools.service.ts: the rows that follow the seasons    *)
(* and rounds of one pool.                                                 *)
(*                                                                         *)
(* closeActiveRound and pickWinnerForActiveRound run in a transaction that *)
(* locks the row of the pool, so each of them is one action (but for the   *)
(* lookup of the idempotency key, which precedes the lock).  All others    *)
(* hold no lock (getPool, closeRound, createNextSeason, the indexer): they *)
(* read the pool, then the season, then save, and anything may happen      *)
(* between these steps.  The transaction of createNextSeason shows its     *)
(* rows when it commits.  A save writes every column of the row as it was  *)
(* read.  A refused transaction is rolled back.  The caller is the creator *)
(* of the pool: others are refused before anything is read.                *)
(***************************************************************************)
EXTENDS Integers, Sequences, FiniteSets, FiniteSetsExt

CONSTANTS
    Wallets,      \* member addresses
    NoWallet,     \* no winner yet
    Keys,         \* idempotency keys of the creator's clients
    Readers,      \* concurrent requests and events that hold no lock
    MaxMembers,   \* pool.maxMembers: the rounds of a season
    MaxSeasons,   \* bound: season rows
    MaxNumber,    \* bound: round numbers
    MaxCalls      \* bound: requests and events that hold no lock

ASSUME LifecycleAssumption ==
    /\ NoWallet \notin Wallets
    /\ MaxMembers \in Nat \ {0} /\ MaxSeasons \in Nat
    /\ MaxNumber \in Nat /\ MaxNumber > MaxMembers
    /\ MaxCalls \in Nat

VARIABLES
    pool,      \* the row: currentRound, status and activeRound
    seasons,   \* the season rows in the order of their insertion
    rounds,    \* the round rows, by season row and round number (unique)
    members,   \* pool_members
    keys,      \* idempotency_keys: the round each stored key picked
    sent,      \* the keys of requests that are past the lookup of their key
    reader,    \* what each reader has read
    calls      \* the requests and events without a lock so far

vars == <<pool, seasons, rounds, members, keys, sent, reader, calls>>
rows == <<pool, seasons, rounds>>

SeasonIds == 1 .. MaxSeasons
Numbers == 1 .. MaxNumber
RoundIds == SeasonIds \X Numbers
NoRound == <<0, 0>>

Pool == [currentRound : Numbers, status : {"active", "round-closed", "completed"},
         activeRound : RoundIds \cup {NoRound}]
Season == [number : Nat \ {0}, status : {"active", "completed"}, completedRounds : 0 .. MaxMembers]
Round == [status : {"absent", "open", "closed", "winner_picked"}, winner : Wallets \cup {NoWallet}]

Absent == [status |-> "absent", winner |-> NoWallet]
Opened(status) == [status |-> status, winner |-> NoWallet]
NewSeason(number) == [number |-> number, status |-> "active", completedRounds |-> 0]

Idle == [at |-> "idle"]

\* A pool as createPoolFromCreationTx and the indexer store it.
Init ==
    /\ pool = [currentRound |-> 1, status |-> "active", activeRound |-> NoRound]
    /\ seasons = <<>>
    /\ rounds = [id \in RoundIds |-> Absent]
    /\ members = {}
    /\ keys = [k \in Keys |-> NoRound]
    /\ sent = {}
    /\ reader = [r \in Readers |-> Idle]
    /\ calls = 0

-----------------------------------------------------------------------------
(* Helpers of the service *)

Lesser(x, y) == IF x < y THEN x ELSE y

DeriveCompletedRounds(currentRound) == Lesser(currentRound - 1, MaxMembers)

\* The season rows ensureSeasonState may find: the highest number, and any of
\* them when several rows share it, for seasonNumber is not unique.
Latest(table) == {s \in DOMAIN table : \A t \in DOMAIN table : table[t].number <= table[s].number}

\* Mutant: a season is complete one round too late.
EnsuredLate(season, p) ==
    LET completed == DeriveCompletedRounds(p.currentRound)
    IN  [season EXCEPT !.completedRounds = completed,
                       !.status = IF completed > MaxMembers THEN "completed" ELSE "active"]

\* The columns ensureSeasonState computes from the round the pool is in; a
\* completed season becomes active again when the round says so.
Ensured(season, p) ==
    LET completed == DeriveCompletedRounds(p.currentRound)
    IN  [season EXCEPT !.completedRounds = completed,
                       !.status = IF completed >= MaxMembers THEN "completed" ELSE "active"]

\* ensureSeasonState within a transaction: the first season is created.
SeasonTable == IF seasons = <<>> THEN <<NewSeason(1)>> ELSE seasons
EnsuredTable(s) == [SeasonTable EXCEPT ![s] = Ensured(@, pool)]

ToRoundStatus(status) == IF status = "round-closed" THEN "closed" ELSE "open"

\* ensureActiveRound: the round the pool points to if it is of this season, or
\* the row with the number of the pool's current round, created when missing.
ActiveRound(p, s) ==
    IF p.activeRound # NoRound /\ p.activeRound[1] = s THEN p.activeRound
    ELSE <<s, p.currentRound>>
ActiveRow(p, s) ==
    LET id == ActiveRound(p, s)
    IN  IF rounds[id].status = "absent" THEN Opened(ToRoundStatus(p.status)) ELSE rounds[id]
PointedAt(p, s) ==
    LET id == ActiveRound(p, s)
    IN  IF id = p.activeRound THEN p ELSE [p EXCEPT !.activeRound = id, !.currentRound = id[2]]

\* Mutant: members that won already are drawn again.
EligibleAll(s) == members

Eligible(s) ==
    members \ {rounds[<<s, n>>].winner : n \in {m \in Numbers : rounds[<<s, m>>].status = "winner_picked"}}

-----------------------------------------------------------------------------
(* Transactions *)

CloseActiveRound ==
    \E s \in Latest(SeasonTable) :
        LET id == ActiveRound(pool, s)
        IN  /\ s <= MaxSeasons
            /\ EnsuredTable(s)[s].status # "completed"
            /\ ActiveRow(pool, s).status = "open"
            /\ seasons' = EnsuredTable(s)
            /\ rounds' = [rounds EXCEPT ![id] = Opened("closed")]
            /\ pool' = [PointedAt(pool, s) EXCEPT !.status = "round-closed"]
            /\ UNCHANGED <<members, keys, sent, reader, calls>>

\* The lookup of the key, before the row of the pool is locked.  A key that is
\* stored is answered from the store and changes nothing.  Any number of retries
\* with the same key may be past the lookup, for as long as they like; one that
\* is refused or fails is rolled back and leaves no trace.
SendPick(k) ==
    /\ keys[k] = NoRound
    /\ sent' = sent \cup {k}
    /\ UNCHANGED <<rows, members, keys, reader, calls>>

\* The season ends with the round that was picked, or its next round opens.
Advance(s, id) ==
    LET completed == EnsuredTable(s)[s].completedRounds + 1
        next == <<s, id[2] + 1>>
    IN  /\ seasons' = [EnsuredTable(s) EXCEPT ![s].completedRounds = completed,
               ![s].status = IF completed >= MaxMembers THEN "completed" ELSE @]
        /\ IF completed >= MaxMembers
           THEN pool' = [PointedAt(pool, s) EXCEPT !.status = "completed", !.activeRound = id]
           ELSE /\ next \in RoundIds
                /\ rounds[next].status = "absent"
                /\ pool' = [currentRound |-> next[2], status |-> "active", activeRound |-> next]

\* The rows after the pick of a winner for a round.
Picked(s, id, winner) ==
    LET completed == EnsuredTable(s)[s].completedRounds + 1
        next == <<s, id[2] + 1>>
    IN  [r \in RoundIds |->
            IF r = id THEN [status |-> "winner_picked", winner |-> winner]
            ELSE IF r = next /\ completed < MaxMembers THEN Opened("open")
            ELSE rounds[r]]

\* Mutant: the state of the active round is not checked.
PickAnyRound(k) ==
    \E s \in Latest(SeasonTable) :
        LET id == ActiveRound(pool, s)
        IN  /\ s <= MaxSeasons /\ k \in sent
            /\ EnsuredTable(s)[s].status # "completed"
            /\ \E winner \in Eligible(s) : rounds' = Picked(s, id, winner)
            /\ Advance(s, id)
            /\ keys[k] = NoRound
            /\ keys' = [keys EXCEPT ![k] = id]
            /\ UNCHANGED <<members, sent, reader, calls>>

\* Mutant: the key of a request is stored over that of an earlier one.
PickReplacingKey(k) ==
    \E s \in Latest(SeasonTable) :
        LET id == ActiveRound(pool, s)
        IN  /\ s <= MaxSeasons /\ k \in sent
            /\ EnsuredTable(s)[s].status # "completed"
            /\ ActiveRow(pool, s).status = "closed"
            /\ \E winner \in Eligible(s) : rounds' = Picked(s, id, winner)
            /\ Advance(s, id)
            /\ keys' = [keys EXCEPT ![k] = id]
            /\ UNCHANGED <<members, sent, reader, calls>>

\* The locked part.  The key and the next round are inserted under unique
\* constraints: when another request was faster the transaction is rolled back.
PickWinnerForActiveRound(k) ==
    \E s \in Latest(SeasonTable) :
        LET id == ActiveRound(pool, s)
        IN  /\ s <= MaxSeasons /\ k \in sent
            /\ EnsuredTable(s)[s].status # "completed"
            /\ ActiveRow(pool, s).status = "closed"
            /\ \E winner \in Eligible(s) : rounds' = Picked(s, id, winner)
            /\ Advance(s, id)
            /\ keys[k] = NoRound
            /\ keys' = [keys EXCEPT ![k] = id]
            /\ UNCHANGED <<members, sent, reader, calls>>

-----------------------------------------------------------------------------
(* Requests and events without a lock *)

\* One more request or event, within the bound.
Call ==
    /\ calls < MaxCalls
    /\ calls' = calls + 1

\* joinPool checks the size of a list it read before, recordContribution and
\* the indexer do not check it: the members may outnumber maxMembers.
AddMember(w) ==
    /\ w \notin members
    /\ members' = members \cup {w}
    /\ UNCHANGED <<rows, keys, sent, reader, calls>>

LoadPool(r) ==
    /\ reader[r] = Idle
    /\ Call
    /\ reader' = [reader EXCEPT ![r] = [at |-> "loaded", pool |-> pool, closed |-> FALSE]]
    /\ UNCHANGED <<rows, members, keys, sent>>

ReadSeason(r) ==
    /\ reader[r].at = "loaded"
    /\ \E s \in Latest(seasons) \cup (IF seasons = <<>> THEN {0} ELSE {}) :
           reader' = [reader EXCEPT ![r] =
               [at |-> "read", pool |-> @.pool, closed |-> @.closed, id |-> s,
                season |-> IF s = 0 THEN NewSeason(1) ELSE seasons[s]]]
    /\ UNCHANGED <<rows, members, keys, sent, calls>>

\* The season is saved when it is new or changed.
SavedSeasons(mine) ==
    LET ensured == Ensured(mine.season, mine.pool)
    IN  IF mine.id = 0 THEN Append(seasons, ensured)
        ELSE IF ensured # mine.season THEN [seasons EXCEPT ![mine.id] = ensured]
        ELSE seasons
Place(mine) == IF mine.id = 0 THEN Len(seasons) + 1 ELSE mine.id

\* The end of ensureSeasonState: the pool is saved too, as it was loaded, when
\* the season is complete.
SaveSeason(r) ==
    LET mine == reader[r]
        ensured == Ensured(mine.season, mine.pool)
        ends == ensured.status = "completed" /\ mine.pool.status # "completed"
        loaded == IF ends THEN [mine.pool EXCEPT !.status = "completed"] ELSE mine.pool
    IN  /\ mine.at = "read"
        /\ Place(mine) <= MaxSeasons
        /\ seasons' = SavedSeasons(mine)
        /\ pool' = IF ends THEN loaded ELSE pool
        /\ reader' = [reader EXCEPT ![r] = [at |-> "ensured", pool |-> loaded, closed |-> mine.closed,
                                            id |-> Place(mine), season |-> ensured]]
        /\ UNCHANGED <<rounds, members, keys, sent, calls>>

\* The end of getPool: ensureActiveRound, then the pool is saved as loaded.
SavePool(r) ==
    LET mine == reader[r]
        id == ActiveRound(mine.pool, mine.id)
    IN  /\ mine.at = "ensured" /\ ~mine.closed
        /\ rounds' = [rounds EXCEPT ![id] = ActiveRow(mine.pool, mine.id)]
        /\ pool' = [mine.pool EXCEPT !.activeRound = id, !.currentRound = id[2]]
        /\ reader' = [reader EXCEPT ![r] = Idle]
        /\ UNCHANGED <<seasons, members, keys, sent, calls>>

\* The legacy endpoint, for whatever round it is called with: after the check
\* of the season the pool is saved, and ensureSeasonState runs once more.
CloseRound(r, round) ==
    LET mine == reader[r]
        closed == [mine.pool EXCEPT !.currentRound = round + 1,
                       !.status = IF round + 1 > MaxMembers THEN "completed" ELSE "round-closed"]
    IN  /\ mine.at = "ensured" /\ ~mine.closed
        /\ mine.season.status # "completed"
        /\ round + 1 \in Numbers
        /\ pool' = closed
        /\ reader' = [reader EXCEPT ![r] = [at |-> "loaded", pool |-> closed, closed |-> TRUE]]
        /\ UNCHANGED <<seasons, rounds, members, keys, sent, calls>>

\* The commit of createNextSeason.  The pool still points to the last round of
\* the season that ended.
CreateNextSeason(r) ==
    LET mine == reader[r]
        ensured == Ensured(mine.season, mine.pool)
    IN  /\ mine.at = "read" /\ ~mine.closed
        /\ ensured.status = "completed"
        /\ Len(SavedSeasons(mine)) < MaxSeasons
        /\ seasons' = Append(SavedSeasons(mine), NewSeason(ensured.number + 1))
        /\ pool' = [mine.pool EXCEPT !.currentRound = 1, !.status = "active"]
        /\ reader' = [reader EXCEPT ![r] = Idle]
        /\ UNCHANGED <<rounds, members, keys, sent, calls>>

\* The indexer's handler: rounds are numbered by the contract, which never
\* starts over, and events of a scan that was cut short come again.
HandleRoundClosed(r, round) ==
    LET mine == reader[r]
    IN  /\ mine.at = "loaded" /\ ~mine.closed
        /\ round + 1 \in Numbers
        /\ pool' = [mine.pool EXCEPT !.currentRound = round + 1, !.status = "round-closed"]
        /\ reader' = [reader EXCEPT ![r] = Idle]
        /\ UNCHANGED <<seasons, rounds, members, keys, sent, calls>>

\* Readers that need no round (getEligibleWinners, buildSelectWinner) end after
\* ensureSeasonState; any of them may fail.
Leave(r) ==
    /\ reader[r] # Idle
    /\ reader' = [reader EXCEPT ![r] = Idle]
    /\ UNCHANGED <<rows, members, keys, sent, calls>>

Next ==
    \/ CloseActiveRound
    \/ \E k \in Keys : SendPick(k) \/ PickWinnerForActiveRound(k)
    \/ \E w \in Wallets : AddMember(w)
    \/ \E r \in Readers :
          \/ LoadPool(r) \/ ReadSeason(r) \/ SaveSeason(r) \/ SavePool(r) \/ CreateNextSeason(r) \/ Leave(r)
          \/ \E round \in Numbers : CloseRound(r, round) \/ HandleRoundClosed(r, round)

Spec == Init /\ [][Next]_vars

-----------------------------------------------------------------------------
(* Properties *)

\* The rows keep their columns' ranges; no season has more completed rounds
\* than rounds, whatever round number the chain or a client reports.
TypeOK ==
    /\ pool \in Pool
    /\ Len(seasons) <= MaxSeasons
    /\ \A s \in DOMAIN seasons : seasons[s] \in Season
    /\ rounds \in [RoundIds -> Round]
    /\ members \in SUBSET Wallets
    /\ keys \in [Keys -> RoundIds \cup {NoRound}]
    /\ sent \in SUBSET Keys
    /\ calls \in 0 .. MaxCalls

IsPicked(id) == rounds[id].status = "winner_picked"
Stage(status) ==
    CASE status = "absent" -> 0 [] status = "open" -> 1
      [] status = "closed" -> 2 [] status = "winner_picked" -> 3

\* A round only goes forward, and a winner that was announced stays, whatever
\* stale row an unlocked reader saves (pickWinnerForActiveRound).
RoundsAreFinal ==
    [][\A id \in RoundIds :
          /\ Stage(rounds[id].status) <= Stage(rounds'[id].status)
          /\ IsPicked(id) => rounds'[id] = rounds[id]]_vars

\* One winner per idempotency key and one key per winner: retries of a request,
\* even in flight together, never pick twice (pickWinnerForActiveRound).
OneWinnerPerKey ==
    /\ \A k \in Keys : keys[k] # NoRound => IsPicked(keys[k])
    /\ \A id \in RoundIds : IsPicked(id) => Cardinality({k \in Keys : keys[k] = id}) = 1

\* Nobody wins two rounds of a season row: prior winners are read under the
\* lock of the pool (pickWinnerForActiveRound).
WinnersOfRowDiffer ==
    \A id, other \in RoundIds :
        (id[1] = other[1] /\ id # other /\ IsPicked(id) /\ IsPicked(other))
            => rounds[id].winner # rounds[other].winner

\* "No one can win twice in the same season" (README).  The code does not keep
\* this: two unlocked readers of a new pool insert two rows for season 1.
NoRepeatWinner ==
    \A id, other \in RoundIds :
        (/\ id # other /\ IsPicked(id) /\ IsPicked(other)
         /\ seasons[id[1]].number = seasons[other[1]].number)
            => rounds[id].winner # rounds[other].winner

\* "All members have already won in this season. Configure next season to
\* continue" (pickWinnerForActiveRound): createNextSeason accepts the creator
\* once that is so.  The code does not keep this: ensureSeasonState derives the
\* completed rounds from the round the pool is still in.
NextSeasonOpens ==
    \A s \in Latest(seasons) :
        (members # {} /\ Eligible(s) = {}) => Ensured(seasons[s], pool).status = "completed"
=============================================================================
