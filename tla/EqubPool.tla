------------------------------ MODULE EqubPool ------------------------------
(***************************************************************************)
(* contracts/src/EqubPool.sol with the contracts it calls: PayoutStream,   *)
(* CollateralVault, CreditRegistry, IdentityRegistry and TierRegistry.     *)
(*                                                                         *)
(* Transactions are atomic and a reverted one changes nothing, so one      *)
(* action is one successful transaction and every require is a guard.      *)
(* Interleavings are those of the transactions of different accounts.      *)
(* The order of the members array matters only to the random draw, so      *)
(* members is a set and the draw is a choice among the eligible members.   *)
(***************************************************************************)
EXTENDS Integers, FiniteSets, FiniteSetsExt

CONSTANTS
    Users,          \* accounts: creators, members and depositors
    NoUser,         \* address(0)
    Tokens,         \* contribution currencies (the native one included)
    Tiers,          \* tier numbers
    TierConfigs,    \* configurations configureTier may be called with
    Contributions,  \* contribution amounts createPool may be called with
    Sizes,          \* maxMembers values createPool may be called with
    Totals,         \* payout totals a creator may schedule
    Percents,       \* upfront percentages a creator may schedule
    RoundCounts,    \* payout round counts a creator may schedule
    Amounts,        \* collateral amounts
    MaxPools,       \* bound: pools created
    MaxRound,       \* bound: rounds closed per pool
    MaxDeposits,    \* bound: native currency in the vault
    MinScore        \* bound: no explicit default below this credit score

VARIABLES
    poolCount,      \* number of pools; their ids are 1 .. poolCount
    config,         \* the fields of a pool that createPool fixes
    members,        \* members[p]: isMember
    frozen,         \* frozen[p]: isFrozenMember
    currentRound,
    lastClosedRound,
    currentSeason,
    winnerForRound,
    scheduled,      \* scheduled[p]: the rounds with winnerScheduledForRound
    hasWon,         \* hasWon[p]: the pairs <<season, member>> of hasWonInSeason
    contributed,    \* contributed[p]: the pairs <<round, member>>
    custody,        \* what the contract holds of each token
    score,          \* CreditRegistry.scores
    bound,          \* IdentityRegistry: the accounts with an identity
    tierConfig,     \* TierRegistry: the configuration of each tier
    equbPool,       \* PayoutStream: the registered caller
    streams,        \* PayoutStream: streams
    collateral,     \* CollateralVault: collateralBalances
    locked,         \* CollateralVault: lockedBalances
    vaultBalance    \* CollateralVault: native balance

rotationVars == <<members, frozen, currentRound, lastClosedRound, currentSeason,
                  winnerForRound, hasWon>>
streamVars == <<equbPool, streams>>
vaultVars == <<collateral, locked, vaultBalance>>
registryVars == <<bound, tierConfig>>
vars == <<poolCount, config, rotationVars, scheduled, contributed, custody, score,
          registryVars, streamVars, vaultVars>>

PoolIds == 1 .. MaxPools
Rounds == 1 .. MaxRound
ThisContract == "EqubPool"

Stream == INSTANCE PayoutStream WITH
    Beneficiaries <- Users, Callers <- {ThisContract}, NoCaller <- "none"
Vault == INSTANCE CollateralVault

TierConfig == [enabled : BOOLEAN, maxPoolSize : Nat, collateralRateBps : Nat]
PoolConfig == [creator : Users \cup {NoUser}, tier : Tiers, token : Tokens,
               contributionAmount : Nat, maxMembers : Nat]

ASSUME EqubAssumption ==
    /\ NoUser \notin Users
    /\ Tiers # {} /\ Tokens # {}
    /\ TierConfigs \subseteq TierConfig
    /\ Contributions \subseteq Nat
    /\ Sizes \subseteq Nat
    /\ Totals \subseteq Nat /\ Percents \subseteq Nat /\ RoundCounts \subseteq Nat
    /\ Amounts \subseteq Nat
    /\ MaxPools \in Nat /\ MaxRound \in Nat /\ MaxDeposits \in Nat
    /\ MinScore \in Int

\* There are finitely many addresses.
ASSUME UsersAssumption == IsFiniteSet(Users)

\* The zero values of a mapping entry that was never written.
NoConfig == [creator |-> NoUser, tier |-> CHOOSE t \in Tiers : TRUE,
             token |-> CHOOSE t \in Tokens : TRUE,
             contributionAmount |-> 0, maxMembers |-> 0]
NoTier == [enabled |-> FALSE, maxPoolSize |-> 0, collateralRateBps |-> 0]

Init ==
    /\ poolCount = 0
    /\ config = [p \in PoolIds |-> NoConfig]
    /\ members = [p \in PoolIds |-> {}]
    /\ frozen = [p \in PoolIds |-> {}]
    /\ currentRound = [p \in PoolIds |-> 0]
    /\ lastClosedRound = [p \in PoolIds |-> 0]
    /\ currentSeason = [p \in PoolIds |-> 0]
    /\ winnerForRound = [p \in PoolIds |-> [r \in Rounds |-> NoUser]]
    /\ scheduled = [p \in PoolIds |-> {}]
    /\ hasWon = [p \in PoolIds |-> {}]
    /\ contributed = [p \in PoolIds |-> {}]
    /\ custody = [t \in Tokens |-> 0]
    /\ score = [u \in Users |-> 0]
    /\ bound = {}
    /\ tierConfig = [t \in Tiers |-> NoTier]
    /\ Stream!StreamInit
    /\ Vault!Init

-----------------------------------------------------------------------------
(* The registries *)

\* An identity is bound to one account for good; distinct identities are
\* abstracted to the set of the accounts that have one.
BindIdentity(u) ==
    /\ u \notin bound
    /\ bound' = bound \cup {u}
    /\ UNCHANGED <<poolCount, config, rotationVars, scheduled, contributed, custody,
                   score, tierConfig, streamVars, vaultVars>>

ConfigureTier(tier, tierSettings) ==
    /\ tierConfig' = [tierConfig EXCEPT ![tier] = tierSettings]
    /\ UNCHANGED <<poolCount, config, rotationVars, scheduled, contributed, custody,
                   score, bound, streamVars, vaultVars>>

-----------------------------------------------------------------------------
(* The pool *)

\* The treasury address takes part in no later guard or assignment.
CreatePool(caller, tier, contribution, size, token) ==
    LET p == poolCount + 1
    IN  /\ contribution > 0
        /\ size > 1
        /\ tierConfig[tier].enabled
        /\ contribution <= tierConfig[tier].maxPoolSize
        /\ p <= MaxPools
        /\ poolCount' = p
        /\ config' = [config EXCEPT ![p] =
               [creator |-> caller, tier |-> tier, token |-> token,
                contributionAmount |-> contribution, maxMembers |-> size]]
        /\ currentRound' = [currentRound EXCEPT ![p] = 1]
        /\ lastClosedRound' = [lastClosedRound EXCEPT ![p] = 0]
        /\ currentSeason' = [currentSeason EXCEPT ![p] = 1]
        /\ UNCHANGED <<members, frozen, winnerForRound, hasWon, scheduled, contributed,
                       custody, score, registryVars, streamVars, vaultVars>>

\* Open at any time, also in the middle of a round or of a season.
JoinPool(u, p) ==
    /\ Cardinality(members[p]) < config[p].maxMembers
    /\ u \notin members[p]
    /\ u \in bound
    /\ members' = [members EXCEPT ![p] = @ \cup {u}]
    /\ UNCHANGED <<poolCount, config, frozen, currentRound, lastClosedRound,
                   currentSeason, winnerForRound, hasWon, scheduled, contributed,
                   custody, score, registryVars, streamVars, vaultVars>>

\* Mutant: a member may pay the same round twice.
ContributeAgain(u, p) ==
    /\ u \in members[p]
    /\ currentRound[p] <= MaxRound
    /\ custody' = [custody EXCEPT ![config[p].token] = @ + config[p].contributionAmount]
    /\ contributed' = [contributed EXCEPT ![p] = @ \cup {<<currentRound[p], u>>}]
    /\ UNCHANGED <<poolCount, config, rotationVars, scheduled, score,
                   registryVars, streamVars, vaultVars>>

\* A frozen member may still pay.  A payment that lacks value or allowance
\* reverts; the payer's own funds are not modelled.
Contribute(u, p) ==
    LET payment == <<currentRound[p], u>>
    IN  /\ u \in members[p]
        /\ payment \notin contributed[p]
        /\ currentRound[p] <= MaxRound
        /\ custody' = [custody EXCEPT ![config[p].token] = @ + config[p].contributionAmount]
        /\ contributed' = [contributed EXCEPT ![p] = @ \cup {payment}]
        /\ UNCHANGED <<poolCount, config, rotationVars, scheduled, score,
                       registryVars, streamVars, vaultVars>>

OnlyPoolCreator(caller, p) ==
    /\ config[p].creator # NoUser
    /\ config[p].creator = caller

\* What defaulting does to the streams and to the locked collateral: the calls
\* freezeRemaining and compensatePool for every defaulter.  PayoutStream obeys
\* only its registered caller, so they revert before setEqubPool.
Penalise(p, defaulters) ==
    /\ defaulters # {} => equbPool = ThisContract
    /\ streams' = [streams EXCEPT ![p] = [u \in Users |->
           IF u \in defaulters THEN Stream!FrozenStream(@[u]) ELSE @[u]]]
    /\ locked' = [u \in Users |->
           IF u \in defaulters
           THEN Vault!Compensated(locked[u], config[p].contributionAmount)
           ELSE locked[u]]
    /\ UNCHANGED <<equbPool, collateral, vaultBalance>>

\* Mutant: the credit score is not updated.
TriggerDefaultUnscored(caller, p, member) ==
    /\ OnlyPoolCreator(caller, p)
    /\ member \in members[p]
    /\ score[member] >= MinScore
    /\ frozen' = [frozen EXCEPT ![p] = @ \cup {member}]
    /\ Penalise(p, {member})
    /\ UNCHANGED <<poolCount, config, members, currentRound, lastClosedRound,
                   currentSeason, winnerForRound, hasWon, scheduled, contributed,
                   custody, score, registryVars>>

\* The creator may call it at any time, for payers too, and again.
TriggerDefault(caller, p, member) ==
    /\ OnlyPoolCreator(caller, p)
    /\ member \in members[p]
    /\ score[member] >= MinScore
    /\ frozen' = [frozen EXCEPT ![p] = @ \cup {member}]
    /\ Penalise(p, {member})
    /\ score' = [score EXCEPT ![member] = @ - 10]
    /\ UNCHANGED <<poolCount, config, members, currentRound, lastClosedRound,
                   currentSeason, winnerForRound, hasWon, scheduled, contributed,
                   custody, registryVars>>

\* Mutant: closing a round excuses whoever did not pay.
NoDefaulters(p) == {m \in members[p] : FALSE}

Defaulters(p) == {m \in members[p] : <<currentRound[p], m>> \notin contributed[p]}

\* Mutants: any member may be drawn; a past winner of the season may be drawn.
EligibleUnpaid(p, season, blocked) ==
    {m \in members[p] : <<season, m>> \notin hasWon[p]}
EligibleAgain(p, season, blocked) ==
    {m \in members[p] : m \notin blocked /\ <<currentRound[p], m>> \in contributed[p]}

\* _isEligibleWinner, for the members that blocked leaves in good standing.
Eligible(p, season, blocked) ==
    {m \in members[p] : /\ m \notin blocked
                        /\ <<currentRound[p], m>> \in contributed[p]
                        /\ <<season, m>> \notin hasWon[p]}

\* Mutants: the season never ends; it ends with one member still to be served.
SameSeason(p, blocked) == currentSeason[p]
SeasonOfDrawEarly(p, blocked) ==
    IF Cardinality(Eligible(p, currentSeason[p], blocked)) <= 1
    THEN currentSeason[p] + 1 ELSE currentSeason[p]

\* The season the winner is drawn in: the next one when nobody is left in this.
SeasonOfDraw(p, blocked) ==
    IF Eligible(p, currentSeason[p], blocked) = {}
    THEN currentSeason[p] + 1 ELSE currentSeason[p]

\* Reverts, penalties included, when even the next season has nobody eligible.
CloseRound(caller, p) ==
    LET round == currentRound[p]
        defaulters == Defaulters(p)
        blocked == frozen[p] \cup defaulters
        season == SeasonOfDraw(p, blocked)
    IN  /\ OnlyPoolCreator(caller, p)
        /\ round <= MaxRound
        /\ Penalise(p, defaulters)
        /\ frozen' = [frozen EXCEPT ![p] = blocked]
        /\ score' = [u \in Users |->
               score[u] + (IF u \in defaulters THEN -10
                           ELSE IF u \in members[p] THEN 1 ELSE 0)]
        /\ \E winner \in Eligible(p, season, blocked) :
               /\ hasWon' = [hasWon EXCEPT ![p] = @ \cup {<<season, winner>>}]
               /\ winnerForRound' = [winnerForRound EXCEPT ![p][round] = winner]
        /\ currentSeason' = [currentSeason EXCEPT ![p] = season]
        /\ lastClosedRound' = [lastClosedRound EXCEPT ![p] = round]
        /\ currentRound' = [currentRound EXCEPT ![p] = round + 1]
        /\ UNCHANGED <<poolCount, config, members, scheduled, contributed, custody,
                       registryVars>>

\* Mutants: the winner may have been frozen since; anyone who paid may be served.
SchedulePayoutStreamFrozen(caller, p, beneficiary, total, percent, rounds) ==
    LET round == lastClosedRound[p]
    IN  /\ OnlyPoolCreator(caller, p)
        /\ round > 0
        /\ round \notin scheduled[p]
        /\ beneficiary = winnerForRound[p][round]
        /\ Stream!CreateStream(ThisContract, p, beneficiary, total, percent, rounds)
        /\ scheduled' = [scheduled EXCEPT ![p] = @ \cup {round}]
        /\ UNCHANGED <<poolCount, config, rotationVars, contributed, custody, score,
                       registryVars, vaultVars>>
SchedulePayoutStreamAnyone(caller, p, beneficiary, total, percent, rounds) ==
    LET round == lastClosedRound[p]
    IN  /\ OnlyPoolCreator(caller, p)
        /\ round > 0
        /\ round \notin scheduled[p]
        /\ beneficiary \in members[p] \ frozen[p]
        /\ <<round, beneficiary>> \in contributed[p]
        /\ Stream!CreateStream(ThisContract, p, beneficiary, total, percent, rounds)
        /\ scheduled' = [scheduled EXCEPT ![p] = @ \cup {round}]
        /\ UNCHANGED <<poolCount, config, rotationVars, contributed, custody, score,
                       registryVars, vaultVars>>

\* The total is the creator's choice; only the last closed round can be served.
SchedulePayoutStream(caller, p, beneficiary, total, percent, rounds) ==
    LET round == lastClosedRound[p]
    IN  /\ OnlyPoolCreator(caller, p)
        /\ round > 0
        /\ round \notin scheduled[p]
        /\ winnerForRound[p][round] # NoUser
        /\ beneficiary = winnerForRound[p][round]
        /\ beneficiary \in members[p]
        /\ beneficiary \notin frozen[p]
        /\ <<round, beneficiary>> \in contributed[p]
        /\ Stream!CreateStream(ThisContract, p, beneficiary, total, percent, rounds)
        /\ scheduled' = [scheduled EXCEPT ![p] = @ \cup {round}]
        /\ UNCHANGED <<poolCount, config, rotationVars, contributed, custody, score,
                       registryVars, vaultVars>>

\* Anyone may call it, and again: each call locks the whole requirement anew.
LockPartialCollateral(p, member) ==
    LET stream == streams[p][member]
        required == ((stream.total - stream.released)
                        * tierConfig[config[p].tier].collateralRateBps) \div 10000
    IN  /\ member \in members[p]
        /\ Vault!LockCollateral(member, required)
        /\ UNCHANGED <<poolCount, config, rotationVars, scheduled, contributed, custody,
                       score, registryVars, streamVars>>

\* What an account does with the other contracts directly.
SetEqubPool ==
    /\ Stream!SetEqubPool(ThisContract)
    /\ UNCHANGED <<poolCount, config, rotationVars, scheduled, contributed, custody,
                   score, registryVars, vaultVars>>

VaultCall ==
    /\ Vault!Next
    /\ UNCHANGED <<poolCount, config, rotationVars, scheduled, contributed, custody,
                   score, registryVars, streamVars>>

Next ==
    \/ \E u \in Users : BindIdentity(u)
    \/ \E tier \in Tiers, tierSettings \in TierConfigs : ConfigureTier(tier, tierSettings)
    \/ \E caller \in Users, tier \in Tiers, contribution \in Contributions,
          size \in Sizes, token \in Tokens :
             CreatePool(caller, tier, contribution, size, token)
    \/ \E p \in PoolIds, u \in Users :
          \/ JoinPool(u, p)
          \/ Contribute(u, p)
          \/ CloseRound(u, p)
          \/ LockPartialCollateral(p, u)
          \/ \E member \in Users : TriggerDefault(u, p, member)
          \/ \E beneficiary \in Users, total \in Totals, percent \in Percents,
                rounds \in RoundCounts :
                   SchedulePayoutStream(u, p, beneficiary, total, percent, rounds)
    \/ SetEqubPool
    \/ VaultCall

Spec == Init /\ [][Next]_vars

-----------------------------------------------------------------------------
(* Properties *)

\* Every variable has the shape of the storage it models; rounds and seasons
\* of a created pool start at 1 and only recorded members are frozen.
TypeOK ==
    /\ poolCount \in 0 .. MaxPools
    /\ config \in [PoolIds -> PoolConfig]
    /\ members \in [PoolIds -> SUBSET Users]
    /\ frozen \in [PoolIds -> SUBSET Users]
    /\ currentRound \in [PoolIds -> 0 .. MaxRound + 1]
    /\ lastClosedRound \in [PoolIds -> 0 .. MaxRound]
    /\ currentSeason \in [PoolIds -> Nat]
    /\ winnerForRound \in [PoolIds -> [Rounds -> Users \cup {NoUser}]]
    /\ scheduled \in [PoolIds -> SUBSET Rounds]
    /\ hasWon \in [PoolIds -> SUBSET (Nat \X Users)]
    /\ contributed \in [PoolIds -> SUBSET (Nat \X Users)]
    /\ custody \in [Tokens -> Nat]
    /\ score \in [Users -> Int]
    /\ bound \in SUBSET Users
    /\ tierConfig \in [Tiers -> TierConfig]
    /\ Stream!StreamTypeOK
    /\ Vault!TypeOK

\* The pool and PayoutStream agree on who is frozen: no sequence of defaults,
\* closes and schedules thaws the stream of a frozen member, and none is left
\* running (createStream writes frozen = false over whatever was there).
FrozenTogether ==
    \A p \in PoolIds, u \in Users : u \in frozen[p] <=> streams[p][u].frozen

\* The winner recorded for a closed round is a member that paid that round and
\* counts as a winner of a season that has begun (closeRound).
WinnersPaid ==
    \A p \in PoolIds : \A r \in 1 .. lastClosedRound[p] :
        LET winner == winnerForRound[p][r]
        IN  /\ winner \in members[p]
            /\ <<r, winner>> \in contributed[p]
            /\ \E s \in 1 .. currentSeason[p] : <<s, winner>> \in hasWon[p]

RoundsWonBy(p, u) == {r \in Rounds : winnerForRound[p][r] = u}
SeasonsWonBy(p, u) == {s \in 1 .. currentSeason[p] : <<s, u>> \in hasWon[p]}

\* "No one can win twice in the same season" (README): a member has won exactly
\* as many rounds as there are seasons it is marked a winner of.
OneWinPerSeason ==
    \A p \in PoolIds, u \in Users :
        Cardinality(RoundsWonBy(p, u)) = Cardinality(SeasonsWonBy(p, u))

\* "Rounds repeat until every member has received once; then a new season can
\* start" (README): when the season changes, every member that is not frozen
\* has won in the season that ends (_pickSeasonWinner).
SeasonEndsWhenServed ==
    [][\A p \in PoolIds : (p <= poolCount /\ currentSeason'[p] # currentSeason[p]) =>
          /\ currentSeason'[p] = currentSeason[p] + 1
          /\ \A m \in members[p] \ frozen'[p] : <<currentSeason[p], m>> \in hasWon[p]]_vars

\* A pool is stuck ("no eligible winner" reverts closeRound for good) only when
\* nobody in good standing paid: one such member is enough to find a winner,
\* however many seasons it has won.
RoundClosable ==
    \A p \in PoolIds :
        LET blocked == frozen[p] \cup Defaulters(p)
        IN  (\E m \in members[p] \ frozen[p] : <<currentRound[p], m>> \in contributed[p])
               => Eligible(p, SeasonOfDraw(p, blocked), blocked) # {}

\* A member's stream changes its amounts only for a closed round of the pool
\* that the member won and that was not scheduled yet: no round pays twice.
StreamPerWonRound ==
    [][\A p \in PoolIds, u \in Users :
          [streams'[p][u] EXCEPT !.frozen = FALSE] # [streams[p][u] EXCEPT !.frozen = FALSE]
              => \E r \in Rounds \ scheduled[p] :
                    /\ scheduled'[p] = scheduled[p] \cup {r}
                    /\ r <= lastClosedRound[p] /\ winnerForRound[p][r] = u
                    /\ u \notin frozen[p]]_vars

Paid(p) == config[p].contributionAmount * Cardinality(contributed[p])

\* The contract holds, of every token, the contributions of all the pools in
\* that token: two pools that share a token do not lose each other's funds.
CustodyIsContributions ==
    \A t \in Tokens :
        custody[t] = MapThenSumSet(Paid, {p \in PoolIds : config[p].token = t})

RoundsPaidBy(p, u) ==
    Cardinality({r \in 1 .. lastClosedRound[p] : <<r, u>> \in contributed[p]})
RoundsPaid(u) == MapThenSumSet(LAMBDA p : RoundsPaidBy(p, u), PoolIds)
PoolsDefaulted(u) == {p \in PoolIds : u \in frozen[p]}

\* A credit score is explained by the pools: a member that never defaulted has
\* one point per closed round it paid, and each pool it defaulted in costs it
\* ten points at least (triggerDefault and closeRound update it separately).
CreditExplained ==
    \A u \in Users :
        /\ PoolsDefaulted(u) = {} => score[u] = RoundsPaid(u)
        /\ score[u] <= RoundsPaid(u) - 10 * Cardinality(PoolsDefaulted(u))

\* Pools that lock and take collateral leave the vault able to repay everyone.
VaultSolvent == Vault!Solvent

\* What the vault took from the members of any pool is never paid out again
\* (compensatePool and the slashes transfer nothing to a treasury).
TakenStaysInVault ==
    [][vaultBalance' - Vault!Owed' >= vaultBalance - Vault!Owed]_vars

\* The promise to the members that the pools implement.
Promise == INSTANCE Rotation WITH
    standing <- [p \in PoolIds |-> members[p] \ frozen[p]],
    excluded <- frozen,
    served <- [p \in PoolIds |->
                  {m \in members[p] : <<currentSeason[p], m>> \in hasWon[p]}]
ImplementsRotation == Promise!Spec
=============================================================================
