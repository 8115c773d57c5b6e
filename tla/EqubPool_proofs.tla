--------------------------- MODULE EqubPool_proofs --------------------------
(***************************************************************************)
(* Theorems about EqubPool and the contracts it calls, for any accounts,   *)
(* tokens, tiers, amounts, and any number of pools and rounds.             *)
(***************************************************************************)
EXTENDS EqubPool, FiniteSetTheorems, TLAPS

-----------------------------------------------------------------------------
(* Type correctness *)

\* No stream releases more than its total, so what is left of it, and the
\* collateral lockPartialCollateral asks for, is not negative: TypeOK is not
\* inductive without it.
ReleasedWithinTotal ==
    \A p \in PoolIds, u \in Users : streams[p][u].released <= streams[p][u].total

TypeInv == TypeOK /\ ReleasedWithinTotal

\* createStream stores a well-formed stream that has not released too much.
LEMMA OpenedStreamType ==
    ASSUME NEW total \in Nat, NEW percent \in Nat, percent <= 30,
           NEW rounds \in Nat, rounds > 0
    PROVE  LET s == Stream!OpenedStream(total, percent, rounds)
           IN  s \in Stream!Stream /\ s.released <= s.total
<1> DEFINE upfront == (total * percent) \div 100
           amount == (total - upfront) \div rounds
<1>1. total * percent \in Nat /\ total * percent <= total * 100
  BY Z3
<1>2. upfront \in Nat /\ upfront <= total
  BY <1>1, Z3
<1>3. amount \in Nat
  BY <1>2, Z3
<1>4. Stream!OpenedStream(total, percent, rounds) =
        [total |-> total, upfrontPercent |-> percent, roundAmount |-> amount,
         totalRounds |-> rounds, releasedRounds |-> 0, released |-> upfront,
         frozen |-> FALSE]
  BY DEF Stream!OpenedStream, Stream!Upfront
<1>5. percent \in 0 .. 30
  OBVIOUS
<1>6. QED
  BY <1>2, <1>3, <1>4, <1>5 DEF Stream!Stream, Stream!MaxUpfrontPercent

\* Taking from a balance at most what it holds leaves a natural number.
LEMMA CompensatedType ==
    ASSUME NEW balance \in Nat, NEW amount \in Nat
    PROVE  Vault!Compensated(balance, amount) \in Nat
BY DEF Vault!Compensated, Vault!Lesser

LEMMA InitTypeInv == Init => TypeInv
<1> SUFFICES ASSUME Init PROVE TypeInv
  OBVIOUS
<1> USE EqubAssumption DEF Init, PoolIds, Rounds
<1>1. Stream!StreamTypeOK
  BY DEF Stream!StreamInit, Stream!StreamTypeOK, Stream!NoStream, Stream!Stream,
         Stream!MaxUpfrontPercent
<1>2. Vault!TypeOK
  BY DEF Vault!Init, Vault!TypeOK
<1>3. config \in [PoolIds -> PoolConfig]
  BY DEF NoConfig, PoolConfig
<1>4. tierConfig \in [Tiers -> TierConfig]
  BY DEF NoTier, TierConfig
<1>5. /\ poolCount \in 0 .. MaxPools
      /\ members \in [PoolIds -> SUBSET Users]
      /\ frozen \in [PoolIds -> SUBSET Users]
      /\ currentRound \in [PoolIds -> 0 .. MaxRound + 1]
      /\ lastClosedRound \in [PoolIds -> 0 .. MaxRound]
      /\ currentSeason \in [PoolIds -> Nat]
      /\ winnerForRound \in [PoolIds -> [Rounds -> Users \cup {NoUser}]]
      /\ scheduled \in [PoolIds -> SUBSET Rounds]
      /\ hasWon \in [PoolIds -> SUBSET (Nat \X Users)]
      /\ contributed \in [PoolIds -> SUBSET (Nat \X Users)]
      /\ custody \in [Tokens -> Nat]
      /\ score \in [Users -> Int]
      /\ bound \in SUBSET Users
  OBVIOUS
<1>6. ReleasedWithinTotal
  BY DEF ReleasedWithinTotal, Stream!StreamInit, Stream!NoStream
<1>7. QED BY <1>1, <1>2, <1>3, <1>4, <1>5, <1>6 DEF TypeInv, TypeOK

\* Freezing and compensating for any set of members of a pool.
LEMMA PenaliseType ==
    ASSUME TypeInv, NEW p \in PoolIds, NEW defaulters, Penalise(p, defaulters)
    PROVE  Stream!StreamTypeOK' /\ Vault!TypeOK' /\ ReleasedWithinTotal'
<1> USE DEF TypeInv, TypeOK
<1>1. config[p].contributionAmount \in Nat
  BY DEF PoolConfig
<1>2. \A u \in Users : Vault!Compensated(locked[u], config[p].contributionAmount) \in Nat
  BY <1>1, CompensatedType DEF Vault!TypeOK
<1>3. Vault!TypeOK'
  BY <1>2 DEF Penalise, Vault!TypeOK
<1>4. \A s \in Stream!Stream : /\ Stream!FrozenStream(s) \in Stream!Stream
                               /\ Stream!FrozenStream(s).released = s.released
                               /\ Stream!FrozenStream(s).total = s.total
  BY DEF Stream!FrozenStream, Stream!Stream
<1>5. Stream!StreamTypeOK'
  BY <1>4 DEF Penalise, Stream!StreamTypeOK
<1>6. ReleasedWithinTotal'
  <2> SUFFICES ASSUME NEW q \in PoolIds, NEW u \in Users
               PROVE  streams'[q][u].released <= streams'[q][u].total
    BY DEF ReleasedWithinTotal
  <2>1. streams[q][u] \in Stream!Stream /\ streams[q][u].released <= streams[q][u].total
    BY DEF Stream!StreamTypeOK, ReleasedWithinTotal
  <2>2. \/ streams'[q][u] = streams[q][u]
        \/ streams'[q][u] = Stream!FrozenStream(streams[q][u])
    BY DEF Penalise, Stream!StreamTypeOK
  <2>3. QED BY <2>1, <2>2, <1>4
<1>7. QED BY <1>3, <1>5, <1>6

LEMMA VaultCallType == ASSUME TypeOK, Vault!Next PROVE Vault!TypeOK'
<1> USE EqubAssumption DEF TypeOK, Vault!TypeOK, Vault!Lesser
<1>1. ASSUME NEW user \in Users, NEW amount \in Amounts
      PROVE  /\ Vault!DepositCollateral(user, amount) => Vault!TypeOK'
             /\ Vault!SlashCollateral(user, amount) => Vault!TypeOK'
             /\ Vault!LockCollateral(user, amount) => Vault!TypeOK'
             /\ Vault!SlashLocked(user, amount) => Vault!TypeOK'
             /\ Vault!CompensatePool(user, amount) => Vault!TypeOK'
             /\ Vault!ReleaseCollateral(user, amount) => Vault!TypeOK'
  <2>1. amount \in Nat /\ collateral[user] \in Nat /\ locked[user] \in Nat
    OBVIOUS
  <2>2. Vault!DepositCollateral(user, amount) => Vault!TypeOK'
    BY <2>1 DEF Vault!DepositCollateral
  <2>3. Vault!SlashCollateral(user, amount) => Vault!TypeOK'
    BY <2>1 DEF Vault!SlashCollateral
  <2>4. Vault!LockCollateral(user, amount) => Vault!TypeOK'
    BY <2>1 DEF Vault!LockCollateral
  <2>5. Vault!SlashLocked(user, amount) => Vault!TypeOK'
    BY <2>1 DEF Vault!SlashLocked
  <2>6. Vault!CompensatePool(user, amount) => Vault!TypeOK'
    BY <2>1 DEF Vault!CompensatePool, Vault!Compensated
  <2>7. Vault!ReleaseCollateral(user, amount) => Vault!TypeOK'
    BY <2>1 DEF Vault!ReleaseCollateral
  <2>8. QED BY <2>2, <2>3, <2>4, <2>5, <2>6, <2>7
<1>2. QED BY <1>1 DEF Vault!Next

\* A payout schedule replaces one stream by a well-formed one.
LEMMA ScheduleType ==
    ASSUME TypeInv, NEW p \in PoolIds, NEW beneficiary \in Users, NEW total \in Nat,
           NEW percent \in Nat, NEW rounds \in Nat,
           Stream!CreateStream(ThisContract, p, beneficiary, total, percent, rounds)
    PROVE  Stream!StreamTypeOK' /\ ReleasedWithinTotal'
<1> DEFINE opened == Stream!OpenedStream(total, percent, rounds)
<1>1. opened \in Stream!Stream /\ opened.released <= opened.total
  BY OpenedStreamType DEF Stream!CreateStream, Stream!MaxUpfrontPercent
<1>2. /\ streams \in [PoolIds -> [Users -> Stream!Stream]]
      /\ streams' = [streams EXCEPT ![p][beneficiary] = opened]
      /\ equbPool' = equbPool
  BY DEF TypeInv, TypeOK, Stream!StreamTypeOK, Stream!CreateStream
<1> HIDE DEF opened
<1>3. Stream!StreamTypeOK'
  BY <1>1, <1>2 DEF TypeInv, TypeOK, Stream!StreamTypeOK
<1>4. ReleasedWithinTotal'
  BY <1>1, <1>2 DEF TypeInv, ReleasedWithinTotal
<1>5. QED BY <1>3, <1>4

\* The actions of the pool: one lemma step per action, the rest untouched.
LEMMA NextTypeInv == TypeInv /\ [Next]_vars => TypeInv'
<1> SUFFICES ASSUME TypeInv, [Next]_vars PROVE TypeInv'
  OBVIOUS
<1> USE EqubAssumption
<1>1. ASSUME NEW u \in Users, BindIdentity(u) PROVE TypeInv'
  BY <1>1 DEF BindIdentity, TypeInv, TypeOK, ReleasedWithinTotal, Stream!StreamTypeOK,
              Vault!TypeOK, rotationVars, streamVars, vaultVars
<1>2. ASSUME NEW tier \in Tiers, NEW tierSettings \in TierConfigs,
             ConfigureTier(tier, tierSettings)
      PROVE  TypeInv'
  BY <1>2 DEF ConfigureTier, TypeInv, TypeOK, ReleasedWithinTotal, Stream!StreamTypeOK,
              Vault!TypeOK, rotationVars, streamVars, vaultVars
<1>3. ASSUME NEW caller \in Users, NEW tier \in Tiers, NEW contribution \in Contributions,
             NEW size \in Sizes, NEW token \in Tokens,
             CreatePool(caller, tier, contribution, size, token)
      PROVE  TypeInv'
  <2> DEFINE p == poolCount + 1
             new == [creator |-> caller, tier |-> tier, token |-> token,
                     contributionAmount |-> contribution, maxMembers |-> size]
  <2>1. p \in PoolIds /\ p \in 0 .. MaxPools
    BY <1>3 DEF CreatePool, TypeInv, TypeOK, PoolIds
  <2>2. new \in PoolConfig
    BY DEF PoolConfig
  <2>3. /\ config' = [config EXCEPT ![p] = new]
        /\ poolCount' = p
        /\ currentRound' = [currentRound EXCEPT ![p] = 1]
        /\ lastClosedRound' = [lastClosedRound EXCEPT ![p] = 0]
        /\ currentSeason' = [currentSeason EXCEPT ![p] = 1]
        /\ UNCHANGED <<members, frozen, winnerForRound, hasWon, scheduled, contributed,
                       custody, score, bound, tierConfig, equbPool, streams, collateral,
                       locked, vaultBalance>>
    BY <1>3 DEF CreatePool, registryVars, streamVars, vaultVars
  <2> HIDE DEF p, new
  <2>4. QED
    BY <2>1, <2>2, <2>3 DEF TypeInv, TypeOK, ReleasedWithinTotal, Stream!StreamTypeOK, Vault!TypeOK
<1>4. ASSUME NEW p \in PoolIds, NEW u \in Users, JoinPool(u, p) PROVE TypeInv'
  BY <1>4 DEF JoinPool, TypeInv, TypeOK, ReleasedWithinTotal, Stream!StreamTypeOK,
              Vault!TypeOK, registryVars, streamVars, vaultVars
<1>5. ASSUME NEW p \in PoolIds, NEW u \in Users, Contribute(u, p) PROVE TypeInv'
  <2>1. config[p].token \in Tokens /\ config[p].contributionAmount \in Nat
    BY DEF TypeInv, TypeOK, PoolConfig
  <2>2. custody' \in [Tokens -> Nat]
    BY <1>5, <2>1 DEF Contribute, TypeInv, TypeOK
  <2>3. contributed' \in [PoolIds -> SUBSET (Nat \X Users)]
    BY <1>5 DEF Contribute, TypeInv, TypeOK
  <2>4. QED
    BY <1>5, <2>2, <2>3 DEF Contribute, TypeInv, TypeOK, ReleasedWithinTotal,
       Stream!StreamTypeOK, Vault!TypeOK, rotationVars, registryVars, streamVars, vaultVars
<1>6. ASSUME NEW p \in PoolIds, NEW caller \in Users, CloseRound(caller, p) PROVE TypeInv'
  <2> DEFINE round == currentRound[p]
             defaulters == Defaulters(p)
             blocked == frozen[p] \cup defaulters
             season == SeasonOfDraw(p, blocked)
  <2>1. /\ Stream!StreamTypeOK' /\ Vault!TypeOK' /\ ReleasedWithinTotal'
    BY <1>6, PenaliseType DEF CloseRound
  <2>2. blocked \in SUBSET Users
    BY DEF Defaulters, TypeInv, TypeOK
  <2>3. season \in Nat
    BY DEF SeasonOfDraw, TypeInv, TypeOK
  <2>4. PICK winner \in Eligible(p, season, blocked) :
           /\ hasWon' = [hasWon EXCEPT ![p] = @ \cup {<<season, winner>>}]
           /\ winnerForRound' = [winnerForRound EXCEPT ![p][round] = winner]
    BY <1>6 DEF CloseRound
  <2>5. winner \in Users
    BY DEF Eligible, TypeInv, TypeOK
  <2>6. /\ frozen' = [frozen EXCEPT ![p] = blocked]
        /\ currentSeason' = [currentSeason EXCEPT ![p] = season]
        /\ lastClosedRound' = [lastClosedRound EXCEPT ![p] = round]
        /\ currentRound' = [currentRound EXCEPT ![p] = round + 1]
        /\ round <= MaxRound
        /\ UNCHANGED <<poolCount, config, members, scheduled, contributed, custody,
                       bound, tierConfig>>
    BY <1>6 DEF CloseRound, registryVars
  <2>7. round \in 0 .. MaxRound
    BY <2>6 DEF TypeInv, TypeOK
  <2>8. score' \in [Users -> Int]
    BY <1>6 DEF CloseRound, TypeInv, TypeOK
  <2>9. /\ hasWon' \in [PoolIds -> SUBSET (Nat \X Users)]
        /\ winnerForRound' \in [PoolIds -> [Rounds -> Users \cup {NoUser}]]
    <3> HIDE DEF season, round, blocked
    <3>1. hasWon' \in [PoolIds -> SUBSET (Nat \X Users)]
      <4>1. <<season, winner>> \in Nat \X Users
        BY <2>3, <2>5
      <4>2. QED BY <2>4, <4>1 DEF TypeInv, TypeOK
    <3>2. winnerForRound' \in [PoolIds -> [Rounds -> Users \cup {NoUser}]]
      BY <2>4, <2>5 DEF TypeInv, TypeOK
    <3>3. QED BY <3>1, <3>2
  <2> HIDE DEF season, round, blocked, defaulters
  <2>10. /\ frozen' \in [PoolIds -> SUBSET Users]
         /\ currentSeason' \in [PoolIds -> Nat]
         /\ lastClosedRound' \in [PoolIds -> 0 .. MaxRound]
         /\ currentRound' \in [PoolIds -> 0 .. MaxRound + 1]
    BY <2>2, <2>3, <2>6, <2>7 DEF TypeInv, TypeOK
  <2>11. QED
    BY <2>1, <2>6, <2>8, <2>9, <2>10 DEF TypeInv, TypeOK
<1>7. ASSUME NEW p \in PoolIds, NEW u \in Users, LockPartialCollateral(p, u) PROVE TypeInv'
  <2> DEFINE owed == streams[p][u].total - streams[p][u].released
             rate == tierConfig[config[p].tier].collateralRateBps
             required == (owed * rate) \div 10000
  <2>1. owed \in Nat
    BY DEF TypeInv, TypeOK, ReleasedWithinTotal, Stream!StreamTypeOK, Stream!Stream
  <2>2. rate \in Nat
    BY DEF TypeInv, TypeOK, TierConfig, PoolConfig
  <2>3. owed * rate \in Nat
    <3> HIDE DEF owed, rate
    <3> QED BY <2>1, <2>2
  <2>4. required \in Nat
    <3> DEFINE product == owed * rate
    <3> SUFFICES product \div 10000 \in Nat
      OBVIOUS
    <3> product \in Nat
      BY <2>3
    <3> HIDE DEF product
    <3> QED OBVIOUS
  <2>5. Vault!LockCollateral(u, required)
    BY <1>7 DEF LockPartialCollateral
  <2>6. Vault!TypeOK'
    <3> HIDE DEF required
    <3> QED BY <2>4, <2>5 DEF Vault!LockCollateral, TypeInv, TypeOK, Vault!TypeOK
  <2>7. UNCHANGED <<poolCount, config, rotationVars, scheduled, contributed, custody,
                    score, registryVars, streamVars>>
    BY <1>7 DEF LockPartialCollateral
  <2>8. QED
    BY <2>6, <2>7 DEF TypeInv, TypeOK, ReleasedWithinTotal, Stream!StreamTypeOK,
       rotationVars, registryVars, streamVars
<1>8. ASSUME NEW p \in PoolIds, NEW caller \in Users, NEW member \in Users,
             TriggerDefault(caller, p, member)
      PROVE  TypeInv'
  <2>1. Stream!StreamTypeOK' /\ Vault!TypeOK' /\ ReleasedWithinTotal'
    BY <1>8, PenaliseType DEF TriggerDefault
  <2>2. QED
    BY <1>8, <2>1 DEF TriggerDefault, TypeInv, TypeOK, registryVars
<1>9. ASSUME NEW p \in PoolIds, NEW caller \in Users, NEW beneficiary \in Users,
             NEW total \in Totals, NEW percent \in Percents, NEW rounds \in RoundCounts,
             SchedulePayoutStream(caller, p, beneficiary, total, percent, rounds)
      PROVE  TypeInv'
  <2>1. Stream!StreamTypeOK' /\ ReleasedWithinTotal'
    BY <1>9, ScheduleType DEF SchedulePayoutStream
  <2>2. scheduled' \in [PoolIds -> SUBSET Rounds]
    <3>1. scheduled \in [PoolIds -> SUBSET Rounds]
      BY DEF TypeInv, TypeOK
    <3> DEFINE round == lastClosedRound[p]
    <3>2. round > 0 /\ scheduled' = [scheduled EXCEPT ![p] = @ \cup {round}]
      BY <1>9 DEF SchedulePayoutStream
    <3>3. round \in 0 .. MaxRound
      BY DEF TypeInv, TypeOK
    <3> HIDE DEF round
    <3>4. round \in Rounds
      BY <3>2, <3>3 DEF Rounds
    <3>5. scheduled[p] \cup {round} \in SUBSET Rounds
      BY <3>1, <3>4
    <3>6. QED BY <3>1, <3>2, <3>5
  <2>3. QED
    BY <1>9, <2>1, <2>2 DEF SchedulePayoutStream, TypeInv, TypeOK, Vault!TypeOK,
       rotationVars, registryVars, vaultVars
<1>10. ASSUME SetEqubPool PROVE TypeInv'
  BY <1>10 DEF SetEqubPool, Stream!SetEqubPool, TypeInv, TypeOK, ReleasedWithinTotal,
     Stream!StreamTypeOK, Vault!TypeOK, rotationVars, registryVars, vaultVars
<1>11. ASSUME VaultCall PROVE TypeInv'
  BY <1>11, VaultCallType DEF VaultCall, TypeInv, TypeOK, ReleasedWithinTotal,
     Stream!StreamTypeOK, rotationVars, registryVars, streamVars
<1>12. ASSUME UNCHANGED vars PROVE TypeInv'
  BY <1>12 DEF vars, TypeInv, TypeOK, ReleasedWithinTotal, Stream!StreamTypeOK, Vault!TypeOK,
     rotationVars, registryVars, streamVars, vaultVars
<1>13. QED
  BY <1>1, <1>2, <1>3, <1>4, <1>5, <1>6, <1>7, <1>8, <1>9, <1>10, <1>11, <1>12 DEF Next

\* Every reachable state has the shape of the contracts' storage, and no
\* unsigned subtraction of the vault or of a stream goes below zero.
THEOREM TypeCorrect == Spec => []TypeOK
<1>1. TypeInv => TypeOK
  BY DEF TypeInv
<1>2. QED
  BY InitTypeInv, NextTypeInv, <1>1, PTL DEF Spec

-----------------------------------------------------------------------------
(* Freezing is consistent across the contracts *)

\* Penalising defaulters freezes exactly their streams of the pool.
LEMMA PenaliseFreezes ==
    ASSUME TypeInv, NEW p \in PoolIds, NEW defaulters \in SUBSET Users,
           Penalise(p, defaulters), NEW q \in PoolIds, NEW u \in Users
    PROVE  /\ streams'[q][u].frozen <=> (streams[q][u].frozen \/ (q = p /\ u \in defaulters))
           /\ [streams'[q][u] EXCEPT !.frozen = FALSE] = [streams[q][u] EXCEPT !.frozen = FALSE]
<1>1. streams[q][u] \in Stream!Stream /\ streams \in [PoolIds -> [Users -> Stream!Stream]]
  BY DEF TypeInv, TypeOK, Stream!StreamTypeOK
<1>2. streams'[q][u] = IF q = p /\ u \in defaulters THEN Stream!FrozenStream(streams[q][u])
                       ELSE streams[q][u]
  BY <1>1 DEF Penalise
<1>3. /\ Stream!FrozenStream(streams[q][u]).frozen
      /\ [Stream!FrozenStream(streams[q][u]) EXCEPT !.frozen = FALSE]
            = [streams[q][u] EXCEPT !.frozen = FALSE]
  BY <1>1 DEF Stream!FrozenStream, Stream!Stream
<1>4. QED BY <1>2, <1>3

\* A schedule replaces the beneficiary's stream by one that runs.
LEMMA ScheduleOpens ==
    ASSUME TypeInv, NEW p \in PoolIds, NEW beneficiary \in Users, NEW total, NEW percent,
           NEW rounds, NEW q \in PoolIds, NEW u \in Users,
           Stream!CreateStream(ThisContract, p, beneficiary, total, percent, rounds)
    PROVE  IF q = p /\ u = beneficiary THEN ~streams'[q][u].frozen
           ELSE streams'[q][u] = streams[q][u]
BY DEF TypeInv, TypeOK, Stream!StreamTypeOK, Stream!CreateStream, Stream!OpenedStream

LEMMA NextFrozenTogether == TypeInv /\ FrozenTogether /\ [Next]_vars => FrozenTogether'
<1> SUFFICES ASSUME TypeInv, FrozenTogether, [Next]_vars,
                    NEW q \in PoolIds, NEW u \in Users
             PROVE  (u \in frozen[q] <=> streams[q][u].frozen)'
  BY DEF FrozenTogether
<1>1. u \in frozen[q] <=> streams[q][u].frozen
  BY DEF FrozenTogether
<1>2. ASSUME UNCHANGED <<frozen, streams>> PROVE (u \in frozen[q] <=> streams[q][u].frozen)'
  BY <1>1, <1>2
<1>3. ASSUME NEW p \in PoolIds, NEW caller \in Users, CloseRound(caller, p)
      PROVE  (u \in frozen[q] <=> streams[q][u].frozen)'
  <2>1. Defaulters(p) \in SUBSET Users
    BY DEF Defaulters, TypeInv, TypeOK
  <2>2. frozen' = [frozen EXCEPT ![p] = frozen[p] \cup Defaulters(p)]
    BY <1>3 DEF CloseRound
  <2>3. u \in frozen'[q] <=> (u \in frozen[q] \/ (q = p /\ u \in Defaulters(p)))
    BY <2>2 DEF TypeInv, TypeOK
  <2>4. QED BY <1>1, <1>3, <2>1, <2>3, PenaliseFreezes DEF CloseRound
<1>4. ASSUME NEW p \in PoolIds, NEW caller \in Users, NEW member \in Users,
             TriggerDefault(caller, p, member)
      PROVE  (u \in frozen[q] <=> streams[q][u].frozen)'
  <2>1. u \in frozen'[q] <=> (u \in frozen[q] \/ (q = p /\ u \in {member}))
    BY <1>4 DEF TriggerDefault, TypeInv, TypeOK
  <2>2. Penalise(p, {member}) /\ {member} \in SUBSET Users
    BY <1>4 DEF TriggerDefault
  <2>3. QED BY <1>1, <2>1, <2>2, PenaliseFreezes
<1>5. ASSUME NEW p \in PoolIds, NEW caller \in Users, NEW beneficiary \in Users,
             NEW total \in Totals, NEW percent \in Percents, NEW rounds \in RoundCounts,
             SchedulePayoutStream(caller, p, beneficiary, total, percent, rounds)
      PROVE  (u \in frozen[q] <=> streams[q][u].frozen)'
  <2>1. /\ Stream!CreateStream(ThisContract, p, beneficiary, total, percent, rounds)
        /\ beneficiary \notin frozen[p]
        /\ frozen' = frozen
    BY <1>5 DEF SchedulePayoutStream, rotationVars
  <2>2. QED BY <1>1, <2>1, ScheduleOpens
<1>6. ASSUME NEW p \in PoolIds, NEW v \in Users,
             JoinPool(v, p) \/ Contribute(v, p) \/ LockPartialCollateral(p, v)
      PROVE  UNCHANGED <<frozen, streams>>
  BY <1>6 DEF JoinPool, Contribute, LockPartialCollateral, rotationVars, streamVars
<1>7. ASSUME NEW tier \in Tiers, NEW caller \in Users, NEW contribution, NEW size, NEW token,
             CreatePool(caller, tier, contribution, size, token)
      PROVE  UNCHANGED <<frozen, streams>>
  BY <1>7 DEF CreatePool, streamVars
<1>8. ASSUME \/ \E v \in Users : BindIdentity(v)
             \/ \E tier \in Tiers, tierSettings \in TierConfigs :
                    ConfigureTier(tier, tierSettings)
             \/ SetEqubPool \/ VaultCall \/ UNCHANGED vars
      PROVE  UNCHANGED <<frozen, streams>>
  BY <1>8 DEF BindIdentity, ConfigureTier, SetEqubPool, Stream!SetEqubPool, VaultCall,
     vars, rotationVars, streamVars
<1>9. QED
  BY <1>2, <1>3, <1>4, <1>5, <1>6, <1>7, <1>8 DEF Next

\* triggerDefault, closeRound and schedulePayoutStream never leave EqubPool and
\* PayoutStream disagreeing on who is frozen.
THEOREM FrozenConsistently == Spec => []FrozenTogether
<1>1. Init => FrozenTogether
  BY DEF Init, FrozenTogether, Stream!StreamInit, Stream!NoStream
<1>2. QED
  BY InitTypeInv, NextTypeInv, NextFrozenTogether, <1>1, PTL DEF Spec

-----------------------------------------------------------------------------
(* Rounds, seasons and winners *)

\* A pool that createPool has not made yet has no creator, no round and no
\* winner, so creating it resets nothing.
NotCreated(p) ==
    /\ config[p].creator = NoUser
    /\ hasWon[p] = {}
    /\ lastClosedRound[p] = 0
    /\ currentSeason[p] = 0

\* Rounds are closed one after the other.
Created(p) ==
    /\ currentRound[p] = lastClosedRound[p] + 1
    /\ currentSeason[p] >= 1

PoolsInOrder ==
    \A p \in PoolIds : IF p > poolCount THEN NotCreated(p) ELSE Created(p)

\* Nobody has won in a season that has not begun: this is why the next season
\* has an eligible member as soon as one member in good standing paid.
SeasonsBegun ==
    \A p \in PoolIds : hasWon[p] \subseteq (1 .. currentSeason[p]) \X Users

\* A round has no winner before it is closed.
NoEarlyWinner ==
    \A p \in PoolIds : \A r \in Rounds :
        r > lastClosedRound[p] => winnerForRound[p][r] = NoUser

RotationInv == PoolsInOrder /\ SeasonsBegun /\ NoEarlyWinner /\ WinnersPaid

\* The steps that touch neither rounds nor seasons nor take anything away.
Accumulates ==
    /\ UNCHANGED <<poolCount, config, currentRound, lastClosedRound, currentSeason,
                   winnerForRound, hasWon>>
    /\ \A p \in PoolIds : members[p] \subseteq members'[p]
    /\ \A p \in PoolIds : contributed[p] \subseteq contributed'[p]

\* All steps but two accumulate.
LEMMA StepKinds ==
    ASSUME TypeInv, [Next]_vars
    PROVE  \/ Accumulates
           \/ \E p \in PoolIds, caller \in Users : CloseRound(caller, p)
           \/ \E caller \in Users, tier \in Tiers, contribution \in Contributions,
                 size \in Sizes, token \in Tokens :
                    CreatePool(caller, tier, contribution, size, token)
<1> USE DEF Accumulates
<1>1. ASSUME NEW p \in PoolIds, NEW u \in Users, JoinPool(u, p) PROVE Accumulates
  BY <1>1 DEF JoinPool, TypeInv, TypeOK
<1>2. ASSUME NEW p \in PoolIds, NEW u \in Users, Contribute(u, p) PROVE Accumulates
  BY <1>2 DEF Contribute, TypeInv, TypeOK, rotationVars
<1>3. ASSUME NEW p \in PoolIds, NEW u \in Users, LockPartialCollateral(p, u)
      PROVE  Accumulates
  BY <1>3 DEF LockPartialCollateral, rotationVars
<1>4. ASSUME NEW p \in PoolIds, NEW caller \in Users, NEW member \in Users,
             TriggerDefault(caller, p, member)
      PROVE  Accumulates
  BY <1>4 DEF TriggerDefault
<1>5. ASSUME NEW p \in PoolIds, NEW caller \in Users, NEW beneficiary, NEW total,
             NEW percent, NEW rounds,
             SchedulePayoutStream(caller, p, beneficiary, total, percent, rounds)
      PROVE  Accumulates
  BY <1>5 DEF SchedulePayoutStream, rotationVars
<1>6. ASSUME \/ \E v \in Users : BindIdentity(v)
             \/ \E tier \in Tiers, tierSettings \in TierConfigs :
                    ConfigureTier(tier, tierSettings)
             \/ SetEqubPool \/ VaultCall \/ UNCHANGED vars
      PROVE  Accumulates
  BY <1>6 DEF BindIdentity, ConfigureTier, SetEqubPool, VaultCall, vars, rotationVars
<1>7. QED
  BY <1>1, <1>2, <1>3, <1>4, <1>5, <1>6 DEF Next

\* What closing a round changes, in the terms the invariants are about.
LEMMA ClosedRoundFacts ==
    ASSUME TypeInv, PoolsInOrder, NEW p \in PoolIds, NEW caller \in Users,
           CloseRound(caller, p)
    PROVE  LET round == currentRound[p]
               blocked == frozen[p] \cup Defaulters(p)
               season == SeasonOfDraw(p, blocked)
           IN  /\ p <= poolCount
               /\ round \in Rounds /\ round = lastClosedRound[p] + 1
               /\ season \in {currentSeason[p], currentSeason[p] + 1} /\ season >= 1
               /\ \E winner \in Eligible(p, season, blocked) :
                     /\ hasWon' = [hasWon EXCEPT ![p] = @ \cup {<<season, winner>>}]
                     /\ winnerForRound' = [winnerForRound EXCEPT ![p][round] = winner]
               /\ frozen' = [frozen EXCEPT ![p] = blocked]
               /\ currentSeason' = [currentSeason EXCEPT ![p] = season]
               /\ lastClosedRound' = [lastClosedRound EXCEPT ![p] = round]
               /\ currentRound' = [currentRound EXCEPT ![p] = round + 1]
               /\ UNCHANGED <<poolCount, config, members, contributed>>
<1>1. p <= poolCount
  BY DEF CloseRound, OnlyPoolCreator, PoolsInOrder, NotCreated, TypeInv, TypeOK, PoolIds
<1>2. /\ currentRound[p] = lastClosedRound[p] + 1
      /\ currentSeason[p] >= 1 /\ currentSeason[p] \in Nat
  BY <1>1 DEF PoolsInOrder, Created, TypeInv, TypeOK, PoolIds
<1>3. currentRound[p] \in Rounds
  BY <1>2, EqubAssumption DEF CloseRound, TypeInv, TypeOK, Rounds
<1>4. /\ SeasonOfDraw(p, frozen[p] \cup Defaulters(p))
            \in {currentSeason[p], currentSeason[p] + 1}
      /\ SeasonOfDraw(p, frozen[p] \cup Defaulters(p)) >= 1
  BY <1>2 DEF SeasonOfDraw
<1>5. QED
  BY <1>1, <1>2, <1>3, <1>4 DEF CloseRound

LEMMA NextRotationInv == TypeInv /\ RotationInv /\ [Next]_vars => RotationInv'
<1> SUFFICES ASSUME TypeInv, RotationInv, [Next]_vars PROVE RotationInv'
  OBVIOUS
<1>1. ASSUME Accumulates PROVE RotationInv'
  <2>1. PoolsInOrder' /\ SeasonsBegun' /\ NoEarlyWinner'
    BY <1>1 DEF Accumulates, RotationInv, PoolsInOrder, NotCreated, Created,
       SeasonsBegun, NoEarlyWinner
  <2>2. WinnersPaid'
    BY <1>1 DEF Accumulates, RotationInv, WinnersPaid
  <2>3. QED BY <2>1, <2>2 DEF RotationInv
<1>2. ASSUME NEW caller \in Users, NEW tier \in Tiers, NEW contribution \in Contributions,
             NEW size \in Sizes, NEW token \in Tokens,
             CreatePool(caller, tier, contribution, size, token)
      PROVE  RotationInv'
  <2> DEFINE p == poolCount + 1
  <2>1. /\ p \in PoolIds /\ p = poolCount + 1 /\ poolCount' = p /\ poolCount \in Int
        /\ \A q \in PoolIds : q # p => config'[q] = config[q]
        /\ currentRound' = [currentRound EXCEPT ![p] = 1]
        /\ lastClosedRound' = [lastClosedRound EXCEPT ![p] = 0]
        /\ currentSeason' = [currentSeason EXCEPT ![p] = 1]
        /\ UNCHANGED <<members, winnerForRound, hasWon, contributed>>
    BY <1>2 DEF CreatePool, TypeInv, TypeOK, PoolIds
  <2>2. NotCreated(p)
    BY <2>1 DEF RotationInv, PoolsInOrder
  <2> HIDE DEF p
  <2> USE DEF TypeInv, TypeOK
  <2>3. PoolsInOrder'
    BY <2>1, <2>2 DEF RotationInv, PoolsInOrder, NotCreated, Created, PoolIds
  <2>4. SeasonsBegun'
    BY <2>1, <2>2 DEF RotationInv, SeasonsBegun, NotCreated
  <2>5. NoEarlyWinner'
    BY <2>1, <2>2 DEF RotationInv, NoEarlyWinner, NotCreated
  <2>6. WinnersPaid'
    BY <2>1, <2>2 DEF RotationInv, WinnersPaid, NotCreated
  <2>7. QED BY <2>3, <2>4, <2>5, <2>6 DEF RotationInv
<1>3. ASSUME NEW p \in PoolIds, NEW caller \in Users, CloseRound(caller, p)
      PROVE  RotationInv'
  <2> DEFINE round == currentRound[p]
             blocked == frozen[p] \cup Defaulters(p)
             season == SeasonOfDraw(p, blocked)
  <2>1. /\ p <= poolCount
        /\ round \in Rounds /\ round = lastClosedRound[p] + 1
        /\ season \in {currentSeason[p], currentSeason[p] + 1} /\ season >= 1
        /\ currentSeason' = [currentSeason EXCEPT ![p] = season]
        /\ lastClosedRound' = [lastClosedRound EXCEPT ![p] = round]
        /\ currentRound' = [currentRound EXCEPT ![p] = round + 1]
        /\ UNCHANGED <<poolCount, config, members, contributed>>
    BY <1>3, ClosedRoundFacts DEF RotationInv
  <2>2. PICK winner \in Eligible(p, season, blocked) :
           /\ hasWon' = [hasWon EXCEPT ![p] = @ \cup {<<season, winner>>}]
           /\ winnerForRound' = [winnerForRound EXCEPT ![p][round] = winner]
    BY <1>3, ClosedRoundFacts DEF RotationInv
  <2>3. winner \in members[p] /\ winner \in Users /\ <<round, winner>> \in contributed[p]
    BY DEF Eligible, TypeInv, TypeOK
  <2> HIDE DEF round, season, blocked
  <2>4. /\ currentSeason[p] \in Nat /\ lastClosedRound[p] \in Nat /\ poolCount \in Int
        /\ round \in Int /\ season \in Int
    BY <2>1 DEF TypeInv, TypeOK, Rounds
  <2> USE DEF TypeInv, TypeOK
  <2>5. PoolsInOrder'
    BY <2>1, <2>2, <2>4 DEF RotationInv, PoolsInOrder, NotCreated, Created, PoolIds
  <2>6. SeasonsBegun'
    <3> SUFFICES ASSUME NEW q \in PoolIds
                 PROVE  hasWon'[q] \subseteq (1 .. currentSeason'[q]) \X Users
      BY DEF SeasonsBegun
    <3>1. hasWon[q] \subseteq (1 .. currentSeason[q]) \X Users /\ currentSeason[q] \in Nat
      BY DEF RotationInv, SeasonsBegun
    <3>2. CASE q # p
      BY <2>1, <2>2, <3>1, <3>2
    <3>3. CASE q = p
      <4>1. <<season, winner>> \in (1 .. currentSeason'[p]) \X Users
        BY <2>1, <2>3, <2>4
      <4>2. 1 .. currentSeason[p] \subseteq 1 .. currentSeason'[p]
        BY <2>1, <2>4
      <4>3. hasWon'[p] = hasWon[p] \cup {<<season, winner>>}
        BY <2>2
      <4>4. QED BY <3>1, <3>3, <4>1, <4>2, <4>3
    <3>4. QED BY <3>2, <3>3
  <2>7. NoEarlyWinner'
    <3> SUFFICES ASSUME NEW q \in PoolIds, NEW r \in Rounds, r > lastClosedRound'[q]
                 PROVE  winnerForRound'[q][r] = NoUser
      BY DEF NoEarlyWinner
    <3>1. r > lastClosedRound[q] => winnerForRound[q][r] = NoUser
      BY DEF RotationInv, NoEarlyWinner
    <3>2. CASE q # p
      BY <2>1, <2>2, <3>1, <3>2
    <3>3. CASE q = p
      BY <2>1, <2>2, <2>4, <3>1, <3>3 DEF Rounds
    <3>4. QED BY <3>2, <3>3
  <2>8. WinnersPaid'
    <3> SUFFICES ASSUME NEW q \in PoolIds, NEW r \in 1 .. lastClosedRound'[q]
                 PROVE  LET w == winnerForRound'[q][r]
                        IN  /\ w \in members[q]
                            /\ <<r, w>> \in contributed[q]
                            /\ \E s \in 1 .. currentSeason'[q] : <<s, w>> \in hasWon'[q]
      BY <2>1 DEF WinnersPaid
    <3>1. CASE q # p
      BY <2>1, <2>2, <3>1 DEF RotationInv, WinnersPaid
    <3>2. CASE q = p /\ r = round
      <4>1. winnerForRound'[q][r] = winner
        BY <2>1, <2>2, <3>2
      <4>2. season \in 1 .. currentSeason'[q] /\ <<season, winner>> \in hasWon'[q]
        BY <2>1, <2>2, <2>4, <3>2
      <4>3. QED BY <2>3, <3>2, <4>1, <4>2
    <3>3. CASE q = p /\ r # round
      <4>1. r \in 1 .. lastClosedRound[p] /\ winnerForRound'[p][r] = winnerForRound[p][r]
        BY <2>1, <2>2, <2>4, <3>3
      <4>2. /\ 1 .. currentSeason[p] \subseteq 1 .. currentSeason'[p]
            /\ hasWon[p] \subseteq hasWon'[p]
        BY <2>1, <2>2, <2>4
      <4>3. QED BY <3>3, <4>1, <4>2 DEF RotationInv, WinnersPaid
    <3>4. QED BY <3>1, <3>2, <3>3
  <2>9. QED BY <2>5, <2>6, <2>7, <2>8 DEF RotationInv
<1>4. QED BY <1>1, <1>2, <1>3, StepKinds

LEMMA InitRotationInv == Init => RotationInv
BY EqubAssumption DEF Init, RotationInv, PoolsInOrder, NotCreated, Created, SeasonsBegun,
   NoEarlyWinner, WinnersPaid, NoConfig, PoolIds, Rounds

\* The winner of every closed round is a member that paid that round and is
\* marked a winner of a season that has begun (closeRound).
THEOREM WinnersHavePaid == Spec => []WinnersPaid
<1>1. RotationInv => WinnersPaid
  BY DEF RotationInv
<1>2. QED
  BY InitTypeInv, NextTypeInv, InitRotationInv, NextRotationInv, <1>1, PTL DEF Spec

\* One member in good standing that paid is enough for closeRound to find a
\* winner, whatever seasons and defaults came before.
THEOREM AlwaysClosable == Spec => []RoundClosable
<1>1. TypeInv /\ RotationInv => RoundClosable
  <2> SUFFICES ASSUME TypeInv, RotationInv, NEW p \in PoolIds, NEW m \in members[p] \ frozen[p],
                      <<currentRound[p], m>> \in contributed[p]
               PROVE  LET blocked == frozen[p] \cup Defaulters(p)
                      IN  Eligible(p, SeasonOfDraw(p, blocked), blocked) # {}
    BY DEF RoundClosable
  <2> DEFINE blocked == frozen[p] \cup Defaulters(p)
  <2>1. m \notin blocked
    BY DEF Defaulters
  <2>2. <<currentSeason[p] + 1, m>> \notin hasWon[p]
    BY DEF RotationInv, SeasonsBegun, TypeInv, TypeOK
  <2>3. m \in Eligible(p, currentSeason[p] + 1, blocked)
    BY <2>1, <2>2 DEF Eligible
  <2>4. QED BY <2>3 DEF SeasonOfDraw
<1>2. QED
  BY InitTypeInv, NextTypeInv, InitRotationInv, NextRotationInv, <1>1, PTL DEF Spec

-----------------------------------------------------------------------------
(* Fairness of the rotation *)

\* The season changes only in closeRound, when nobody is left to be served.
THEOREM SeasonsEndServed == Spec => SeasonEndsWhenServed
<1>1. ASSUME TypeInv, RotationInv, [Next]_vars, NEW p \in PoolIds,
             p <= poolCount, currentSeason'[p] # currentSeason[p]
      PROVE  /\ currentSeason'[p] = currentSeason[p] + 1
             /\ \A m \in members[p] \ frozen'[p] : <<currentSeason[p], m>> \in hasWon[p]
  <2>1. ASSUME Accumulates PROVE FALSE
    BY <1>1, <2>1 DEF Accumulates
  <2>2. ASSUME NEW caller \in Users, NEW tier \in Tiers, NEW contribution \in Contributions,
               NEW size \in Sizes, NEW token \in Tokens,
               CreatePool(caller, tier, contribution, size, token)
        PROVE  FALSE
    BY <1>1, <2>2 DEF CreatePool, TypeInv, TypeOK, PoolIds
  <2>3. ASSUME NEW q \in PoolIds, NEW caller \in Users, CloseRound(caller, q)
        PROVE  /\ currentSeason'[p] = currentSeason[p] + 1
               /\ \A m \in members[p] \ frozen'[p] : <<currentSeason[p], m>> \in hasWon[p]
    <3> DEFINE blocked == frozen[q] \cup Defaulters(q)
    <3>1. /\ currentSeason' = [currentSeason EXCEPT ![q] = SeasonOfDraw(q, blocked)]
          /\ frozen' = [frozen EXCEPT ![q] = blocked]
      BY <1>1, <2>3, ClosedRoundFacts DEF RotationInv
    <3>2. q = p /\ SeasonOfDraw(p, blocked) # currentSeason[p] /\ frozen'[p] = blocked
      BY <1>1, <3>1 DEF TypeInv, TypeOK
    <3>3. Eligible(p, currentSeason[p], blocked) = {}
      BY <3>2 DEF SeasonOfDraw
    <3>4. currentSeason'[p] = currentSeason[p] + 1
      BY <1>1, <3>1, <3>2, <3>3 DEF SeasonOfDraw, TypeInv, TypeOK
    <3>5. ASSUME NEW m \in members[p] \ blocked PROVE <<currentSeason[p], m>> \in hasWon[p]
      BY <3>2, <3>3, <3>5 DEF Eligible, Defaulters
    <3>6. QED BY <3>2, <3>4, <3>5
  <2>4. QED BY <1>1, <2>1, <2>2, <2>3, StepKinds
<1>2. TypeInv /\ RotationInv /\ [Next]_vars =>
        [\A p \in PoolIds : (p <= poolCount /\ currentSeason'[p] # currentSeason[p]) =>
          /\ currentSeason'[p] = currentSeason[p] + 1
          /\ \A m \in members[p] \ frozen'[p] : <<currentSeason[p], m>> \in hasWon[p]]_vars
  BY <1>1
<1>3. QED
  BY InitTypeInv, NextTypeInv, InitRotationInv, NextRotationInv, <1>2,
     PTL DEF Spec, SeasonEndsWhenServed

\* The sets OneWinPerSeason counts are finite.
LEMMA WinsFinite ==
    ASSUME TypeInv, NEW p \in PoolIds, NEW u \in Users
    PROVE  /\ IsFiniteSet(RoundsWonBy(p, u)) /\ IsFiniteSet(SeasonsWonBy(p, u))
           /\ Cardinality(RoundsWonBy(p, u)) \in Nat /\ Cardinality(SeasonsWonBy(p, u)) \in Nat
<1>1. IsFiniteSet(Rounds) /\ IsFiniteSet(1 .. currentSeason[p])
  BY FS_Interval, EqubAssumption DEF Rounds, TypeInv, TypeOK
<1>2. RoundsWonBy(p, u) \subseteq Rounds /\ SeasonsWonBy(p, u) \subseteq 1 .. currentSeason[p]
  BY DEF RoundsWonBy, SeasonsWonBy
<1>3. QED BY <1>1, <1>2, FS_Subset, FS_CardinalityType

LEMMA NextOneWin ==
    TypeInv /\ RotationInv /\ OneWinPerSeason /\ [Next]_vars => OneWinPerSeason'
<1> SUFFICES ASSUME TypeInv, RotationInv, OneWinPerSeason, [Next]_vars,
                    NEW q \in PoolIds, NEW u \in Users
             PROVE  Cardinality(RoundsWonBy(q, u)') = Cardinality(SeasonsWonBy(q, u)')
  BY DEF OneWinPerSeason
<1>1. Cardinality(RoundsWonBy(q, u)) = Cardinality(SeasonsWonBy(q, u))
  BY DEF OneWinPerSeason
<1>2. hasWon[q] \subseteq (1 .. currentSeason[q]) \X Users /\ currentSeason[q] \in Nat
  BY DEF RotationInv, SeasonsBegun, TypeInv, TypeOK
<1>3. ASSUME RoundsWonBy(q, u)' = RoundsWonBy(q, u), SeasonsWonBy(q, u)' = SeasonsWonBy(q, u)
      PROVE  Cardinality(RoundsWonBy(q, u)') = Cardinality(SeasonsWonBy(q, u)')
  BY <1>1, <1>3
<1>4. CASE Accumulates
  BY <1>3, <1>4 DEF Accumulates, RoundsWonBy, SeasonsWonBy
<1>5. ASSUME NEW caller \in Users, NEW tier \in Tiers, NEW contribution \in Contributions,
             NEW size \in Sizes, NEW token \in Tokens,
             CreatePool(caller, tier, contribution, size, token)
      PROVE  Cardinality(RoundsWonBy(q, u)') = Cardinality(SeasonsWonBy(q, u)')
  <2>1. winnerForRound' = winnerForRound /\ hasWon' = hasWon
    BY <1>5 DEF CreatePool
  <2>2. \/ currentSeason'[q] = currentSeason[q]
        \/ hasWon[q] = {}
    BY <1>5 DEF CreatePool, RotationInv, PoolsInOrder, NotCreated, TypeInv, TypeOK, PoolIds
  <2>3. QED BY <1>3, <2>1, <2>2 DEF RoundsWonBy, SeasonsWonBy
<1>6. ASSUME NEW p \in PoolIds, NEW caller \in Users, CloseRound(caller, p)
      PROVE  Cardinality(RoundsWonBy(q, u)') = Cardinality(SeasonsWonBy(q, u)')
  <2> DEFINE round == currentRound[p]
             blocked == frozen[p] \cup Defaulters(p)
             season == SeasonOfDraw(p, blocked)
  <2>1. /\ round \in Rounds /\ round = lastClosedRound[p] + 1
        /\ season \in {currentSeason[p], currentSeason[p] + 1} /\ season >= 1
        /\ currentSeason' = [currentSeason EXCEPT ![p] = season]
    BY <1>6, ClosedRoundFacts DEF RotationInv
  <2>2. PICK winner \in Eligible(p, season, blocked) :
           /\ hasWon' = [hasWon EXCEPT ![p] = @ \cup {<<season, winner>>}]
           /\ winnerForRound' = [winnerForRound EXCEPT ![p][round] = winner]
    BY <1>6, ClosedRoundFacts DEF RotationInv
  <2>3. winner \in Users /\ <<season, winner>> \notin hasWon[p]
    BY DEF Eligible, TypeInv, TypeOK
  <2> HIDE DEF round, season, blocked
  <2>4. winnerForRound[p][round] = NoUser /\ NoUser \notin Users
    BY <2>1, EqubAssumption DEF RotationInv, NoEarlyWinner, TypeInv, TypeOK
  <2>5. CASE q # p
    <3>1. /\ winnerForRound'[q] = winnerForRound[q] /\ hasWon'[q] = hasWon[q]
          /\ currentSeason'[q] = currentSeason[q]
      BY <2>1, <2>2, <2>5 DEF TypeInv, TypeOK
    <3>2. QED BY <1>3, <3>1 DEF RoundsWonBy, SeasonsWonBy
  <2>6. CASE q = p /\ u # winner
    <3>1. RoundsWonBy(q, u)' = RoundsWonBy(q, u)
      BY <2>2, <2>4, <2>6 DEF RoundsWonBy, TypeInv, TypeOK
    <3>2. \A s : <<s, u>> \in hasWon'[q] <=> <<s, u>> \in hasWon[q]
      BY <2>2, <2>6 DEF TypeInv, TypeOK
    <3>3. \A s : <<s, u>> \in hasWon[q] =>
             s \in 1 .. currentSeason[q] /\ s \in 1 .. currentSeason'[q]
      BY <1>2, <2>1, <2>6 DEF TypeInv, TypeOK
    <3>4. SeasonsWonBy(q, u)' = SeasonsWonBy(q, u)
      BY <3>2, <3>3 DEF SeasonsWonBy
    <3>5. QED BY <1>3, <3>1, <3>4
  <2>7. CASE q = p /\ u = winner
    <3>1. RoundsWonBy(q, u)' = RoundsWonBy(q, u) \cup {round} /\ round \notin RoundsWonBy(q, u)
      BY <2>1, <2>2, <2>3, <2>4, <2>7 DEF RoundsWonBy, TypeInv, TypeOK
    <3>2. \A s : <<s, u>> \in hasWon'[q] <=> <<s, u>> \in hasWon[q] \/ s = season
      BY <2>2, <2>7 DEF TypeInv, TypeOK
    <3>3. /\ \A s : <<s, u>> \in hasWon[q] =>
                s \in 1 .. currentSeason[q] /\ s \in 1 .. currentSeason'[q]
          /\ season \in 1 .. currentSeason'[q]
      BY <1>2, <2>1, <2>7 DEF TypeInv, TypeOK
    <3>4. SeasonsWonBy(q, u)' = SeasonsWonBy(q, u) \cup {season}
      BY <3>2, <3>3 DEF SeasonsWonBy
    <3>5. season \notin SeasonsWonBy(q, u)
      BY <2>3, <2>7 DEF SeasonsWonBy
    <3>6. /\ IsFiniteSet(RoundsWonBy(q, u)) /\ IsFiniteSet(SeasonsWonBy(q, u))
          /\ Cardinality(RoundsWonBy(q, u)) \in Nat
      BY WinsFinite
    <3>7. Cardinality(RoundsWonBy(q, u) \cup {round}) = Cardinality(RoundsWonBy(q, u)) + 1
      BY <3>1, <3>6, FS_AddElement
    <3>8. Cardinality(SeasonsWonBy(q, u) \cup {season}) = Cardinality(SeasonsWonBy(q, u)) + 1
      BY <3>5, <3>6, FS_AddElement
    <3>9. QED BY <1>1, <3>1, <3>4, <3>7, <3>8
  <2>8. QED BY <2>5, <2>6, <2>7
<1>7. QED BY <1>4, <1>5, <1>6, StepKinds

\* "No one can win twice in the same season" (README): every member has won as
\* many rounds as seasons, for any number of pools, members and rounds.
THEOREM NobodyWinsTwice == Spec => []OneWinPerSeason
<1>1. Init => OneWinPerSeason
  <2> SUFFICES ASSUME Init, NEW p \in PoolIds, NEW u \in Users
               PROVE  Cardinality(RoundsWonBy(p, u)) = Cardinality(SeasonsWonBy(p, u))
    BY DEF OneWinPerSeason
  <2>1. RoundsWonBy(p, u) = {} /\ SeasonsWonBy(p, u) = {}
    BY EqubAssumption DEF Init, RoundsWonBy, SeasonsWonBy
  <2>2. QED BY <2>1
<1>2. QED
  BY InitTypeInv, NextTypeInv, InitRotationInv, NextRotationInv, <1>1, NextOneWin,
     PTL DEF Spec

\* A stream changes its amounts only in schedulePayoutStream, for the winner of
\* the last closed round, once.
THEOREM OneStreamPerRound == Spec => StreamPerWonRound
<1> DEFINE Amounted(s) == [s EXCEPT !.frozen = FALSE]
<1>1. ASSUME TypeInv, [Next]_vars, NEW q \in PoolIds, NEW u \in Users,
             Amounted(streams'[q][u]) # Amounted(streams[q][u])
      PROVE  \E r \in Rounds \ scheduled[q] :
                /\ scheduled'[q] = scheduled[q] \cup {r}
                /\ r <= lastClosedRound[q] /\ winnerForRound[q][r] = u
                /\ u \notin frozen[q]
  <2>1. ASSUME NEW p \in PoolIds, NEW caller \in Users, CloseRound(caller, p)
        PROVE  FALSE
    <3>1. Defaulters(p) \in SUBSET Users /\ Penalise(p, Defaulters(p))
      BY <2>1, <1>1 DEF CloseRound, Defaulters, TypeInv, TypeOK
    <3>2. QED BY <1>1, <3>1, PenaliseFreezes
  <2>2. ASSUME NEW p \in PoolIds, NEW caller \in Users, NEW member \in Users,
               TriggerDefault(caller, p, member)
        PROVE  FALSE
    <3>1. {member} \in SUBSET Users /\ Penalise(p, {member})
      BY <2>2 DEF TriggerDefault
    <3>2. QED BY <1>1, <3>1, PenaliseFreezes
  <2>3. ASSUME NEW p \in PoolIds, NEW caller \in Users, NEW beneficiary \in Users,
               NEW total \in Totals, NEW percent \in Percents, NEW rounds \in RoundCounts,
               SchedulePayoutStream(caller, p, beneficiary, total, percent, rounds)
        PROVE  \E r \in Rounds \ scheduled[q] :
                  /\ scheduled'[q] = scheduled[q] \cup {r}
                  /\ r <= lastClosedRound[q] /\ winnerForRound[q][r] = u
                  /\ u \notin frozen[q]
    <3>1. q = p /\ u = beneficiary
      <4>1. Stream!CreateStream(ThisContract, p, beneficiary, total, percent, rounds)
        BY <2>3 DEF SchedulePayoutStream
      <4>2. ~(q = p /\ u = beneficiary) => streams'[q][u] = streams[q][u]
        BY <1>1, <4>1, ScheduleOpens
      <4>3. QED BY <1>1, <4>2
    <3>2. lastClosedRound[p] \in Rounds \ scheduled[p]
      BY <1>1, <2>3 DEF SchedulePayoutStream, TypeInv, TypeOK, Rounds
    <3>3. /\ scheduled'[p] = scheduled[p] \cup {lastClosedRound[p]}
          /\ winnerForRound[p][lastClosedRound[p]] = beneficiary
          /\ beneficiary \notin frozen[p]
      BY <1>1, <2>3 DEF SchedulePayoutStream, TypeInv, TypeOK
    <3>4. lastClosedRound[p] <= lastClosedRound[p]
      BY <1>1 DEF TypeInv, TypeOK
    <3>5. QED BY <3>1, <3>2, <3>3, <3>4
  <2>4. ASSUME UNCHANGED streams PROVE FALSE
    BY <1>1, <2>4
  <2>5. ASSUME NEW p \in PoolIds, NEW v \in Users,
               JoinPool(v, p) \/ Contribute(v, p) \/ LockPartialCollateral(p, v)
        PROVE  UNCHANGED streams
    BY <2>5 DEF JoinPool, Contribute, LockPartialCollateral, streamVars
  <2>6. ASSUME NEW tier \in Tiers, NEW caller \in Users, NEW contribution, NEW size,
               NEW token, CreatePool(caller, tier, contribution, size, token)
        PROVE  UNCHANGED streams
    BY <2>6 DEF CreatePool, streamVars
  <2>7. ASSUME \/ \E v \in Users : BindIdentity(v)
               \/ \E tier \in Tiers, tierSettings \in TierConfigs :
                      ConfigureTier(tier, tierSettings)
               \/ SetEqubPool \/ VaultCall \/ UNCHANGED vars
        PROVE  UNCHANGED streams
    BY <2>7 DEF BindIdentity, ConfigureTier, SetEqubPool, Stream!SetEqubPool, VaultCall,
       vars, streamVars
  <2>8. QED
    BY <1>1, <2>1, <2>2, <2>3, <2>4, <2>5, <2>6, <2>7 DEF Next
<1>2. TypeInv /\ [Next]_vars =>
        [\A p \in PoolIds, u \in Users :
          [streams'[p][u] EXCEPT !.frozen = FALSE] # [streams[p][u] EXCEPT !.frozen = FALSE]
              => \E r \in Rounds \ scheduled[p] :
                    /\ scheduled'[p] = scheduled[p] \cup {r}
                    /\ r <= lastClosedRound[p] /\ winnerForRound[p][r] = u
                    /\ u \notin frozen[p]]_vars
  BY <1>1
<1>3. QED
  BY InitTypeInv, NextTypeInv, <1>2, PTL DEF Spec, StreamPerWonRound

-----------------------------------------------------------------------------
(* EqubPool implements Rotation *)

\* Defaulters and winners are members, so who joins later is neither.
MembersOnly ==
    \A p \in PoolIds : frozen[p] \subseteq members[p] /\ hasWon[p] \subseteq Nat \X members[p]

LEMMA NextMembersOnly == TypeInv /\ MembersOnly /\ [Next]_vars => MembersOnly'
<1> SUFFICES ASSUME TypeInv, MembersOnly, [Next]_vars, NEW q \in PoolIds
             PROVE  frozen'[q] \subseteq members'[q] /\ hasWon'[q] \subseteq Nat \X members'[q]
  BY DEF MembersOnly
<1> USE DEF TypeInv, TypeOK
<1>1. frozen[q] \subseteq members[q] /\ hasWon[q] \subseteq Nat \X members[q]
  BY DEF MembersOnly
<1>2. CASE UNCHANGED <<frozen, members, hasWon>>
  BY <1>1, <1>2
<1>3. ASSUME NEW p \in PoolIds, NEW caller \in Users, CloseRound(caller, p)
      PROVE  frozen'[q] \subseteq members'[q] /\ hasWon'[q] \subseteq Nat \X members'[q]
  <2> DEFINE blocked == frozen[p] \cup Defaulters(p)
             season == SeasonOfDraw(p, blocked)
  <2>1. members' = members /\ frozen' = [frozen EXCEPT ![p] = blocked]
    BY <1>3 DEF CloseRound
  <2>2. PICK winner \in Eligible(p, season, blocked) :
           hasWon' = [hasWon EXCEPT ![p] = @ \cup {<<season, winner>>}]
    BY <1>3 DEF CloseRound
  <2>3. season \in Nat /\ winner \in members[p] /\ Defaulters(p) \subseteq members[p]
    BY DEF SeasonOfDraw, Eligible, Defaulters
  <2> HIDE DEF season
  <2>4. QED BY <1>1, <2>1, <2>2, <2>3
<1>4. ASSUME NEW p \in PoolIds, NEW caller \in Users, NEW member \in Users,
             TriggerDefault(caller, p, member)
      PROVE  frozen'[q] \subseteq members'[q] /\ hasWon'[q] \subseteq Nat \X members'[q]
  BY <1>1, <1>4 DEF TriggerDefault
<1>5. ASSUME NEW p \in PoolIds, NEW u \in Users, JoinPool(u, p)
      PROVE  frozen'[q] \subseteq members'[q] /\ hasWon'[q] \subseteq Nat \X members'[q]
  <2>1. members[q] \subseteq members'[q] /\ frozen' = frozen /\ hasWon' = hasWon
    BY <1>5 DEF JoinPool
  <2>2. QED BY <1>1, <2>1
<1>6. ASSUME NEW p \in PoolIds, NEW u \in Users,
             Contribute(u, p) \/ LockPartialCollateral(p, u)
      PROVE  UNCHANGED <<frozen, members, hasWon>>
  BY <1>6 DEF Contribute, LockPartialCollateral, rotationVars
<1>7. ASSUME \/ \E v \in Users : BindIdentity(v)
             \/ \E tier \in Tiers, tierSettings \in TierConfigs :
                    ConfigureTier(tier, tierSettings)
             \/ \E caller \in Users, tier \in Tiers, contribution \in Contributions,
                   size \in Sizes, token \in Tokens :
                      CreatePool(caller, tier, contribution, size, token)
             \/ SetEqubPool \/ VaultCall \/ UNCHANGED vars
      PROVE  UNCHANGED <<frozen, members, hasWon>>
  BY <1>7 DEF BindIdentity, ConfigureTier, CreatePool, SetEqubPool, VaultCall, vars,
     rotationVars
<1>8. ASSUME NEW p \in PoolIds, NEW u \in Users, NEW beneficiary, NEW total, NEW percent,
             NEW rounds, SchedulePayoutStream(u, p, beneficiary, total, percent, rounds)
      PROVE  UNCHANGED <<frozen, members, hasWon>>
  BY <1>8 DEF SchedulePayoutStream, rotationVars
<1>9. QED BY <1>2, <1>3, <1>4, <1>5, <1>6, <1>7, <1>8 DEF Next

\* The refinement mapping, pool by pool.
Standing(p) == members[p] \ frozen[p]
Served(p) == {m \in members[p] : <<currentSeason[p], m>> \in hasWon[p]}

\* Closing a round is one draw of the promise.
LEMMA CloseRoundDraws ==
    ASSUME TypeInv, RotationInv, MembersOnly, NEW p \in PoolIds, NEW caller \in Users,
           CloseRound(caller, p)
    PROVE  Promise!DrawIn(p)
<1> DEFINE blocked == frozen[p] \cup Defaulters(p)
           season == SeasonOfDraw(p, blocked)
           late == Defaulters(p) \ frozen[p]
           left == Standing(p) \ late
           overdue == left \ Served(p)
<1>1. /\ season \in {currentSeason[p], currentSeason[p] + 1}
      /\ currentSeason' = [currentSeason EXCEPT ![p] = season]
      /\ frozen' = [frozen EXCEPT ![p] = blocked]
      /\ members' = members
  BY ClosedRoundFacts DEF RotationInv
<1>2. PICK winner \in Eligible(p, season, blocked) :
         hasWon' = [hasWon EXCEPT ![p] = @ \cup {<<season, winner>>}]
  BY ClosedRoundFacts DEF RotationInv
<1>3. late \in SUBSET Standing(p) /\ winner \in Users /\ left = members[p] \ blocked
  BY DEF Defaulters, Standing, Eligible, TypeInv, TypeOK
<1>4. Eligible(p, currentSeason[p], blocked) = overdue
  BY <1>3 DEF Eligible, Defaulters, Served
<1>5. winner \in left
  BY <1>3 DEF Eligible
<1>6. overdue # {} => season = currentSeason[p] /\ winner \in overdue
  BY <1>4 DEF SeasonOfDraw
<1>7. Standing(p)' = left /\ \A q \in PoolIds : q # p => Standing(q)' = Standing(q)
  BY <1>1, <1>3 DEF Standing, TypeInv, TypeOK
<1>8. frozen'[p] = frozen[p] \cup late /\ \A q \in PoolIds : q # p => frozen'[q] = frozen[q]
  BY <1>1 DEF TypeInv, TypeOK
<1>9. Served(p)' = IF overdue = {} THEN {winner} ELSE Served(p) \cup {winner}
  <2>1. /\ currentSeason'[p] = season /\ hasWon'[p] = hasWon[p] \cup {<<season, winner>>}
        /\ winner \in members[p]
    BY <1>1, <1>2, <1>5 DEF TypeInv, TypeOK, Standing
  <2>2. CASE overdue # {}
    BY <1>1, <1>6, <2>1, <2>2 DEF Served
  <2>3. CASE overdue = {}
    <3>1. season = currentSeason[p] + 1
      BY <1>4, <2>3 DEF SeasonOfDraw
    <3> HIDE DEF season, overdue
    <3>2. \A m : <<season, m>> \notin hasWon[p]
      BY <3>1 DEF RotationInv, SeasonsBegun, TypeInv, TypeOK
    <3>3. QED BY <1>1, <2>1, <2>3, <3>2 DEF Served
  <2>4. QED BY <2>2, <2>3
<1>10. \A q \in PoolIds : q # p => Served(q)' = Served(q)
  BY <1>1, <1>2 DEF Served, TypeInv, TypeOK
<1>11. Promise!Draw(p, late, winner)
  <2> HIDE DEF left, overdue, late
  <2>1. /\ [q \in PoolIds |-> Standing(q)'] = [[q \in PoolIds |-> Standing(q)] EXCEPT ![p] = left]
        /\ frozen' = [frozen EXCEPT ![p] = @ \cup late]
        /\ [q \in PoolIds |-> Served(q)'] = [[q \in PoolIds |-> Served(q)] EXCEPT ![p] =
               IF overdue = {} THEN {winner} ELSE @ \cup {winner}]
    BY <1>1, <1>7, <1>8, <1>9, <1>10 DEF TypeInv, TypeOK
  <2>2. QED
    BY <1>5, <1>6, <2>1 DEF Promise!Draw, left, overdue, Standing, Served
<1>12. late \in SUBSET [q \in PoolIds |-> members[q] \ frozen[q]][p]
  BY <1>3 DEF Standing
<1>13. PICK dropped \in SUBSET [q \in PoolIds |-> members[q] \ frozen[q]][p] : dropped = late
  BY <1>12
<1>14. Promise!Draw(p, dropped, winner)
  BY <1>11, <1>13 DEF Promise!Draw
<1>15. QED BY <1>3, <1>14 DEF Promise!DrawIn

LEMMA StepRefines ==
    ASSUME TypeInv, RotationInv, MembersOnly, [Next]_vars
    PROVE  [Promise!Next]_(Promise!vars)
<1> DEFINE Kept == /\ UNCHANGED frozen
                   /\ \A q \in PoolIds : Standing(q)' = Standing(q) /\ Served(q)' = Served(q)
<1>1. ASSUME Kept PROVE UNCHANGED Promise!vars
  BY <1>1 DEF Promise!vars, Standing, Served
<1>2. ASSUME NEW p \in PoolIds, NEW caller \in Users, CloseRound(caller, p)
      PROVE  Promise!Next
  BY <1>2, CloseRoundDraws DEF Promise!Next
<1>3. ASSUME NEW p \in PoolIds, NEW u \in Users, JoinPool(u, p) PROVE Promise!Next
  <2>1. /\ u \notin members[p] /\ members' = [members EXCEPT ![p] = @ \cup {u}]
        /\ frozen' = frozen /\ currentSeason' = currentSeason /\ hasWon' = hasWon
    BY <1>3 DEF JoinPool
  <2>2. u \notin frozen[p] /\ \A s : <<s, u>> \notin hasWon[p]
    BY <2>1 DEF MembersOnly
  <2>3. /\ [q \in PoolIds |-> Standing(q)'] =
              [[q \in PoolIds |-> Standing(q)] EXCEPT ![p] = @ \cup {u}]
        /\ [q \in PoolIds |-> Served(q)'] = [q \in PoolIds |-> Served(q)]
    <3>1. /\ members'[p] = members[p] \cup {u}
          /\ \A q \in PoolIds : q # p => members'[q] = members[q]
      BY <2>1 DEF TypeInv, TypeOK
    <3>2. /\ Standing(p)' = Standing(p) \cup {u}
          /\ \A q \in PoolIds : q # p => Standing(q)' = Standing(q)
      BY <2>1, <2>2, <3>1 DEF Standing
    <3>3. \A q \in PoolIds : Served(q)' = Served(q)
      BY <2>1, <2>2, <3>1 DEF Served
    <3>4. QED BY <3>2, <3>3
  <2>4. Promise!Join(p, u)
    BY <2>1, <2>2, <2>3 DEF Promise!Join, Standing, Served
  <2>5. QED BY <2>4 DEF Promise!Next
<1>4. ASSUME NEW p \in PoolIds, NEW caller \in Users, NEW member \in Users,
             TriggerDefault(caller, p, member)
      PROVE  Promise!Next \/ Kept
  <2>1. /\ member \in members[p] /\ frozen' = [frozen EXCEPT ![p] = @ \cup {member}]
        /\ members' = members /\ currentSeason' = currentSeason /\ hasWon' = hasWon
    BY <1>4 DEF TriggerDefault
  <2>2. CASE member \in frozen[p]
    <3>1. frozen' = frozen
      BY <2>1, <2>2 DEF TypeInv, TypeOK
    <3>2. QED BY <2>1, <3>1 DEF Standing, Served
  <2>3. CASE member \notin frozen[p]
    <3>1. /\ [q \in PoolIds |-> Standing(q)'] =
                [[q \in PoolIds |-> Standing(q)] EXCEPT ![p] = @ \ {member}]
          /\ [q \in PoolIds |-> Served(q)'] = [q \in PoolIds |-> Served(q)]
      BY <2>1 DEF Standing, Served, TypeInv, TypeOK
    <3>2. Promise!Exclude(p, member)
      BY <2>1, <2>3, <3>1 DEF Promise!Exclude, Standing, Served
    <3>3. QED BY <3>2 DEF Promise!Next
  <2>4. QED BY <2>2, <2>3
<1>5. ASSUME NEW caller \in Users, NEW tier \in Tiers, NEW contribution \in Contributions,
             NEW size \in Sizes, NEW token \in Tokens,
             CreatePool(caller, tier, contribution, size, token)
      PROVE  Kept
  <2>1. UNCHANGED <<members, frozen, hasWon>>
    BY <1>5 DEF CreatePool
  <2>2. \A q \in PoolIds : currentSeason'[q] = currentSeason[q] \/ hasWon[q] = {}
    BY <1>5 DEF CreatePool, RotationInv, PoolsInOrder, NotCreated, TypeInv, TypeOK, PoolIds
  <2>3. QED BY <2>1, <2>2 DEF Standing, Served
<1>6. ASSUME NEW p \in PoolIds, NEW u \in Users,
             Contribute(u, p) \/ LockPartialCollateral(p, u)
      PROVE  Kept
  <2>1. UNCHANGED <<members, frozen, hasWon, currentSeason>>
    BY <1>6 DEF Contribute, LockPartialCollateral, rotationVars
  <2>2. QED BY <2>1 DEF Standing, Served
<1>7. ASSUME \/ \E v \in Users : BindIdentity(v)
             \/ \E tier \in Tiers, tierSettings \in TierConfigs :
                    ConfigureTier(tier, tierSettings)
             \/ SetEqubPool \/ VaultCall \/ UNCHANGED vars
      PROVE  Kept
  BY <1>7 DEF BindIdentity, ConfigureTier, SetEqubPool, VaultCall, vars, rotationVars,
     Standing, Served
<1>8. ASSUME NEW p \in PoolIds, NEW u \in Users, NEW beneficiary, NEW total, NEW percent,
             NEW rounds, SchedulePayoutStream(u, p, beneficiary, total, percent, rounds)
      PROVE  Kept
  <2>1. UNCHANGED <<members, frozen, hasWon, currentSeason>>
    BY <1>8 DEF SchedulePayoutStream, rotationVars
  <2>2. QED BY <2>1 DEF Standing, Served
<1> HIDE DEF Kept
<1>9. QED BY <1>1, <1>2, <1>3, <1>4, <1>5, <1>6, <1>7, <1>8 DEF Next

\* Every behaviour of the contracts, seen through who stands, who defaulted and
\* who was served in the running season, is a behaviour of the promise.
THEOREM Refinement == Spec => ImplementsRotation
<1>1. Init => Promise!Init /\ MembersOnly
  BY EqubAssumption DEF Init, Promise!Init, MembersOnly
<1>2. QED
  BY InitTypeInv, NextTypeInv, InitRotationInv, NextRotationInv, NextMembersOnly,
     StepRefines, <1>1, PTL DEF Spec, ImplementsRotation, Promise!Spec

-----------------------------------------------------------------------------
(* Sums over finite sets *)

\* MapThenSumSet picks one element after the other.  What it computes for
\* naturals is the number of units below the graph of the function, and sets
\* of units can be compared, split and counted.
Units(f, S) == {unit \in S \X Nat : unit[2] \in 1 .. f[unit[1]]}
Sum(f, S) == Cardinality(Units(f, S))

\* The units of one element.
LEMMA ColumnSize ==
    ASSUME NEW a, NEW n \in Nat
    PROVE  IsFiniteSet({a} \X (1 .. n)) /\ Cardinality({a} \X (1 .. n)) = n
<1> DEFINE One == {a}
           Many == 1 .. n
<1>1. IsFiniteSet(Many) /\ Cardinality(Many) = n
  BY FS_Interval
<1>2. IsFiniteSet(One) /\ Cardinality(One) = 1
  BY FS_Singleton
<1>3. IsFiniteSet(One \X Many) /\ Cardinality(One \X Many) = 1 * n
  <2> HIDE DEF One, Many
  <2> QED BY <1>1, <1>2, FS_Product
<1>4. QED BY <1>3

LEMMA UnitsFinite ==
    ASSUME NEW S, IsFiniteSet(S), NEW f, \A x \in S : f[x] \in Nat
    PROVE  IsFiniteSet(Units(f, S))
<1> DEFINE Column(x) == {x} \X (1 .. f[x])
           column == [x \in S |-> Column(x)]
           Columns == {Column(x) : x \in S}
<1>1. column \in Surjection(S, Columns)
  BY DEF Surjection
<1>2. IsFiniteSet(Columns)
  BY <1>1, FS_Surjection
<1>3. \A C \in Columns : IsFiniteSet(C)
  <2>1. \A x \in S : IsFiniteSet(Column(x))
    BY ColumnSize
  <2>2. QED BY <2>1
<1>4. IsFiniteSet(UNION Columns)
  BY <1>2, <1>3, FS_UNION
<1>5. Units(f, S) \subseteq UNION Columns
  BY DEF Units
<1>6. QED
  BY <1>4, <1>5, FS_Subset

LEMMA SumNat ==
    ASSUME NEW S, IsFiniteSet(S), NEW f, \A x \in S : f[x] \in Nat
    PROVE  Sum(f, S) \in Nat
BY UnitsFinite, FS_CardinalityType DEF Sum

LEMMA SumEmpty == ASSUME NEW f PROVE Sum(f, {}) = 0
<1>1. Units(f, {}) = {}
  BY DEF Units
<1>2. QED BY <1>1, FS_EmptySet DEF Sum

\* The terms can be added in any order.
LEMMA SumRemove ==
    ASSUME NEW S, IsFiniteSet(S), NEW f, \A x \in S : f[x] \in Nat, NEW a \in S
    PROVE  Sum(f, S) = f[a] + Sum(f, S \ {a})
<1> DEFINE Others == Units(f, S \ {a})
           Own == {a} \X (1 .. f[a])
<1>1. Units(f, S) = Others \cup Own /\ Others \cap Own = {}
  BY DEF Units
<1>2. IsFiniteSet(S \ {a})
  BY FS_RemoveElement
<1>3. IsFiniteSet(Others)
  BY <1>2, UnitsFinite
<1>4. IsFiniteSet(Own) /\ Cardinality(Own) = f[a]
  BY ColumnSize
<1>5. Cardinality(Units(f, S)) = Cardinality(Others) + Cardinality(Own) - Cardinality({})
  <2> HIDE DEF Others, Own
  <2> QED BY <1>1, <1>3, <1>4, FS_Union
<1>6. Cardinality(Others) \in Nat
  BY <1>3, FS_CardinalityType
<1>7. QED BY <1>4, <1>5, <1>6, FS_EmptySet DEF Sum

\* Sums are monotone, and depend on the values of the function alone.
LEMMA SumAtMost ==
    ASSUME NEW S, IsFiniteSet(S), NEW f, NEW g,
           \A x \in S : f[x] \in Nat /\ g[x] \in Nat /\ f[x] <= g[x]
    PROVE  Sum(f, S) <= Sum(g, S)
<1>1. Units(f, S) \subseteq Units(g, S)
  BY DEF Units
<1>2. QED BY <1>1, UnitsFinite, FS_Subset DEF Sum

LEMMA SumSame ==
    ASSUME NEW S, NEW f, NEW g, \A x \in S : f[x] = g[x]
    PROVE  Sum(f, S) = Sum(g, S)
<1>1. Units(f, S) = Units(g, S)
  BY DEF Units
<1>2. QED BY <1>1 DEF Sum

\* A change of one term changes the sum by as much.
LEMMA SumChange ==
    ASSUME NEW S, IsFiniteSet(S), NEW f, NEW g, NEW a \in S, NEW amount \in Int,
           \A x \in S : f[x] \in Nat /\ g[x] \in Nat,
           \A x \in S : x # a => f[x] = g[x],
           g[a] = f[a] + amount
    PROVE  Sum(g, S) = Sum(f, S) + amount
<1>1. Sum(f, S) = f[a] + Sum(f, S \ {a})
  BY SumRemove
<1>2. Sum(g, S) = g[a] + Sum(g, S \ {a})
  BY SumRemove
<1>3. Sum(f, S \ {a}) = Sum(g, S \ {a})
  BY SumSame
<1>4. Sum(f, S \ {a}) \in Nat
  BY SumNat, FS_RemoveElement
<1>5. QED BY <1>1, <1>2, <1>3, <1>4

\* The function MapThenFoldSet defines by recursion on the subsets of S.
Recursion(f, S, g) ==
    g = [s \in SUBSET S |->
            IF s = {} THEN 0
            ELSE f[CHOOSE x \in s : TRUE] + g[s \ {CHOOSE x \in s : TRUE}]]

\* There is such a function: the sums are one.
LEMMA RecursionExists ==
    ASSUME NEW S, IsFiniteSet(S), NEW f, \A x \in S : f[x] \in Nat
    PROVE  \E g : Recursion(f, S, g)
<1> DEFINE g == [s \in SUBSET S |-> Sum(f, s)]
<1>1. ASSUME NEW s \in SUBSET S, s # {}
      PROVE  Sum(f, s) = f[CHOOSE x \in s : TRUE] + g[s \ {CHOOSE x \in s : TRUE}]
  <2>1. IsFiniteSet(s)
    BY FS_Subset
  <2>2. PICK a \in s : a = CHOOSE x \in s : TRUE
    BY <1>1
  <2>3. Sum(f, s) = f[a] + Sum(f, s \ {a})
    BY <2>1, SumRemove
  <2>4. QED BY <2>2, <2>3
<1>2. Sum(f, {}) = 0
  BY SumEmpty
<1>3. Recursion(f, S, g)
  BY <1>1, <1>2 DEF Recursion
<1>4. QED BY <1>3

\* Every such function computes the sums: a smallest set where it does not is
\* neither empty nor a set with one element more than a good one.
LEMMA RecursionIsSum ==
    ASSUME NEW S, IsFiniteSet(S), NEW f, \A x \in S : f[x] \in Nat,
           NEW g, Recursion(f, S, g)
    PROVE  g[S] = Sum(f, S)
<1> DEFINE Wrong == {s \in SUBSET S : g[s] # Sum(f, s)}
<1> SUFFICES ASSUME Wrong # {} PROVE FALSE
  OBVIOUS
<1>1. IsWellFoundedOn(StrictSubsetOrdering(S), FiniteSubsetsOf(S))
  BY FS_StrictSubsetOrderingWellFounded
<1>2. Wrong \subseteq FiniteSubsetsOf(S)
  BY FS_FiniteSubsetsOfFinite
<1>3. PICK s \in Wrong : \A t \in Wrong : ~ (<<t, s>> \in StrictSubsetOrdering(S))
  <2> HIDE DEF Wrong
  <2> QED BY <1>1, <1>2, WFMin
<1>4. s # {}
  BY SumEmpty DEF Recursion
<1>5. PICK a \in s : a = CHOOSE x \in s : TRUE
  BY <1>4
<1>6. s \ {a} \notin Wrong
  <2>1. <<s \ {a}, s>> \in StrictSubsetOrdering(S)
    BY <1>3, <1>5 DEF StrictSubsetOrdering
  <2>2. QED BY <2>1, <1>3
<1>7. g[s \ {a}] = Sum(f, s \ {a})
  BY <1>6
<1>8. g[s] = f[a] + g[s \ {a}]
  BY <1>4, <1>5 DEF Recursion
<1>9. Sum(f, s) = f[a] + Sum(f, s \ {a})
  BY SumRemove, FS_Subset
<1>10. QED BY <1>7, <1>8, <1>9

-----------------------------------------------------------------------------
(* The vault *)

\* What the vault owes each user.
Held == [u \in Users |-> collateral[u] + locked[u]]

LEMMA OwedIsSum ==
    ASSUME Vault!TypeOK
    PROVE  Vault!Owed = Sum(Held, Users)
<1> DEFINE f == Held
           Follows(g) ==
             g = [s \in SUBSET Users |->
                   IF s = {} THEN 0
                   ELSE collateral[CHOOSE x \in s : TRUE] + locked[CHOOSE x \in s : TRUE] + g[s \ {CHOOSE x \in s : TRUE}]]
<1>1. Vault!Owed = (CHOOSE g : Follows(g))[Users]
  BY DEF Vault!Owed, Vault!MapThenSumSet, Vault!MapThenFoldSet
<1>2. \A x \in Users : f[x] \in Nat
  BY DEF Vault!TypeOK, Held
<1>3. \A g : Follows(g) <=> Recursion(f, Users, g)
  BY DEF Recursion, Held
<1>4. \E g : Follows(g)
  <2>1. \E g : Recursion(f, Users, g)
    <3> HIDE DEF f
    <3> QED BY <1>2, RecursionExists, UsersAssumption
  <2> HIDE DEF f, Follows
  <2>2. QED BY <2>1, <1>3
<1>5. Recursion(f, Users, CHOOSE g : Follows(g))
  BY <1>3, <1>4
<1>6. QED BY <1>1, <1>2, <1>5, RecursionIsSum, UsersAssumption


LEMMA OwedIsSumNext ==
    (Vault!TypeOK => Vault!Owed = Sum(Held, Users))'
<1>1. Vault!TypeOK => Vault!Owed = Sum(Held, Users)
  BY OwedIsSum
<1>2. QED BY <1>1, PTL


\* What the vault holds beyond what it owes.
Kept == vaultBalance - Vault!Owed

LEMMA OwedNat == (Vault!TypeOK => Vault!Owed \in Nat)
<1> SUFFICES ASSUME Vault!TypeOK PROVE Vault!Owed \in Nat
  OBVIOUS
<1>1. \A u \in Users : Held[u] \in Nat
  BY DEF Held, Vault!TypeOK
<1>2. Sum(Held, Users) \in Nat
  BY <1>1, UsersAssumption, SumNat
<1>3. QED BY <1>2, OwedIsSum

LEMMA OwedNatNext == (Vault!TypeOK => Vault!Owed \in Nat)'
<1>1. Vault!TypeOK => Vault!Owed \in Nat
  BY OwedNat
<1>2. QED BY <1>1, PTL

\* Books that lose, for every user, what leaves the vault or more.
LEMMA BooksShrink ==
    ASSUME Vault!TypeOK, Vault!TypeOK', vaultBalance' = vaultBalance,
           \A u \in Users : collateral'[u] + locked'[u] <= collateral[u] + locked[u]
    PROVE  Kept' >= Kept
<1> DEFINE f == Held
           g == [u \in Users |-> collateral'[u] + locked'[u]]
<1>1. Held' = g
  BY DEF Held
<1>2. Vault!Owed = Sum(f, Users) /\ Vault!Owed' = Sum(g, Users)
  <2>1. Sum(Held, Users)' = Sum(g, Users)
    BY <1>1 DEF Sum, Units
  <2>2. QED BY <2>1, OwedIsSum, OwedIsSumNext
<1>3. \A u \in Users : f[u] \in Nat /\ g[u] \in Nat /\ g[u] <= f[u]
  BY DEF Held, Vault!TypeOK
<1>4. Sum(g, Users) <= Sum(f, Users)
  <2> HIDE DEF f, g
  <2> QED BY <1>3, UsersAssumption, SumAtMost
<1>5. Vault!Owed \in Nat /\ Vault!Owed' \in Nat
  BY OwedNat, OwedNatNext
<1>6. vaultBalance \in Nat
  BY DEF Vault!TypeOK
<1>7. QED BY <1>2, <1>4, <1>5, <1>6 DEF Kept

\* Money that enters or leaves the vault is booked to one user.
LEMMA BooksMove ==
    ASSUME Vault!TypeOK, Vault!TypeOK', NEW user \in Users, NEW amount \in Int,
           vaultBalance' = vaultBalance + amount,
           collateral'[user] + locked'[user] = collateral[user] + locked[user] + amount,
           \A u \in Users : u # user =>
               collateral'[u] = collateral[u] /\ locked'[u] = locked[u]
    PROVE  Kept' = Kept
<1> DEFINE f == Held
           g == [u \in Users |-> collateral'[u] + locked'[u]]
<1>1. Held' = g
  BY DEF Held
<1>2. Vault!Owed = Sum(f, Users) /\ Vault!Owed' = Sum(g, Users)
  <2>1. Sum(Held, Users)' = Sum(g, Users)
    BY <1>1 DEF Sum, Units
  <2>2. QED BY <2>1, OwedIsSum, OwedIsSumNext
<1>3. \A u \in Users : f[u] \in Nat /\ g[u] \in Nat
  BY DEF Held, Vault!TypeOK
<1>4. g[user] = f[user] + amount
  BY DEF Held
<1>5. \A u \in Users : u # user => f[u] = g[u]
  BY DEF Held
<1>6. Sum(g, Users) = Sum(f, Users) + amount
  <2> HIDE DEF f, g
  <2> QED BY <1>3, <1>4, <1>5, UsersAssumption, SumChange
<1>7. Sum(f, Users) \in Nat
  <2> HIDE DEF f
  <2> QED BY <1>3, UsersAssumption, SumNat
<1>9. vaultBalance \in Nat
  BY DEF Vault!TypeOK
<1>10. QED BY <1>2, <1>6, <1>7, <1>9 DEF Kept

\* Compensating a pool never locks more.
LEMMA CompensatedLess ==
    ASSUME NEW balance \in Nat, NEW amount \in Nat
    PROVE  Vault!Compensated(balance, amount) <= balance
BY DEF Vault!Compensated, Vault!Lesser

\* What defaults take from the locked collateral stays in the vault.
LEMMA PenaliseKeeps ==
    ASSUME TypeInv, TypeInv', NEW p \in PoolIds, NEW defaulters, Penalise(p, defaulters)
    PROVE  Kept' >= Kept
<1>1. Vault!TypeOK /\ Vault!TypeOK' /\ config[p].contributionAmount \in Nat
  BY DEF TypeInv, TypeOK, PoolConfig
<1>2. \A u \in Users : locked[u] \in Nat /\ locked'[u] \in Nat
                       /\ collateral[u] \in Nat /\ locked'[u] <= locked[u]
  BY <1>1, CompensatedLess DEF Penalise, Vault!TypeOK
<1>3. collateral' = collateral /\ vaultBalance' = vaultBalance
  BY DEF Penalise
<1>4. \A u \in Users : collateral'[u] + locked'[u] <= collateral[u] + locked[u]
  BY <1>2, <1>3
<1>5. QED BY <1>1, <1>3, <1>4, BooksShrink

\* Locking moves money between the two books of one user.
LEMMA LockKeeps ==
    ASSUME Vault!TypeOK, Vault!TypeOK', NEW user \in Users, NEW amount \in Int,
           Vault!LockCollateral(user, amount)
    PROVE  Kept' >= Kept
<1>1. \A u \in Users : collateral'[u] + locked'[u] <= collateral[u] + locked[u]
  BY DEF Vault!LockCollateral, Vault!TypeOK
<1>2. QED BY <1>1, BooksShrink DEF Vault!LockCollateral

\* The calls that any account may make.
LEMMA VaultCallKeeps == ASSUME Vault!TypeOK, Vault!TypeOK', Vault!Next PROVE Kept' >= Kept
<1> USE DEF Vault!TypeOK
<1>1. PICK user \in Users, amount \in Amounts :
        \/ Vault!DepositCollateral(user, amount)
        \/ Vault!SlashCollateral(user, amount)
        \/ Vault!LockCollateral(user, amount)
        \/ Vault!SlashLocked(user, amount)
        \/ Vault!CompensatePool(user, amount)
        \/ Vault!ReleaseCollateral(user, amount)
  BY DEF Vault!Next
<1>2. amount \in Nat /\ Kept \in Int
  BY EqubAssumption, OwedNat DEF Kept
<1>3. CASE Vault!DepositCollateral(user, amount)
  <2>1. Kept' = Kept
    BY <1>2, <1>3, BooksMove DEF Vault!DepositCollateral
  <2>2. QED BY <1>2, <2>1
<1>4. CASE Vault!SlashCollateral(user, amount)
  <2>1. \A u \in Users : collateral'[u] + locked'[u] <= collateral[u] + locked[u]
    BY <1>2, <1>4 DEF Vault!SlashCollateral, Vault!Lesser
  <2>2. QED BY <1>4, <2>1, BooksShrink DEF Vault!SlashCollateral
<1>5. CASE Vault!LockCollateral(user, amount)
  BY <1>2, <1>5, LockKeeps
<1>6. CASE Vault!SlashLocked(user, amount)
  <2>1. \A u \in Users : collateral'[u] + locked'[u] <= collateral[u] + locked[u]
    BY <1>2, <1>6 DEF Vault!SlashLocked, Vault!Lesser
  <2>2. QED BY <1>6, <2>1, BooksShrink DEF Vault!SlashLocked
<1>7. CASE Vault!CompensatePool(user, amount)
  <2>1. \A u \in Users : collateral'[u] + locked'[u] <= collateral[u] + locked[u]
    BY <1>2, <1>7 DEF Vault!CompensatePool, Vault!Compensated, Vault!Lesser
  <2>2. QED BY <1>7, <2>1, BooksShrink DEF Vault!CompensatePool
<1>8. CASE Vault!ReleaseCollateral(user, amount)
  <2>1. Kept' = Kept
    <3>1. -amount \in Int /\ vaultBalance' = vaultBalance + (-amount)
      BY <1>2, <1>8 DEF Vault!ReleaseCollateral
    <3>2. collateral'[user] + locked'[user] = collateral[user] + locked[user] + (-amount)
      BY <1>2, <1>8 DEF Vault!ReleaseCollateral
    <3>3. \A u \in Users : u # user => collateral'[u] = collateral[u] /\ locked'[u] = locked[u]
      BY <1>8 DEF Vault!ReleaseCollateral
    <3>4. QED BY <3>1, <3>2, <3>3, BooksMove
  <2>2. QED BY <1>2, <2>1
<1>9. QED BY <1>1, <1>3, <1>4, <1>5, <1>6, <1>7, <1>8

\* Only Penalise, lockPartialCollateral and the vault's own functions touch it.
LEMMA StepKeeps == TypeInv /\ TypeInv' /\ [Next]_vars => Kept' >= Kept
<1> SUFFICES ASSUME TypeInv, TypeInv', [Next]_vars PROVE Kept' >= Kept
  OBVIOUS
<1>1. Vault!TypeOK /\ Vault!TypeOK'
  BY DEF TypeInv, TypeOK
<1>2. CASE UNCHANGED vaultVars
  BY <1>1, <1>2, BooksShrink DEF vaultVars, Vault!TypeOK
<1>3. CASE \E p \in PoolIds, defaulters \in SUBSET Users : Penalise(p, defaulters)
  BY <1>3, PenaliseKeeps
<1>4. CASE \E p \in PoolIds, u \in Users : LockPartialCollateral(p, u)
  <2>1. PICK p \in PoolIds, u \in Users : LockPartialCollateral(p, u)
    BY <1>4
  <2>2. PICK required : /\ Vault!LockCollateral(u, required)
                        /\ required = ((streams[p][u].total - streams[p][u].released)
                            * tierConfig[config[p].tier].collateralRateBps) \div 10000
    BY <2>1 DEF LockPartialCollateral
  <2>3. required \in Int
    <3>1. streams[p][u].total - streams[p][u].released \in Int
      BY DEF TypeInv, TypeOK, Stream!StreamTypeOK, Stream!Stream
    <3>2. tierConfig[config[p].tier].collateralRateBps \in Int
      BY DEF TypeInv, TypeOK, TierConfig, PoolConfig
    <3>3. QED BY <2>2, <3>1, <3>2, Z3
  <2>4. QED BY <1>1, <2>2, <2>3, LockKeeps
<1>5. CASE VaultCall
  BY <1>1, <1>5, VaultCallKeeps DEF VaultCall
<1>6. CASE UNCHANGED vars
  BY <1>2, <1>6 DEF vars
<1>7. ASSUME NEW u \in Users, NEW p \in PoolIds
      PROVE  /\ JoinPool(u, p) => UNCHANGED vaultVars
             /\ Contribute(u, p) => UNCHANGED vaultVars
             /\ CloseRound(u, p) => Penalise(p, Defaulters(p)) /\ Defaulters(p) \in SUBSET Users
             /\ \A member \in Users : TriggerDefault(u, p, member) => Penalise(p, {member})
             /\ \A beneficiary \in Users, total \in Totals, percent \in Percents,
                   rounds \in RoundCounts :
                     SchedulePayoutStream(u, p, beneficiary, total, percent, rounds)
                        => UNCHANGED vaultVars
  BY DEF JoinPool, Contribute, CloseRound, TriggerDefault, SchedulePayoutStream, Defaulters, TypeInv, TypeOK
<1>8. ASSUME NEW u \in Users, NEW p \in PoolIds,
             \/ JoinPool(u, p)
             \/ Contribute(u, p)
             \/ CloseRound(u, p)
             \/ LockPartialCollateral(p, u)
             \/ \E member \in Users : TriggerDefault(u, p, member)
             \/ \E beneficiary \in Users, total \in Totals, percent \in Percents,
                   rounds \in RoundCounts :
                     SchedulePayoutStream(u, p, beneficiary, total, percent, rounds)
      PROVE  Kept' >= Kept
  <2>1. CASE UNCHANGED vaultVars
    BY <1>2, <2>1
  <2>2. CASE \E defaulters \in SUBSET Users : Penalise(p, defaulters)
    BY <1>3, <2>2
  <2>3. CASE LockPartialCollateral(p, u)
    BY <1>4, <2>3
  <2>4. CASE JoinPool(u, p) \/ Contribute(u, p)
    BY <1>7, <2>1, <2>4
  <2>5. CASE CloseRound(u, p)
    BY <1>7, <2>2, <2>5
  <2>6. CASE \E member \in Users : TriggerDefault(u, p, member)
    <3>1. PICK member \in Users : TriggerDefault(u, p, member)
      BY <2>6
    <3>2. Penalise(p, {member}) /\ {member} \in SUBSET Users
      BY <1>7, <3>1
    <3>3. QED BY <2>2, <3>2
  <2>7. CASE \E beneficiary \in Users, total \in Totals, percent \in Percents,
                rounds \in RoundCounts :
                  SchedulePayoutStream(u, p, beneficiary, total, percent, rounds)
    <3>1. UNCHANGED vaultVars
      BY <1>7, <2>7
    <3>2. QED BY <2>1, <3>1
  <2>8. QED BY <1>8, <2>3, <2>4, <2>5, <2>6, <2>7
<1>9. ASSUME \/ \E u \in Users : BindIdentity(u)
             \/ \E tier \in Tiers, tierSettings \in TierConfigs :
                    ConfigureTier(tier, tierSettings)
             \/ \E caller \in Users, tier \in Tiers, contribution \in Contributions,
                  size \in Sizes, token \in Tokens :
                    CreatePool(caller, tier, contribution, size, token)
             \/ SetEqubPool
      PROVE  Kept' >= Kept
  BY <1>2, <1>9 DEF BindIdentity, ConfigureTier, CreatePool, SetEqubPool
<1>10. QED
  BY <1>5, <1>6, <1>8, <1>9 DEF Next

LEMMA InitKept == Init => Kept >= 0
<1> SUFFICES ASSUME Init PROVE Kept >= 0
  OBVIOUS
<1>1. Vault!TypeOK /\ \A u \in Users : Held[u] = 0
  BY DEF Init, Vault!Init, Vault!TypeOK, Held
<1>2. Units(Held, Users) = {}
  BY <1>1 DEF Units
<1>3. Vault!Owed = 0
  BY <1>1, <1>2, OwedIsSum, FS_EmptySet DEF Sum
<1>4. QED BY <1>3 DEF Kept, Init, Vault!Init

\* No order of deposits, locks, defaults in any pool, slashes and releases
\* leaves the vault owing more than it holds.
THEOREM AlwaysSolvent == Spec => []VaultSolvent
<1>1. Init => TypeInv /\ Kept >= 0
  BY InitTypeInv, InitKept
<1>2. TypeInv /\ Kept >= 0 /\ [Next]_vars => TypeInv' /\ (Kept >= 0)'
  <2> SUFFICES ASSUME TypeInv, Kept >= 0, [Next]_vars
               PROVE  TypeInv' /\ (Kept >= 0)'
    OBVIOUS
  <2>1. TypeInv'
    BY NextTypeInv
  <2>2. Kept' >= Kept
    BY <2>1, StepKeeps
  <2>3. Kept \in Int /\ Kept' \in Int
    BY <2>1, OwedNat, OwedNatNext DEF Kept, TypeInv, TypeOK, Vault!TypeOK
  <2>4. QED BY <2>1, <2>2, <2>3
<1>3. TypeInv /\ Kept >= 0 => VaultSolvent
  BY OwedNat DEF Kept, TypeInv, TypeOK, Vault!TypeOK, VaultSolvent, Vault!Solvent
<1>4. QED BY <1>1, <1>2, <1>3, PTL DEF Spec

\* The surplus of the vault never shrinks: releaseCollateral pays out of the
\* books of the user, and what was slashed or compensated is paid to nobody.
THEOREM NothingTakenIsPaid == Spec => TakenStaysInVault
<1>1. TypeInv /\ [Next]_vars => [vaultBalance' - Vault!Owed' >= vaultBalance - Vault!Owed]_vars
  BY NextTypeInv, StepKeeps DEF Kept
<1>2. QED BY <1>1, InitTypeInv, NextTypeInv, PTL DEF Spec, TakenStaysInVault
-----------------------------------------------------------------------------
(* Contributions and credit *)

\* A pool that createPool has not made yet lets nobody in, so nobody paid it;
\* whoever paid a pool is a member of it; a pool has finitely many payments.
PaymentsInv ==
    \A p \in PoolIds :
        /\ p > poolCount => config[p].maxMembers = 0 /\ members[p] = {}
        /\ \A r \in Nat, u \in Users : <<r, u>> \in contributed[p] => u \in members[p]
        /\ IsFiniteSet(contributed[p])

\* Payments are booked by contribute alone.
LEMMA BookingSteps ==
    ASSUME TypeInv, [Next]_vars
    PROVE  \/ UNCHANGED <<poolCount, config, contributed, custody>>
           \/ \E p \in PoolIds, u \in Users : Contribute(u, p)
           \/ \E caller \in Users, tier \in Tiers, contribution \in Contributions,
                 size \in Sizes, token \in Tokens :
                    CreatePool(caller, tier, contribution, size, token)
<1>1. ASSUME NEW p \in PoolIds, NEW u \in Users, JoinPool(u, p) \/ LockPartialCollateral(p, u)
      PROVE  UNCHANGED <<poolCount, config, contributed, custody>>
  BY <1>1 DEF JoinPool, LockPartialCollateral
<1>2. ASSUME NEW p \in PoolIds, NEW u \in Users, CloseRound(u, p)
      PROVE  UNCHANGED <<poolCount, config, contributed, custody>>
  BY <1>2 DEF CloseRound
<1>3. ASSUME NEW p \in PoolIds, NEW u \in Users, NEW member \in Users,
             TriggerDefault(u, p, member)
      PROVE  UNCHANGED <<poolCount, config, contributed, custody>>
  BY <1>3 DEF TriggerDefault
<1>4. ASSUME NEW p \in PoolIds, NEW caller, NEW beneficiary, NEW total, NEW percent,
             NEW rounds, SchedulePayoutStream(caller, p, beneficiary, total, percent, rounds)
      PROVE  UNCHANGED <<poolCount, config, contributed, custody>>
  BY <1>4 DEF SchedulePayoutStream
<1>5. ASSUME \/ \E v \in Users : BindIdentity(v)
             \/ \E tier \in Tiers, tierSettings \in TierConfigs :
                    ConfigureTier(tier, tierSettings)
             \/ SetEqubPool \/ VaultCall \/ UNCHANGED vars
      PROVE  UNCHANGED <<poolCount, config, contributed, custody>>
  BY <1>5 DEF BindIdentity, ConfigureTier, SetEqubPool, VaultCall, vars
<1>6. QED BY <1>1, <1>2, <1>3, <1>4, <1>5 DEF Next

\* Only joinPool adds members; nobody leaves.
LEMMA JoiningSteps ==
    ASSUME TypeInv, [Next]_vars
    PROVE  \/ UNCHANGED members
           \/ /\ \E p \in PoolIds, u \in Users : JoinPool(u, p)
              /\ UNCHANGED <<poolCount, config, contributed>>
<1>1. ASSUME NEW p \in PoolIds, NEW u \in Users, Contribute(u, p) \/ LockPartialCollateral(p, u)
      PROVE  UNCHANGED members
  BY <1>1 DEF Contribute, LockPartialCollateral, rotationVars
<1>2. ASSUME NEW p \in PoolIds, NEW u \in Users, CloseRound(u, p) PROVE UNCHANGED members
  BY <1>2 DEF CloseRound
<1>3. ASSUME NEW p \in PoolIds, NEW u \in Users, NEW member \in Users,
             TriggerDefault(u, p, member)
      PROVE  UNCHANGED members
  BY <1>3 DEF TriggerDefault
<1>4. ASSUME NEW p \in PoolIds, NEW caller, NEW beneficiary, NEW total, NEW percent,
             NEW rounds, SchedulePayoutStream(caller, p, beneficiary, total, percent, rounds)
      PROVE  UNCHANGED members
  BY <1>4 DEF SchedulePayoutStream, rotationVars
<1>5. ASSUME \/ \E v \in Users : BindIdentity(v)
             \/ \E tier \in Tiers, tierSettings \in TierConfigs :
                    ConfigureTier(tier, tierSettings)
             \/ \E caller \in Users, tier \in Tiers, contribution \in Contributions,
                   size \in Sizes, token \in Tokens :
                      CreatePool(caller, tier, contribution, size, token)
             \/ SetEqubPool \/ VaultCall \/ UNCHANGED vars
      PROVE  UNCHANGED members
  BY <1>5 DEF BindIdentity, ConfigureTier, CreatePool, SetEqubPool, VaultCall, vars, rotationVars
<1>6. ASSUME NEW p \in PoolIds, NEW u \in Users, JoinPool(u, p)
      PROVE  UNCHANGED <<poolCount, config, contributed>>
  BY <1>6 DEF JoinPool
<1>7. QED BY <1>1, <1>2, <1>3, <1>4, <1>5, <1>6 DEF Next

LEMMA NextPaymentsInv == TypeInv /\ PaymentsInv /\ [Next]_vars => PaymentsInv'
<1> SUFFICES ASSUME TypeInv, PaymentsInv, [Next]_vars, NEW q \in PoolIds
             PROVE  /\ q > poolCount' => config'[q].maxMembers = 0 /\ members'[q] = {}
                    /\ \A r \in Nat, u \in Users : <<r, u>> \in contributed'[q] => u \in members'[q]
                    /\ IsFiniteSet(contributed'[q])
  BY DEF PaymentsInv
<1> USE DEF TypeInv, TypeOK
<1>1. /\ q > poolCount => config[q].maxMembers = 0 /\ members[q] = {}
      /\ \A r \in Nat, u \in Users : <<r, u>> \in contributed[q] => u \in members[q]
      /\ IsFiniteSet(contributed[q])
  BY DEF PaymentsInv
<1>2. ASSUME NEW p \in PoolIds, NEW u \in Users, JoinPool(u, p),
             UNCHANGED <<poolCount, config, contributed>>
      PROVE  /\ q > poolCount' => config'[q].maxMembers = 0 /\ members'[q] = {}
             /\ \A r \in Nat, v \in Users : <<r, v>> \in contributed'[q] => v \in members'[q]
             /\ IsFiniteSet(contributed'[q])
  <2>1. members' = [members EXCEPT ![p] = @ \cup {u}]
    BY <1>2 DEF JoinPool
  <2>2. q > poolCount => q # p
    <3> SUFFICES ASSUME q > poolCount, q = p PROVE FALSE
      OBVIOUS
    <3>1. Cardinality(members[q]) < config[q].maxMembers
      BY <1>2 DEF JoinPool
    <3>2. Cardinality({}) = 0
      BY FS_EmptySet
    <3>3. members[q] = {} /\ config[q].maxMembers = 0
      BY <1>1
    <3>4. Cardinality({}) < 0
      BY <3>1, <3>3
    <3>5. QED BY <3>2, <3>4
  <2>3. QED BY <1>1, <1>2, <2>1, <2>2
<1>3. ASSUME NEW p \in PoolIds, NEW u \in Users, Contribute(u, p)
      PROVE  /\ q > poolCount' => config'[q].maxMembers = 0 /\ members'[q] = {}
             /\ \A r \in Nat, v \in Users : <<r, v>> \in contributed'[q] => v \in members'[q]
             /\ IsFiniteSet(contributed'[q])
  <2>1. /\ u \in members[p]
        /\ UNCHANGED <<poolCount, config, members>>
        /\ contributed' = [contributed EXCEPT ![p] = @ \cup {<<currentRound[p], u>>}]
    BY <1>3 DEF Contribute, rotationVars
  <2>2. IsFiniteSet(contributed[q] \cup {<<currentRound[p], u>>})
    BY <1>1, FS_AddElement
  <2>3. QED BY <1>1, <2>1, <2>2
<1>4. ASSUME NEW caller \in Users, NEW tier \in Tiers, NEW contribution \in Contributions,
             NEW size \in Sizes, NEW token \in Tokens,
             CreatePool(caller, tier, contribution, size, token)
      PROVE  /\ q > poolCount' => config'[q].maxMembers = 0 /\ members'[q] = {}
             /\ \A r \in Nat, v \in Users : <<r, v>> \in contributed'[q] => v \in members'[q]
             /\ IsFiniteSet(contributed'[q])
  <2>1. /\ poolCount' = poolCount + 1 /\ UNCHANGED <<members, contributed>>
        /\ q # poolCount + 1 => config'[q] = config[q]
    BY <1>4 DEF CreatePool
  <2>2. q > poolCount' => q > poolCount /\ q # poolCount + 1
    BY <2>1 DEF PoolIds
  <2>3. QED BY <1>1, <2>1, <2>2
<1>5. QED BY <1>1, <1>2, <1>3, <1>4, BookingSteps, JoiningSteps

LEMMA InitPaymentsInv == Init => PaymentsInv
BY FS_EmptySet DEF Init, PaymentsInv, NoConfig

\* What pool p brought in of token t.
PaidIn(t) == [p \in PoolIds |-> IF config[p].token = t THEN Paid(p) ELSE 0]

LEMMA PoolsFinite == IsFiniteSet(PoolIds)
BY FS_Interval, EqubAssumption DEF PoolIds

LEMMA PaidNat ==
    (TypeInv /\ PaymentsInv => \A p \in PoolIds : Paid(p) \in Nat /\ Cardinality(contributed[p]) \in Nat)
<1> SUFFICES ASSUME TypeInv, PaymentsInv, NEW p \in PoolIds
             PROVE  Paid(p) \in Nat /\ Cardinality(contributed[p]) \in Nat
  OBVIOUS
<1>1. Cardinality(contributed[p]) \in Nat
  BY FS_CardinalityType DEF PaymentsInv
<1>2. config[p].contributionAmount \in Nat
  BY DEF TypeInv, TypeOK, PoolConfig
<1>3. QED BY <1>1, <1>2, Z3 DEF Paid

LEMMA PaidNatNext == (TypeInv /\ PaymentsInv => \A p \in PoolIds : Paid(p) \in Nat /\ Cardinality(contributed[p]) \in Nat)'
<1>1. TypeInv /\ PaymentsInv => \A p \in PoolIds : Paid(p) \in Nat /\ Cardinality(contributed[p]) \in Nat
  BY PaidNat
<1>2. QED BY <1>1, PTL

\* The sum over the pools in one token, as a sum over all the pools.
LEMMA PaidIsSum ==
    ASSUME TypeInv, PaymentsInv, NEW t \in Tokens
    PROVE  MapThenSumSet(Paid, {p \in PoolIds : config[p].token = t}) = Sum(PaidIn(t), PoolIds)
<1> DEFINE S == {p \in PoolIds : config[p].token = t}
           f == [p \in S |-> Paid(p)]
           Follows(g) ==
               g = [s \in SUBSET S |->
                       IF s = {} THEN 0
                       ELSE Paid(CHOOSE x \in s : TRUE) + g[s \ {CHOOSE x \in s : TRUE}]]
<1>1. MapThenSumSet(Paid, S) = (CHOOSE g : Follows(g))[S]
  BY DEF MapThenSumSet, MapThenFoldSet
<1>2. (\A p \in S : f[p] \in Nat) /\ IsFiniteSet(S)
  BY PaidNat, PoolsFinite, FS_Subset
<1>3. \A g : Follows(g) <=> Recursion(f, S, g)
  BY DEF Recursion
<1>4. \E g : Recursion(f, S, g)
  <2> HIDE DEF f, S
  <2> QED BY <1>2, RecursionExists
<1>5. Recursion(f, S, CHOOSE g : Follows(g))
  <2> HIDE DEF f, S, Follows
  <2> QED BY <1>3, <1>4
<1>6. MapThenSumSet(Paid, S) = Sum(f, S)
  <2> HIDE DEF f, S, Follows
  <2> QED BY <1>1, <1>2, <1>5, RecursionIsSum
<1>7. Units(f, S) = Units(PaidIn(t), PoolIds)
  BY DEF Units, PaidIn
<1>8. QED BY <1>6, <1>7 DEF Sum

\* CustodyIsContributions, with the sum as a function of the pools.
CustodyBooked == \A t \in Tokens : custody[t] = Sum(PaidIn(t), PoolIds)

\* contribute adds one payment to one pool and its amount to the token of that
\* pool; createPool changes the configuration only of a pool nobody paid.
LEMMA NextCustodyBooked ==
    TypeInv /\ PaymentsInv /\ PaymentsInv' /\ TypeInv' /\ CustodyBooked /\ [Next]_vars => CustodyBooked'
<1> SUFFICES ASSUME TypeInv, PaymentsInv, PaymentsInv', TypeInv', CustodyBooked, [Next]_vars,
                    NEW t \in Tokens
             PROVE  custody'[t] = Sum(PaidIn(t), PoolIds)'
  BY DEF CustodyBooked
<1> DEFINE f == PaidIn(t)
           g == PaidIn(t)'
<1>1. custody[t] = Sum(f, PoolIds)
  BY DEF CustodyBooked
<1>2. Sum(PaidIn(t), PoolIds)' = Sum(g, PoolIds)
  BY DEF Sum, Units, PoolIds
<1>3. \A p \in PoolIds : f[p] \in Nat /\ g[p] \in Nat
  BY PaidNat, PaidNatNext DEF PaidIn
<1>4. CASE \E p \in PoolIds, u \in Users : Contribute(u, p)
  <2>1. PICK p \in PoolIds, u \in Users : Contribute(u, p)
    BY <1>4
  <2>2. /\ config' = config
        /\ contributed' = [contributed EXCEPT ![p] = @ \cup {<<currentRound[p], u>>}]
        /\ <<currentRound[p], u>> \notin contributed[p]
        /\ custody' = [custody EXCEPT ![config[p].token] = @ + config[p].contributionAmount]
    BY <2>1 DEF Contribute
  <2>3. config[p].contributionAmount \in Nat /\ custody \in [Tokens -> Nat]
    BY DEF TypeInv, TypeOK, PoolConfig
  <2>4. Cardinality(contributed'[p]) = Cardinality(contributed[p]) + 1
    <3>1. contributed'[p] = contributed[p] \cup {<<currentRound[p], u>>}
      BY <2>2 DEF TypeInv, TypeOK
    <3>2. IsFiniteSet(contributed[p])
      BY DEF PaymentsInv
    <3>3. QED BY <2>2, <3>1, <3>2, FS_AddElement
  <2>5. Paid(p)' = Paid(p) + config[p].contributionAmount
    <3>1. Cardinality(contributed[p]) \in Nat
      BY PaidNat
    <3> DEFINE a == config[p].contributionAmount
               n == Cardinality(contributed[p])
    <3>2. a * (n + 1) = a * n + a
      <4> HIDE DEF a, n
      <4>1. a \in Nat /\ n \in Nat
        BY <2>3, <3>1 DEF a, n
      <4>2. QED BY <4>1, Z3
    <3>3. QED BY <2>2, <2>4, <3>2 DEF Paid
  <2>6. \A q \in PoolIds : q # p => f[q] = g[q]
    BY <2>2 DEF PaidIn, Paid, TypeInv, TypeOK
  <2>7. CASE config[p].token = t
    <3>1. g[p] = f[p] + config[p].contributionAmount
      BY <2>2, <2>5, <2>7 DEF PaidIn
    <3>2. Sum(g, PoolIds) = Sum(f, PoolIds) + config[p].contributionAmount
      <4> HIDE DEF f, g
      <4> QED BY <1>3, <2>3, <2>6, <3>1, PoolsFinite, SumChange
    <3>3. custody'[t] = custody[t] + config[p].contributionAmount
      BY <2>2, <2>3, <2>7
    <3>4. QED BY <1>1, <1>2, <3>2, <3>3
  <2>8. CASE config[p].token # t
    <3>1. \A q \in PoolIds : f[q] = g[q]
      BY <2>2, <2>6, <2>8 DEF PaidIn
    <3>2. Sum(f, PoolIds) = Sum(g, PoolIds)
      <4> HIDE DEF f, g
      <4> QED BY <3>1, SumSame
    <3>3. custody'[t] = custody[t]
      BY <2>2, <2>3, <2>8
    <3>4. QED BY <1>1, <1>2, <3>2, <3>3
  <2>9. QED BY <2>7, <2>8
<1>5. ASSUME custody' = custody, \A p \in PoolIds : f[p] = g[p]
      PROVE  custody'[t] = Sum(PaidIn(t), PoolIds)'
  <2>1. Sum(f, PoolIds) = Sum(g, PoolIds)
    <3> HIDE DEF f, g
    <3> QED BY <1>5, SumSame
  <2>2. QED BY <1>1, <1>2, <1>5, <2>1
<1>6. CASE \E caller \in Users, tier \in Tiers, contribution \in Contributions,
              size \in Sizes, token \in Tokens :
                 CreatePool(caller, tier, contribution, size, token)
  <2>1. PICK caller \in Users, tier \in Tiers, contribution \in Contributions,
             size \in Sizes, token \in Tokens :
                CreatePool(caller, tier, contribution, size, token)
    BY <1>6
  <2>2. /\ UNCHANGED <<contributed, custody>>
        /\ \A q \in PoolIds : q # poolCount + 1 => config'[q] = config[q]
    BY <2>1 DEF CreatePool, TypeInv, TypeOK
  <2>3. ASSUME NEW p \in PoolIds PROVE f[p] = g[p]
    <3>1. CASE p # poolCount + 1
      BY <2>2, <3>1 DEF PaidIn, Paid
    <3>2. CASE p = poolCount + 1
      <4>1. members[p] = {}
        BY <3>2 DEF PaymentsInv, TypeInv, TypeOK, PoolIds
      <4>2. contributed[p] = {} /\ contributed'[p] = {}
        BY <2>2, <4>1 DEF PaymentsInv, TypeInv, TypeOK
      <4>3. Paid(p) = 0 /\ Paid(p)' = 0
        <5>1. config[p].contributionAmount \in Nat /\ config'[p].contributionAmount \in Nat
          BY DEF TypeInv, TypeOK, PoolConfig
        <5>2. QED BY <4>2, <5>1, FS_EmptySet DEF Paid
      <4>4. QED BY <4>3 DEF PaidIn
    <3>3. QED BY <3>1, <3>2
  <2>4. QED BY <1>5, <2>2, <2>3
<1>7. CASE UNCHANGED <<poolCount, config, contributed, custody>>
  BY <1>5, <1>7 DEF PaidIn, Paid
<1>8. QED BY <1>4, <1>6, <1>7, BookingSteps

LEMMA InitCustodyBooked == Init => CustodyBooked
<1> SUFFICES ASSUME Init, NEW t \in Tokens PROVE custody[t] = Sum(PaidIn(t), PoolIds)
  BY DEF CustodyBooked
<1>1. \A p \in PoolIds : PaidIn(t)[p] = 0
  BY FS_EmptySet DEF Init, PaidIn, Paid, NoConfig
<1>2. Units(PaidIn(t), PoolIds) = {}
  BY <1>1 DEF Units
<1>3. QED BY <1>2, FS_EmptySet DEF Sum, Init

\* The contract holds of every token what the members of the pools in it have
\* contributed, whichever pools share it.
THEOREM CustodyAccounted == Spec => []CustodyIsContributions
<1>1. TypeInv /\ PaymentsInv /\ CustodyBooked => CustodyIsContributions
  BY PaidIsSum DEF CustodyBooked, CustodyIsContributions
<1>2. QED
  BY <1>1, InitTypeInv, NextTypeInv, InitPaymentsInv, NextPaymentsInv, InitCustodyBooked,
     NextCustodyBooked, PTL DEF Spec

\* The closed rounds of p that u paid, in each pool.
PaidRounds(p, u) == {r \in 1 .. lastClosedRound[p] : <<r, u>> \in contributed[p]}
RoundsOf(u) == [p \in PoolIds |-> RoundsPaidBy(p, u)]

LEMMA PaidRoundsFinite ==
    (TypeInv => \A p \in PoolIds, u \in Users :
                   /\ IsFiniteSet(PaidRounds(p, u))
                   /\ RoundsPaidBy(p, u) = Cardinality(PaidRounds(p, u))
                   /\ RoundsPaidBy(p, u) \in Nat)
<1> SUFFICES ASSUME TypeInv, NEW p \in PoolIds, NEW u \in Users
             PROVE  /\ IsFiniteSet(PaidRounds(p, u))
                    /\ RoundsPaidBy(p, u) = Cardinality(PaidRounds(p, u))
                    /\ RoundsPaidBy(p, u) \in Nat
  OBVIOUS
<1>1. IsFiniteSet(1 .. lastClosedRound[p])
  BY FS_Interval DEF TypeInv, TypeOK
<1>2. IsFiniteSet(PaidRounds(p, u))
  BY <1>1, FS_Subset DEF PaidRounds
<1>3. QED BY <1>2, FS_CardinalityType DEF RoundsPaidBy, PaidRounds

LEMMA PaidRoundsFiniteNext ==
    (TypeInv => \A p \in PoolIds, u \in Users :
                   /\ IsFiniteSet(PaidRounds(p, u))
                   /\ RoundsPaidBy(p, u) = Cardinality(PaidRounds(p, u))
                   /\ RoundsPaidBy(p, u) \in Nat)'
<1>1. TypeInv => \A p \in PoolIds, u \in Users :
                   /\ IsFiniteSet(PaidRounds(p, u))
                   /\ RoundsPaidBy(p, u) = Cardinality(PaidRounds(p, u))
                   /\ RoundsPaidBy(p, u) \in Nat
  BY PaidRoundsFinite
<1>2. QED BY <1>1, PTL

\* The sum RoundsPaid takes, as a function of the pools.
LEMMA RoundsPaidIsSum ==
    ASSUME TypeInv, NEW u \in Users
    PROVE  RoundsPaid(u) = Sum(RoundsOf(u), PoolIds)
<1> DEFINE f == RoundsOf(u)
           Follows(g) ==
               g = [s \in SUBSET PoolIds |->
                       IF s = {} THEN 0
                       ELSE RoundsPaidBy(CHOOSE x \in s : TRUE, u)
                                + g[s \ {CHOOSE x \in s : TRUE}]]
<1>1. RoundsPaid(u) = (CHOOSE g : Follows(g))[PoolIds]
  BY DEF RoundsPaid, MapThenSumSet, MapThenFoldSet
<1>2. (\A p \in PoolIds : f[p] \in Nat) /\ IsFiniteSet(PoolIds)
  BY PaidRoundsFinite, PoolsFinite DEF RoundsOf
<1>3. \A g : Follows(g) <=> Recursion(f, PoolIds, g)
  BY DEF Recursion, RoundsOf
<1>4. \E g : Recursion(f, PoolIds, g)
  <2> HIDE DEF f
  <2> QED BY <1>2, RecursionExists
<1>5. Recursion(f, PoolIds, CHOOSE g : Follows(g))
  <2> HIDE DEF f, Follows
  <2> QED BY <1>3, <1>4
<1>6. QED
  <2> HIDE DEF f, Follows
  <2>1. RoundsPaid(u) = Sum(f, PoolIds)
    BY <1>1, <1>2, <1>5, RecursionIsSum
  <2>2. QED BY <2>1 DEF f

\* CreditExplained, with the sum as a function of the pools.
CreditBooked ==
    \A u \in Users :
        /\ PoolsDefaulted(u) = {} => score[u] = Sum(RoundsOf(u), PoolIds)
        /\ score[u] <= Sum(RoundsOf(u), PoolIds) - 10 * Cardinality(PoolsDefaulted(u))

\* What a step does to the credit of one user when it closes no round.
LEMMA CreditStays ==
    ASSUME TypeInv, TypeInv', NEW u \in Users,
           \A p \in PoolIds : PaidRounds(p, u)' = PaidRounds(p, u)
    PROVE  Sum(RoundsOf(u), PoolIds)' = Sum(RoundsOf(u), PoolIds)
<1> DEFINE f == RoundsOf(u)
           g == RoundsOf(u)'
<1>1. \A p \in PoolIds : RoundsPaidBy(p, u)' = RoundsPaidBy(p, u)
  BY PaidRoundsFinite, PaidRoundsFiniteNext
<1>2. \A p \in PoolIds : f[p] = g[p]
  BY <1>1 DEF RoundsOf
<1>3. Sum(f, PoolIds) = Sum(g, PoolIds)
  <2> HIDE DEF f, g
  <2> QED BY <1>2, SumSame
<1>4. Sum(RoundsOf(u), PoolIds)' = Sum(g, PoolIds)
  BY DEF Sum, Units, PoolIds
<1>5. QED BY <1>3, <1>4

LEMMA DefaultedFinite ==
    ASSUME NEW u \in Users
    PROVE  /\ IsFiniteSet(PoolsDefaulted(u)) /\ Cardinality(PoolsDefaulted(u)) \in Nat
<1>1. IsFiniteSet(PoolsDefaulted(u))
  BY PoolsFinite, FS_Subset DEF PoolsDefaulted
<1>2. QED BY <1>1, FS_CardinalityType

LEMMA SumRoundsNat ==
    ASSUME TypeInv, NEW u \in Users PROVE Sum(RoundsOf(u), PoolIds) \in Nat
<1>1. \A p \in PoolIds : RoundsOf(u)[p] \in Nat
  BY PaidRoundsFinite DEF RoundsOf
<1>2. QED BY <1>1, PoolsFinite, SumNat

\* A default costs ten points and marks at most one more pool.
LEMMA DefaultBooked ==
    ASSUME TypeInv, CreditBooked, NEW u \in Users, NEW p \in PoolIds,
           score'[u] = score[u] - 10,
           PoolsDefaulted(u)' = PoolsDefaulted(u) \cup {p},
           Sum(RoundsOf(u), PoolIds)' = Sum(RoundsOf(u), PoolIds)
    PROVE  /\ PoolsDefaulted(u)' # {}
           /\ score'[u] <= Sum(RoundsOf(u), PoolIds)' - 10 * Cardinality(PoolsDefaulted(u)')
<1> DEFINE n == Cardinality(PoolsDefaulted(u))
           m == Cardinality(PoolsDefaulted(u)')
           sum == Sum(RoundsOf(u), PoolIds)
<1>1. n \in Nat /\ m <= n + 1 /\ m \in Nat
  <2>1. IsFiniteSet(PoolsDefaulted(u)) /\ n \in Nat
    BY DefaultedFinite
  <2>2. m = IF p \in PoolsDefaulted(u) THEN n ELSE n + 1
    BY <2>1, FS_AddElement
  <2>3. QED BY <2>1, <2>2
<1>2. score[u] <= sum - 10 * n /\ score[u] \in Int /\ sum \in Nat
  BY SumRoundsNat DEF CreditBooked, TypeInv, TypeOK
<1>3. score'[u] <= sum - 10 * m
  <2> HIDE DEF n, m, sum
  <2> QED BY <1>1, <1>2
<1>4. QED BY <1>3

\* Closing a round that u paid adds one paid round.
LEMMA PaidRoundCloses ==
    ASSUME TypeInv, TypeInv', NEW u \in Users, NEW p \in PoolIds, NEW round \in Nat,
           round \notin PaidRounds(p, u),
           PaidRounds(p, u)' = PaidRounds(p, u) \cup {round},
           \A q \in PoolIds : q # p => PaidRounds(q, u)' = PaidRounds(q, u)
    PROVE  Sum(RoundsOf(u), PoolIds)' = Sum(RoundsOf(u), PoolIds) + 1
<1> DEFINE f == RoundsOf(u)
           g == RoundsOf(u)'
<1>1. \A q \in PoolIds : f[q] \in Nat /\ g[q] \in Nat
  BY PaidRoundsFinite, PaidRoundsFiniteNext DEF RoundsOf
<1>2. \A q \in PoolIds : q # p => f[q] = g[q]
  BY PaidRoundsFinite, PaidRoundsFiniteNext DEF RoundsOf
<1>3. g[p] = f[p] + 1
  <2>1. IsFiniteSet(PaidRounds(p, u)) /\ f[p] = Cardinality(PaidRounds(p, u))
    BY PaidRoundsFinite DEF RoundsOf
  <2>2. g[p] = Cardinality(PaidRounds(p, u)')
    BY PaidRoundsFiniteNext DEF RoundsOf
  <2>3. QED BY <2>1, <2>2, FS_AddElement
<1>4. Sum(g, PoolIds) = Sum(f, PoolIds) + 1
  <2> DEFINE gained == 1
  <2>1. gained \in Int /\ g[p] = f[p] + gained
    BY <1>3
  <2> HIDE DEF f, g, gained
  <2>2. Sum(g, PoolIds) = Sum(f, PoolIds) + gained
    BY <1>1, <1>2, <2>1, PoolsFinite, SumChange
  <2>3. QED BY <2>2 DEF gained
<1>5. Sum(RoundsOf(u), PoolIds)' = Sum(g, PoolIds)
  BY DEF Sum, Units, PoolIds
<1>6. QED BY <1>4, <1>5

\* The steps that touch credit, or what explains it.
LEMMA CreditSteps ==
    ASSUME TypeInv, [Next]_vars
    PROVE  \/ UNCHANGED <<score, frozen, lastClosedRound, contributed>>
           \/ \E p \in PoolIds, u \in Users : Contribute(u, p)
           \/ \E p \in PoolIds, caller \in Users : CloseRound(caller, p)
           \/ \E p \in PoolIds, caller \in Users, member \in Users :
                 TriggerDefault(caller, p, member)
           \/ \E caller \in Users, tier \in Tiers, contribution \in Contributions,
                 size \in Sizes, token \in Tokens :
                    CreatePool(caller, tier, contribution, size, token)
<1>1. ASSUME NEW p \in PoolIds, NEW u \in Users, JoinPool(u, p) \/ LockPartialCollateral(p, u)
      PROVE  UNCHANGED <<score, frozen, lastClosedRound, contributed>>
  BY <1>1 DEF JoinPool, LockPartialCollateral, rotationVars
<1>2. ASSUME NEW p \in PoolIds, NEW caller, NEW beneficiary, NEW total, NEW percent,
             NEW rounds, SchedulePayoutStream(caller, p, beneficiary, total, percent, rounds)
      PROVE  UNCHANGED <<score, frozen, lastClosedRound, contributed>>
  BY <1>2 DEF SchedulePayoutStream, rotationVars
<1>3. ASSUME \/ \E v \in Users : BindIdentity(v)
             \/ \E tier \in Tiers, tierSettings \in TierConfigs :
                    ConfigureTier(tier, tierSettings)
             \/ SetEqubPool \/ VaultCall \/ UNCHANGED vars
      PROVE  UNCHANGED <<score, frozen, lastClosedRound, contributed>>
  BY <1>3 DEF BindIdentity, ConfigureTier, SetEqubPool, VaultCall, vars, rotationVars
<1>4. QED BY <1>1, <1>2, <1>3 DEF Next

\* Rounds in order make a payment count exactly once, when its round is closed.
LEMMA NextCreditBooked ==
    /\ TypeInv /\ RotationInv /\ PaymentsInv /\ CreditBooked /\ TypeInv' /\ [Next]_vars
    => CreditBooked'
<1> SUFFICES ASSUME TypeInv, RotationInv, PaymentsInv, CreditBooked, TypeInv', [Next]_vars,
                    NEW u \in Users
             PROVE  /\ PoolsDefaulted(u)' = {} => score'[u] = Sum(RoundsOf(u), PoolIds)'
                    /\ score'[u] <= Sum(RoundsOf(u), PoolIds)'
                                       - 10 * Cardinality(PoolsDefaulted(u)')
  BY DEF CreditBooked
<1> DEFINE Booked == /\ PoolsDefaulted(u)' = {} => score'[u] = Sum(RoundsOf(u), PoolIds)'
                     /\ score'[u] <= Sum(RoundsOf(u), PoolIds)'
                                        - 10 * Cardinality(PoolsDefaulted(u)')
<1>1. /\ PoolsDefaulted(u) = {} => score[u] = Sum(RoundsOf(u), PoolIds)
      /\ score[u] <= Sum(RoundsOf(u), PoolIds) - 10 * Cardinality(PoolsDefaulted(u))
  BY DEF CreditBooked
<1>2. ASSUME UNCHANGED <<score, frozen>>, \A p \in PoolIds : PaidRounds(p, u)' = PaidRounds(p, u)
      PROVE  Booked
  <2>1. Sum(RoundsOf(u), PoolIds)' = Sum(RoundsOf(u), PoolIds)
    BY <1>2, CreditStays
  <2>2. PoolsDefaulted(u)' = PoolsDefaulted(u)
    BY <1>2 DEF PoolsDefaulted
  <2>3. QED BY <1>1, <1>2, <2>1, <2>2
<1>3. CASE UNCHANGED <<score, frozen, lastClosedRound, contributed>>
  BY <1>2, <1>3 DEF PaidRounds
<1>4. ASSUME NEW p \in PoolIds, NEW payer \in Users, Contribute(payer, p) PROVE Booked
  <2>1. /\ UNCHANGED <<score, frozen, lastClosedRound>>
        /\ contributed' = [contributed EXCEPT ![p] = @ \cup {<<currentRound[p], payer>>}]
        /\ payer \in members[p]
    BY <1>4 DEF Contribute, rotationVars
  <2>2. ~(p > poolCount)
    BY <2>1 DEF PaymentsInv
  <2>3. currentRound[p] = lastClosedRound[p] + 1
    BY <2>2 DEF RotationInv, PoolsInOrder, Created
  <2>4. \A q \in PoolIds : PaidRounds(q, u)' = PaidRounds(q, u)
    BY <2>1, <2>3 DEF PaidRounds, TypeInv, TypeOK
  <2>5. QED BY <1>2, <2>1, <2>4
<1>5. ASSUME NEW caller \in Users, NEW tier \in Tiers, NEW contribution \in Contributions,
             NEW size \in Sizes, NEW token \in Tokens,
             CreatePool(caller, tier, contribution, size, token)
      PROVE  Booked
  <2>1. /\ UNCHANGED <<score, frozen, contributed>>
        /\ lastClosedRound' = [lastClosedRound EXCEPT ![poolCount + 1] = 0]
        /\ poolCount + 1 \in PoolIds /\ poolCount \in Int
    BY <1>5 DEF CreatePool, TypeInv, TypeOK, PoolIds
  <2>2. lastClosedRound[poolCount + 1] = 0
    BY <2>1 DEF RotationInv, PoolsInOrder, NotCreated
  <2>3. lastClosedRound' = lastClosedRound
    BY <2>1, <2>2 DEF TypeInv, TypeOK
  <2>4. QED BY <1>3, <2>1, <2>3
<1>6. ASSUME NEW p \in PoolIds, NEW caller \in Users, NEW member \in Users,
             TriggerDefault(caller, p, member)
      PROVE  Booked
  <2>1. /\ UNCHANGED <<lastClosedRound, contributed>>
        /\ frozen' = [frozen EXCEPT ![p] = @ \cup {member}]
        /\ score' = [score EXCEPT ![member] = @ - 10]
    BY <1>6 DEF TriggerDefault
  <2>2. \A q \in PoolIds : PaidRounds(q, u)' = PaidRounds(q, u)
    BY <2>1 DEF PaidRounds
  <2>3. Sum(RoundsOf(u), PoolIds)' = Sum(RoundsOf(u), PoolIds)
    BY <2>2, CreditStays
  <2>4. CASE u = member
    <3>1. score'[u] = score[u] - 10 /\ PoolsDefaulted(u)' = PoolsDefaulted(u) \cup {p}
      BY <2>1, <2>4 DEF PoolsDefaulted, PoolIds, TypeInv, TypeOK
    <3>2. QED BY <2>3, <3>1, DefaultBooked
  <2>5. CASE u # member
    <3>1. score'[u] = score[u] /\ PoolsDefaulted(u)' = PoolsDefaulted(u)
      BY <2>1, <2>5 DEF PoolsDefaulted, PoolIds, TypeInv, TypeOK
    <3>2. QED BY <1>1, <2>3, <3>1
  <2>6. QED BY <2>4, <2>5
<1>7. ASSUME NEW p \in PoolIds, NEW caller \in Users, CloseRound(caller, p) PROVE Booked
  <2> DEFINE round == currentRound[p]
             late == Defaulters(p)
  <2>1. /\ round = lastClosedRound[p] + 1
        /\ lastClosedRound' = [lastClosedRound EXCEPT ![p] = round]
        /\ frozen' = [frozen EXCEPT ![p] = frozen[p] \cup late]
        /\ contributed' = contributed
    BY <1>7, ClosedRoundFacts DEF RotationInv
  <2>2. score'[u] = score[u] + (IF u \in late THEN -10 ELSE IF u \in members[p] THEN 1 ELSE 0)
    BY <1>7 DEF CloseRound
  <2>3. \A q \in PoolIds : q # p => PaidRounds(q, u)' = PaidRounds(q, u)
    BY <2>1 DEF PaidRounds, TypeInv, TypeOK
  <2>4. lastClosedRound[p] \in Nat /\ round \in Nat /\ score[u] \in Int
        /\ lastClosedRound'[p] = round
    BY <2>1 DEF TypeInv, TypeOK
  <2>5. PoolsDefaulted(u)' = IF u \in late THEN PoolsDefaulted(u) \cup {p} ELSE PoolsDefaulted(u)
    BY <2>1 DEF PoolsDefaulted, PoolIds, TypeInv, TypeOK
  <2>6. ASSUME <<round, u>> \notin contributed[p]
        PROVE  Sum(RoundsOf(u), PoolIds)' = Sum(RoundsOf(u), PoolIds)
    <3>1. PaidRounds(p, u)' = PaidRounds(p, u)
      <4> HIDE DEF round
      <4> QED BY <2>1, <2>4, <2>6 DEF PaidRounds
    <3>2. QED BY <2>3, <3>1, CreditStays
  <2>7. CASE u \in late
    <3>1. <<round, u>> \notin contributed[p]
      BY <2>7 DEF Defaulters
    <3>2. score'[u] = score[u] - 10
      BY <2>2, <2>4, <2>7
    <3>3. Sum(RoundsOf(u), PoolIds)' = Sum(RoundsOf(u), PoolIds)
      BY <2>6, <3>1
    <3>4. PoolsDefaulted(u)' = PoolsDefaulted(u) \cup {p}
      BY <2>5, <2>7
    <3>5. QED BY <3>2, <3>3, <3>4, DefaultBooked
  <2>8. CASE u \notin late /\ u \in members[p]
    <3>1. <<round, u>> \in contributed[p]
      BY <2>8 DEF Defaulters
    <3>2. PaidRounds(p, u)' = PaidRounds(p, u) \cup {round} /\ round \notin PaidRounds(p, u)
      <4> HIDE DEF round
      <4> QED BY <2>1, <2>4, <3>1 DEF PaidRounds
    <3>3. Sum(RoundsOf(u), PoolIds)' = Sum(RoundsOf(u), PoolIds) + 1
      <4> HIDE DEF round
      <4> QED BY <2>3, <2>4, <3>2, PaidRoundCloses
    <3>4. score'[u] = score[u] + 1 /\ PoolsDefaulted(u)' = PoolsDefaulted(u)
      BY <2>2, <2>5, <2>8
    <3>5. Sum(RoundsOf(u), PoolIds) \in Nat /\ Cardinality(PoolsDefaulted(u)) \in Nat
      BY SumRoundsNat, DefaultedFinite
    <3>6. QED BY <1>1, <2>4, <3>3, <3>4, <3>5
  <2>9. CASE u \notin members[p]
    <3>1. <<round, u>> \notin contributed[p] /\ u \notin late
      BY <2>4, <2>9 DEF PaymentsInv, Defaulters
    <3>2. score'[u] = score[u] /\ PoolsDefaulted(u)' = PoolsDefaulted(u)
      BY <2>2, <2>4, <2>5, <2>9, <3>1
    <3>3. Sum(RoundsOf(u), PoolIds)' = Sum(RoundsOf(u), PoolIds)
      BY <2>6, <3>1
    <3>4. QED BY <1>1, <3>2, <3>3
  <2>10. QED BY <2>7, <2>8, <2>9
<1>8. QED BY <1>3, <1>4, <1>5, <1>6, <1>7, CreditSteps

LEMMA InitCreditBooked == Init => CreditBooked
<1> SUFFICES ASSUME Init, NEW u \in Users
             PROVE  /\ score[u] = Sum(RoundsOf(u), PoolIds)
                    /\ score[u] <= Sum(RoundsOf(u), PoolIds)
                                      - 10 * Cardinality(PoolsDefaulted(u))
  BY DEF CreditBooked
<1>1. PoolsDefaulted(u) = {}
  BY DEF Init, PoolsDefaulted
<1>2. \A p \in PoolIds : RoundsOf(u)[p] = 0
  <2>1. \A p \in PoolIds : PaidRounds(p, u) = {}
    BY DEF Init, PaidRounds
  <2>2. QED BY <2>1, InitTypeInv, PaidRoundsFinite, FS_EmptySet DEF RoundsOf
<1>3. Units(RoundsOf(u), PoolIds) = {}
  BY <1>2 DEF Units
<1>4. Sum(RoundsOf(u), PoolIds) = 0 /\ Cardinality(PoolsDefaulted(u)) = 0
  BY <1>1, <1>3, FS_EmptySet DEF Sum
<1>5. score[u] = 0
  BY DEF Init
<1>6. QED BY <1>4, <1>5

\* The score of an account is explained by the closed rounds it paid and the
\* pools it defaulted in, for any number of pools and rounds.
THEOREM CreditAccounted == Spec => []CreditExplained
<1>1. TypeInv /\ CreditBooked => CreditExplained
  BY RoundsPaidIsSum DEF CreditBooked, CreditExplained
<1>2. QED
  BY <1>1, InitTypeInv, NextTypeInv, InitRotationInv, NextRotationInv, InitPaymentsInv,
     NextPaymentsInv, InitCreditBooked, NextCreditBooked, PTL DEF Spec
=============================================================================
