------------------------ MODULE PoolLifecycle_proofs ------------------------
(***************************************************************************)
(* For any number of members, seasons, keys and readers: the rows keep     *)
(* their types, a round that was picked is final, one key picks one round, *)
(* and the winners of one season row differ.                               *)
(***************************************************************************)
EXTENDS PoolLifecycle, FiniteSetTheorems, TLAPS

Loaded == [at : {"loaded"}, pool : Pool, closed : BOOLEAN]
Read == [at : {"read"}, pool : Pool, closed : BOOLEAN, id : 0 .. MaxSeasons, season : Season]
Ready == [at : {"ensured"}, pool : Pool, closed : BOOLEAN, id : SeasonIds, season : Season]

TypeInv ==
    /\ TypeOK
    /\ seasons \in Seq(Season)
    /\ reader \in [Readers -> {Idle} \cup Loaded \cup Read \cup Ready]

LEMMA Constants ==
    /\ MaxMembers \in Nat /\ MaxMembers > 0 /\ MaxSeasons \in Nat /\ MaxNumber \in Nat
    /\ MaxNumber > MaxMembers /\ MaxCalls \in Nat /\ NoWallet \notin Wallets
    /\ NoRound \notin RoundIds
BY LifecycleAssumption DEF NoRound, RoundIds, SeasonIds, Numbers

LEMMA InitTypeInv == Init => TypeInv
BY Constants DEF Init, TypeInv, TypeOK, Pool, Round, Absent, Numbers

-----------------------------------------------------------------------------
(* Helpers of the service *)

LEMMA DeriveType ==
    ASSUME NEW p \in Pool
    PROVE  DeriveCompletedRounds(p.currentRound) \in 0 .. MaxMembers
BY Constants DEF DeriveCompletedRounds, Lesser, Pool, Numbers

LEMMA EnsuredType ==
    ASSUME NEW season \in Season, NEW p \in Pool
    PROVE  /\ Ensured(season, p) \in Season
           /\ Ensured(season, p).status # "completed" => Ensured(season, p).completedRounds < MaxMembers
           /\ Ensured(season, p).status = "completed" => Ensured(season, p).completedRounds = MaxMembers
<1> DEFINE completed == DeriveCompletedRounds(p.currentRound)
           status == IF completed >= MaxMembers THEN "completed" ELSE "active"
<1>1. completed \in 0 .. MaxMembers
  BY DeriveType
<1>2. status \in {"active", "completed"} /\ (status = "completed" <=> completed = MaxMembers)
  BY <1>1, Constants
<1>3. Ensured(season, p) = [season EXCEPT !.completedRounds = completed, !.status = status]
  BY DEF Ensured
<1> HIDE DEF completed, status
<1>4. /\ Ensured(season, p) \in Season
      /\ Ensured(season, p).status = status /\ Ensured(season, p).completedRounds = completed
  BY <1>1, <1>2, <1>3 DEF Season
<1> QED BY <1>1, <1>2, <1>4, Constants

LEMMA NewSeasonType == ASSUME NEW n \in Nat \ {0} PROVE NewSeason(n) \in Season
BY Constants DEF NewSeason, Season

LEMMA TableType ==
    ASSUME TypeInv
    PROVE  /\ SeasonTable \in Seq(Season) /\ Len(SeasonTable) \in Nat \ {0}
           /\ SeasonTable = seasons \/ (Len(SeasonTable) = 1 /\ Len(seasons) = 0)
<1>1. CASE seasons = <<>>
  BY <1>1, NewSeasonType DEF SeasonTable
<1>2. CASE seasons # <<>>
  BY <1>2 DEF SeasonTable, TypeInv
<1> QED BY <1>1, <1>2

LEMMA LatestType == ASSUME NEW table, NEW s \in Latest(table) PROVE s \in DOMAIN table
BY DEF Latest

LEMMA EnsuredTableType ==
    ASSUME TypeInv, NEW s \in Latest(SeasonTable), s <= MaxSeasons
    PROVE  /\ EnsuredTable(s) \in Seq(Season) /\ Len(EnsuredTable(s)) = Len(SeasonTable)
           /\ s \in SeasonIds /\ s \in DOMAIN SeasonTable
           /\ EnsuredTable(s)[s] = Ensured(SeasonTable[s], pool)
           /\ EnsuredTable(s)[s] \in Season
           /\ Len(SeasonTable) <= MaxSeasons
<1>1. s \in DOMAIN SeasonTable /\ pool \in Pool
  BY LatestType DEF TypeInv, TypeOK
<1>2. SeasonTable[s] \in Season /\ Ensured(SeasonTable[s], pool) \in Season
  BY <1>1, TableType, EnsuredType
<1>3. /\ EnsuredTable(s) \in Seq(Season) /\ Len(EnsuredTable(s)) = Len(SeasonTable)
      /\ EnsuredTable(s)[s] = Ensured(SeasonTable[s], pool)
  BY <1>1, <1>2, TableType DEF EnsuredTable
<1>4. s \in 1 .. Len(SeasonTable) /\ s \in SeasonIds
  BY <1>1, TableType DEF SeasonIds
<1>5. Len(SeasonTable) <= MaxSeasons
  <2>1. 1 <= s /\ s \in Nat /\ MaxSeasons \in Nat /\ Len(SeasonTable) \in Nat
    BY <1>4, TableType, Constants
  <2>2. CASE SeasonTable = seasons
    BY <2>2 DEF TypeInv, TypeOK
  <2>3. CASE Len(SeasonTable) = 1
    BY <2>1, <2>3
  <2> QED BY <2>2, <2>3, TableType
<1> QED BY <1>1, <1>2, <1>3, <1>4, <1>5

LEMMA ActiveType ==
    ASSUME TypeInv, NEW p \in Pool, NEW s \in SeasonIds
    PROVE  /\ ActiveRound(p, s) \in RoundIds
           /\ ActiveRound(p, s)[1] = s
           /\ ActiveRow(p, s) \in Round
           /\ PointedAt(p, s) \in Pool
<1> DEFINE id == ActiveRound(p, s)
<1>1. id \in RoundIds /\ id[1] = s
  BY DEF ActiveRound, Pool, RoundIds
<1>2. rounds[id] \in Round /\ Opened("open") \in Round /\ Opened("closed") \in Round
  BY <1>1 DEF TypeInv, TypeOK, Opened, Round
<1>3. ActiveRow(p, s) \in Round
  BY <1>2 DEF ActiveRow, ToRoundStatus
<1>4. PointedAt(p, s) \in Pool
  BY <1>1 DEF PointedAt, Pool, RoundIds
<1> QED BY <1>1, <1>3, <1>4

LEMMA PickedType ==
    ASSUME TypeInv, NEW s \in SeasonIds, NEW id \in RoundIds, NEW winner \in Wallets
    PROVE  Picked(s, id, winner) \in [RoundIds -> Round]
BY DEF Picked, TypeInv, TypeOK, Round, Opened

-----------------------------------------------------------------------------
(* What a step does to rounds and keys *)

\* Every round stays or moves on; what was picked stays as it is.
Forward ==
    \A id \in RoundIds : rounds'[id] # rounds[id] =>
        /\ ~IsPicked(id)
        /\ Stage(rounds[id].status) <= Stage(rounds'[id].status)

NothingPicked == UNCHANGED keys /\ \A id \in RoundIds : IsPicked(id)' <=> IsPicked(id)

\* One round is picked, for one key that had none, with a winner none of the
\* rounds of its season row has.
OnePicked ==
    \E id \in RoundIds, k \in Keys :
        /\ ~IsPicked(id) /\ IsPicked(id)'
        /\ keys[k] = NoRound /\ keys' = [keys EXCEPT ![k] = id]
        /\ \A o \in RoundIds \ {id} : IsPicked(o)' <=> IsPicked(o)
        /\ \A o \in RoundIds : o[1] = id[1] /\ IsPicked(o) => rounds[o].winner # rounds'[id].winner

LEMMA StageFacts ==
    /\ Stage("absent") = 0 /\ Stage("open") = 1 /\ Stage("closed") = 2 /\ Stage("winner_picked") = 3
BY DEF Stage

LEMMA CloseActiveRoundStep ==
    ASSUME TypeInv, CloseActiveRound PROVE TypeInv' /\ Forward /\ NothingPicked
<1>1. PICK s \in Latest(SeasonTable) :
        /\ s <= MaxSeasons /\ ActiveRow(pool, s).status = "open"
        /\ seasons' = EnsuredTable(s)
        /\ rounds' = [rounds EXCEPT ![ActiveRound(pool, s)] = Opened("closed")]
        /\ pool' = [PointedAt(pool, s) EXCEPT !.status = "round-closed"]
        /\ UNCHANGED <<members, keys, sent, reader, calls>>
  BY DEF CloseActiveRound
<1> DEFINE id == ActiveRound(pool, s)
<1>2. s \in SeasonIds /\ seasons' \in Seq(Season) /\ Len(seasons') <= MaxSeasons
  BY <1>1, EnsuredTableType
<1>3. id \in RoundIds /\ PointedAt(pool, s) \in Pool
  BY <1>2, ActiveType DEF TypeInv, TypeOK
<1>4. pool' \in Pool
  BY <1>1, <1>3 DEF Pool
<1>5. Opened("closed") \in Round /\ Opened("closed").status = "closed"
  BY DEF Opened, Round
<1>6. rounds[id].status \in {"absent", "open"}
  BY <1>1 DEF ActiveRow
<1>7. \A o \in RoundIds : rounds'[o] = IF o = id THEN Opened("closed") ELSE rounds[o]
  BY <1>1, <1>3 DEF TypeInv, TypeOK
<1>8. rounds' \in [RoundIds -> Round]
  BY <1>1, <1>3, <1>5 DEF TypeInv, TypeOK
<1>9. TypeInv'
  BY <1>1, <1>2, <1>4, <1>8 DEF TypeInv, TypeOK
<1>10. Forward
  BY <1>5, <1>6, <1>7, StageFacts DEF Forward, IsPicked
<1>11. NothingPicked
  BY <1>1, <1>5, <1>6, <1>7 DEF NothingPicked, IsPicked
<1> QED BY <1>9, <1>10, <1>11

LEMMA AdvanceType ==
    ASSUME TypeInv, NEW s \in Latest(SeasonTable), s <= MaxSeasons,
           EnsuredTable(s)[s].status # "completed", Advance(s, ActiveRound(pool, s))
    PROVE  seasons' \in Seq(Season) /\ Len(seasons') <= MaxSeasons /\ pool' \in Pool
<1> DEFINE id == ActiveRound(pool, s)
           table == EnsuredTable(s)
           completed == table[s].completedRounds + 1
           row == [table[s] EXCEPT !.completedRounds = completed,
                                   !.status = IF completed >= MaxMembers THEN "completed" ELSE @]
<1>1. /\ table \in Seq(Season) /\ s \in DOMAIN table /\ s \in SeasonIds
      /\ table[s] \in Season /\ Len(table) <= MaxSeasons
  BY EnsuredTableType
<1>2. completed \in 0 .. MaxMembers
  <2>1. SeasonTable[s] \in Season /\ table[s] = Ensured(SeasonTable[s], pool)
    BY EnsuredTableType, TableType
  <2>2. table[s].completedRounds < MaxMembers
    BY <2>1, EnsuredType DEF TypeInv, TypeOK
  <2>3. table[s].completedRounds \in Nat
    BY <1>1, Constants DEF Season
  <2> HIDE DEF table
  <2> QED BY <2>2, <2>3, Constants
<1>3. row \in Season
  BY <1>1, <1>2 DEF Season
<1>4. seasons' = [table EXCEPT ![s] = row]
  BY <1>1 DEF Advance
<1>5. id \in RoundIds /\ PointedAt(pool, s) \in Pool
  BY <1>1, ActiveType DEF TypeInv, TypeOK
<1>6. pool' \in Pool
  <2>1. CASE completed >= MaxMembers
    <3>1. pool' = [PointedAt(pool, s) EXCEPT !.status = "completed", !.activeRound = id]
      BY <2>1 DEF Advance
    <3> QED BY <3>1, <1>5 DEF Pool
  <2>2. CASE ~(completed >= MaxMembers)
    <3>1. /\ <<s, id[2] + 1>> \in RoundIds
          /\ pool' = [currentRound |-> id[2] + 1, status |-> "active", activeRound |-> <<s, id[2] + 1>>]
      BY <2>2 DEF Advance
    <3> QED BY <3>1 DEF Pool, RoundIds
  <2> QED BY <2>1, <2>2
<1> HIDE DEF table, row
<1> QED BY <1>1, <1>3, <1>4, <1>6

LEMMA PickStep ==
    ASSUME TypeInv, NEW k \in Keys, PickWinnerForActiveRound(k)
    PROVE  TypeInv' /\ Forward /\ OnePicked
<1>1. PICK s \in Latest(SeasonTable) :
        /\ s <= MaxSeasons /\ EnsuredTable(s)[s].status # "completed"
        /\ ActiveRow(pool, s).status = "closed"
        /\ \E winner \in Eligible(s) : rounds' = Picked(s, ActiveRound(pool, s), winner)
        /\ Advance(s, ActiveRound(pool, s))
        /\ keys[k] = NoRound /\ keys' = [keys EXCEPT ![k] = ActiveRound(pool, s)]
        /\ UNCHANGED <<members, sent, reader, calls>>
  BY DEF PickWinnerForActiveRound
<1> DEFINE id == ActiveRound(pool, s)
           completed == EnsuredTable(s)[s].completedRounds + 1
           next == <<s, id[2] + 1>>
<1>2. PICK winner \in Eligible(s) : rounds' = Picked(s, id, winner)
  BY <1>1
<1>3. s \in SeasonIds /\ id \in RoundIds /\ id[1] = s
  BY <1>1, EnsuredTableType, ActiveType DEF TypeInv, TypeOK
<1>4. winner \in Wallets /\ rounds' \in [RoundIds -> Round]
  BY <1>2, <1>3, PickedType DEF Eligible, TypeInv, TypeOK
<1>5. seasons' \in Seq(Season) /\ Len(seasons') <= MaxSeasons /\ pool' \in Pool
  BY <1>1, AdvanceType
<1>6. TypeInv'
  BY <1>1, <1>3, <1>4, <1>5 DEF TypeInv, TypeOK
<1>7. completed < MaxMembers => next \in RoundIds /\ rounds[next].status = "absent"
  <2>1. completed \in Int
    BY <1>1, <1>3, EnsuredTableType, Constants DEF Season
  <2> QED BY <2>1, <1>1, Constants DEF Advance
<1>8. next # id
  <2>1. id[2] \in Nat /\ id = <<id[1], id[2]>>
    BY <1>3 DEF RoundIds, Numbers
  <2> QED BY <2>1
<1>9. ~IsPicked(id)
  BY <1>1 DEF ActiveRow, IsPicked, Opened, ToRoundStatus
<1>10. \A o \in RoundIds :
         rounds'[o] = IF o = id THEN [status |-> "winner_picked", winner |-> winner]
                      ELSE IF o = next /\ completed < MaxMembers THEN Opened("open")
                      ELSE rounds[o]
  BY <1>2 DEF Picked
<1>11. Opened("open").status = "open" /\ rounds[id].status \in {"absent", "open", "closed", "winner_picked"}
  BY <1>3 DEF Opened, TypeInv, TypeOK, Round
<1> HIDE DEF id, completed, next
<1>12. Forward
  BY <1>7, <1>9, <1>10, <1>11, StageFacts DEF Forward, IsPicked
<1>13. \A o \in RoundIds : o # id => (rounds'[o].status = "winner_picked" <=> rounds[o].status = "winner_picked")
  BY <1>7, <1>10, <1>11 DEF IsPicked
<1>14. rounds'[id].status = "winner_picked" /\ rounds'[id].winner = winner
  BY <1>3, <1>10
<1>15. \A o \in RoundIds : o[1] = id[1] /\ IsPicked(o) => rounds[o].winner # winner
  <2> SUFFICES ASSUME NEW o \in RoundIds, o[1] = id[1], IsPicked(o), rounds[o].winner = winner
               PROVE  FALSE
    OBVIOUS
  <2>1. o = <<s, o[2]>> /\ o[2] \in Numbers
    BY <1>3 DEF RoundIds
  <2>2. rounds[<<s, o[2]>>].status = "winner_picked" /\ rounds[<<s, o[2]>>].winner = winner
    BY <2>1 DEF IsPicked
  <2> QED BY <1>2, <2>1, <2>2 DEF Eligible
<1>16. OnePicked
  <2>1. keys[k] = NoRound /\ keys' = [keys EXCEPT ![k] = id]
    BY <1>1 DEF id
  <2> QED BY <1>3, <1>9, <1>13, <1>14, <1>15, <2>1 DEF OnePicked, IsPicked
<1> QED BY <1>6, <1>12, <1>16

-----------------------------------------------------------------------------
(* Requests and events without a lock *)

LEMMA OtherStep ==
    ASSUME TypeInv, UNCHANGED <<rounds, keys>>
    PROVE  Forward /\ NothingPicked
BY DEF Forward, NothingPicked, IsPicked

LEMMA CallType ==
    ASSUME TypeInv, Call PROVE calls' \in 0 .. MaxCalls
BY Constants DEF Call, TypeInv, TypeOK

LEMMA SendPickStep ==
    ASSUME TypeInv, NEW k \in Keys, SendPick(k) PROVE TypeInv' /\ Forward /\ NothingPicked
<1>1. UNCHANGED <<rounds, keys>>
  BY DEF SendPick, rows
<1> QED BY <1>1, OtherStep DEF SendPick, TypeInv, TypeOK, rows

LEMMA AddMemberStep ==
    ASSUME TypeInv, NEW w \in Wallets, AddMember(w) PROVE TypeInv' /\ Forward /\ NothingPicked
<1>1. UNCHANGED <<rounds, keys>>
  BY DEF AddMember, rows
<1> QED BY <1>1, OtherStep DEF AddMember, TypeInv, TypeOK, rows

LEMMA LoadPoolStep ==
    ASSUME TypeInv, NEW r \in Readers, LoadPool(r) PROVE TypeInv' /\ Forward /\ NothingPicked
<1> DEFINE loaded == [at |-> "loaded", pool |-> pool, closed |-> FALSE]
<1>1. calls' \in 0 .. MaxCalls
  BY CallType DEF LoadPool
<1>2. loaded \in Loaded
  BY DEF TypeInv, TypeOK, Loaded
<1>3. reader' = [reader EXCEPT ![r] = loaded] /\ UNCHANGED <<pool, seasons, rounds, members, keys, sent>>
  BY DEF LoadPool, rows
<1> HIDE DEF loaded
<1>4. reader' \in [Readers -> {Idle} \cup Loaded \cup Read \cup Ready]
  BY <1>2, <1>3 DEF TypeInv
<1> QED BY <1>1, <1>3, <1>4, OtherStep DEF TypeInv, TypeOK

\* What a reader holds, by where it is.
LEMMA HeldType ==
    ASSUME TypeInv, NEW r \in Readers
    PROVE  /\ reader[r].at = "loaded" => reader[r] \in Loaded
           /\ reader[r].at = "read" => reader[r] \in Read
           /\ reader[r].at = "ensured" => reader[r] \in Ready
BY DEF TypeInv, Loaded, Read, Ready, Idle

LEMMA ReadSeasonStep ==
    ASSUME TypeInv, NEW r \in Readers, ReadSeason(r) PROVE TypeInv' /\ Forward /\ NothingPicked
<1>1. reader[r].pool \in Pool /\ reader[r].closed \in BOOLEAN
  BY HeldType DEF ReadSeason, Loaded
<1>2. PICK s \in Latest(seasons) \cup (IF seasons = <<>> THEN {0} ELSE {}) :
        reader' = [reader EXCEPT ![r] =
            [at |-> "read", pool |-> @.pool, closed |-> @.closed, id |-> s,
             season |-> IF s = 0 THEN NewSeason(1) ELSE seasons[s]]]
  BY DEF ReadSeason
<1> DEFINE season == IF s = 0 THEN NewSeason(1) ELSE seasons[s]
           read == [at |-> "read", pool |-> reader[r].pool, closed |-> reader[r].closed, id |-> s, season |-> season]
<1>3. s \in 0 .. MaxSeasons /\ season \in Season
  <2>1. CASE s = 0
    BY <2>1, NewSeasonType, Constants
  <2>2. CASE s # 0
    <3>1. s \in DOMAIN seasons
      BY <1>2, <2>2, LatestType
    <3> QED BY <2>2, <3>1, Constants DEF TypeInv, TypeOK
  <2> QED BY <2>1, <2>2
<1>4. reader' = [reader EXCEPT ![r] = read]
  BY <1>2 DEF TypeInv
<1> HIDE DEF season
<1>5. read \in Read
  BY <1>1, <1>3 DEF Read
<1> HIDE DEF read
<1>6. reader' \in [Readers -> {Idle} \cup Loaded \cup Read \cup Ready]
  BY <1>4, <1>5 DEF TypeInv
<1>7. UNCHANGED <<pool, seasons, rounds, members, keys, sent, calls>>
  BY DEF ReadSeason, rows
<1> QED BY <1>6, <1>7, OtherStep DEF TypeInv, TypeOK

LEMMA SavedSeasonsType ==
    ASSUME TypeInv, NEW mine \in Read
    PROVE  /\ Ensured(mine.season, mine.pool) \in Season
           /\ SavedSeasons(mine) \in Seq(Season)
           /\ Place(mine) <= MaxSeasons => Len(SavedSeasons(mine)) <= MaxSeasons /\ Place(mine) \in SeasonIds
<1> DEFINE ensured == Ensured(mine.season, mine.pool)
<1>1. mine.pool \in Pool /\ mine.season \in Season /\ mine.id \in 0 .. MaxSeasons
  BY DEF Read
<1>2. ensured \in Season
  BY <1>1, EnsuredType
<1>3. seasons \in Seq(Season) /\ Len(seasons) <= MaxSeasons /\ MaxSeasons \in Nat
  BY Constants DEF TypeInv, TypeOK
<1>4. CASE mine.id = 0
  <2>1. SavedSeasons(mine) = Append(seasons, ensured) /\ Place(mine) = Len(seasons) + 1
    BY <1>4 DEF SavedSeasons, Place
  <2> HIDE DEF ensured
  <2> QED BY <1>2, <1>3, <2>1 DEF SeasonIds, ensured
<1>5. CASE mine.id # 0
  <2>1. /\ SavedSeasons(mine) = [seasons EXCEPT ![mine.id] = ensured] \/ SavedSeasons(mine) = seasons
        /\ Place(mine) = mine.id
    BY <1>5 DEF SavedSeasons, Place
  <2> HIDE DEF ensured
  <2> QED BY <1>1, <1>2, <1>3, <1>5, <2>1 DEF SeasonIds, ensured
<1> QED BY <1>4, <1>5

LEMMA SaveSeasonStep ==
    ASSUME TypeInv, NEW r \in Readers, SaveSeason(r) PROVE TypeInv' /\ Forward /\ NothingPicked
<1> DEFINE mine == reader[r]
           ensured == Ensured(mine.season, mine.pool)
           ends == ensured.status = "completed" /\ mine.pool.status # "completed"
           loaded == IF ends THEN [mine.pool EXCEPT !.status = "completed"] ELSE mine.pool
           next == [at |-> "ensured", pool |-> loaded, closed |-> mine.closed, id |-> Place(mine), season |-> ensured]
<1>1. /\ mine.at = "read" /\ Place(mine) <= MaxSeasons
      /\ seasons' = SavedSeasons(mine)
      /\ pool' = IF ends THEN loaded ELSE pool
      /\ reader' = [reader EXCEPT ![r] = next]
      /\ UNCHANGED <<rounds, members, keys, sent, calls>>
  BY DEF SaveSeason
<1>2. mine \in Read
  BY <1>1, HeldType
<1>3. mine.pool \in Pool /\ mine.closed \in BOOLEAN
  BY <1>2 DEF Read
<1>4. /\ ensured \in Season /\ SavedSeasons(mine) \in Seq(Season)
      /\ Len(SavedSeasons(mine)) <= MaxSeasons /\ Place(mine) \in SeasonIds
  BY <1>1, <1>2, SavedSeasonsType
<1>5. loaded \in Pool
  BY <1>3 DEF Pool
<1> HIDE DEF ensured, loaded, ends
<1>6. next \in Ready
  BY <1>3, <1>4, <1>5 DEF Ready
<1> HIDE DEF next
<1>7. reader' \in [Readers -> {Idle} \cup Loaded \cup Read \cup Ready]
  BY <1>1, <1>6 DEF TypeInv
<1>8. pool' \in Pool
  BY <1>1, <1>5 DEF TypeInv, TypeOK
<1>9. TypeInv'
  BY <1>1, <1>4, <1>7, <1>8 DEF TypeInv, TypeOK
<1> QED BY <1>1, <1>9, OtherStep

LEMMA SavePoolStep ==
    ASSUME TypeInv, NEW r \in Readers, SavePool(r) PROVE TypeInv' /\ Forward /\ NothingPicked
<1> DEFINE mine == reader[r]
           id == ActiveRound(mine.pool, mine.id)
           row == ActiveRow(mine.pool, mine.id)
<1>1. /\ mine.at = "ensured"
      /\ rounds' = [rounds EXCEPT ![id] = row]
      /\ pool' = [mine.pool EXCEPT !.activeRound = id, !.currentRound = id[2]]
      /\ reader' = [reader EXCEPT ![r] = Idle]
      /\ UNCHANGED <<seasons, members, keys, sent, calls>>
  BY DEF SavePool
<1>2. mine.pool \in Pool /\ mine.id \in SeasonIds
  BY <1>1, HeldType DEF Ready
<1>3. id \in RoundIds /\ row \in Round
  BY <1>2, ActiveType
<1>4. \/ row = rounds[id]
      \/ rounds[id].status = "absent" /\ row.status \in {"open", "closed"}
  BY DEF ActiveRow, Opened, ToRoundStatus
<1> HIDE DEF id, row
<1>5. pool' \in Pool
  BY <1>1, <1>2, <1>3 DEF Pool, RoundIds
<1>6. rounds' \in [RoundIds -> Round] /\ \A o \in RoundIds : rounds'[o] = IF o = id THEN row ELSE rounds[o]
  BY <1>1, <1>3 DEF TypeInv, TypeOK
<1>7. reader' \in [Readers -> {Idle} \cup Loaded \cup Read \cup Ready]
  BY <1>1 DEF TypeInv
<1>8. TypeInv'
  BY <1>1, <1>5, <1>6, <1>7 DEF TypeInv, TypeOK
<1>9. Forward
  BY <1>4, <1>6, StageFacts DEF Forward, IsPicked
<1>10. NothingPicked
  BY <1>1, <1>4, <1>6 DEF NothingPicked, IsPicked
<1> QED BY <1>8, <1>9, <1>10

LEMMA CloseRoundStep ==
    ASSUME TypeInv, NEW r \in Readers, NEW round \in Numbers, CloseRound(r, round)
    PROVE  TypeInv' /\ Forward /\ NothingPicked
<1> DEFINE mine == reader[r]
           status == IF round + 1 > MaxMembers THEN "completed" ELSE "round-closed"
           closed == [mine.pool EXCEPT !.currentRound = round + 1, !.status = status]
           next == [at |-> "loaded", pool |-> closed, closed |-> TRUE]
<1>1. /\ mine.at = "ensured" /\ round + 1 \in Numbers
      /\ pool' = closed
      /\ reader' = [reader EXCEPT ![r] = next]
      /\ UNCHANGED <<seasons, rounds, members, keys, sent, calls>>
  BY DEF CloseRound
<1>2. mine.pool \in Pool
  BY <1>1, HeldType DEF Ready
<1>3. closed \in Pool
  BY <1>1, <1>2 DEF Pool
<1> HIDE DEF closed
<1>4. next \in Loaded
  BY <1>3 DEF Loaded
<1> HIDE DEF next
<1>5. reader' \in [Readers -> {Idle} \cup Loaded \cup Read \cup Ready]
  BY <1>1, <1>4 DEF TypeInv
<1>6. TypeInv'
  BY <1>1, <1>3, <1>5 DEF TypeInv, TypeOK
<1> QED BY <1>1, <1>6, OtherStep

LEMMA CreateNextSeasonStep ==
    ASSUME TypeInv, NEW r \in Readers, CreateNextSeason(r)
    PROVE  TypeInv' /\ Forward /\ NothingPicked
<1> DEFINE mine == reader[r]
           ensured == Ensured(mine.season, mine.pool)
<1>1. /\ mine.at = "read" /\ Len(SavedSeasons(mine)) < MaxSeasons
      /\ seasons' = Append(SavedSeasons(mine), NewSeason(ensured.number + 1))
      /\ pool' = [mine.pool EXCEPT !.currentRound = 1, !.status = "active"]
      /\ reader' = [reader EXCEPT ![r] = Idle]
      /\ UNCHANGED <<rounds, members, keys, sent, calls>>
  BY DEF CreateNextSeason
<1>2. mine \in Read /\ mine.pool \in Pool
  BY <1>1, HeldType DEF Read
<1>3. ensured \in Season /\ SavedSeasons(mine) \in Seq(Season)
  BY <1>2, SavedSeasonsType
<1> HIDE DEF ensured
<1>4. NewSeason(ensured.number + 1) \in Season
  <2>1. ensured.number + 1 \in Nat \ {0}
    BY <1>3 DEF Season
  <2> QED BY <2>1, NewSeasonType
<1>5. seasons' \in Seq(Season) /\ Len(seasons') <= MaxSeasons
  BY <1>1, <1>3, <1>4, Constants
<1>6. pool' \in Pool
  <2>1. 1 \in Numbers
    BY Constants DEF Numbers
  <2>2. pool' = [mine.pool EXCEPT !.currentRound = 1, !.status = "active"]
    BY <1>1
  <2> QED BY <1>2, <2>1, <2>2 DEF Pool
<1>7. reader' \in [Readers -> {Idle} \cup Loaded \cup Read \cup Ready]
  BY <1>1 DEF TypeInv
<1>8. TypeInv'
  BY <1>1, <1>5, <1>6, <1>7 DEF TypeInv, TypeOK
<1> QED BY <1>1, <1>8, OtherStep

LEMMA HandleRoundClosedStep ==
    ASSUME TypeInv, NEW r \in Readers, NEW round \in Numbers, HandleRoundClosed(r, round)
    PROVE  TypeInv' /\ Forward /\ NothingPicked
<1>1. /\ reader[r].at = "loaded" /\ round + 1 \in Numbers
      /\ pool' = [reader[r].pool EXCEPT !.currentRound = round + 1, !.status = "round-closed"]
      /\ reader' = [reader EXCEPT ![r] = Idle]
      /\ UNCHANGED <<seasons, rounds, members, keys, sent, calls>>
  BY DEF HandleRoundClosed
<1>2. reader[r].pool \in Pool
  BY <1>1, HeldType DEF Loaded
<1>3. pool' \in Pool
  BY <1>1, <1>2 DEF Pool
<1>4. reader' \in [Readers -> {Idle} \cup Loaded \cup Read \cup Ready]
  BY <1>1 DEF TypeInv
<1>5. TypeInv'
  BY <1>1, <1>3, <1>4 DEF TypeInv, TypeOK
<1> QED BY <1>1, <1>5, OtherStep

LEMMA LeaveStep ==
    ASSUME TypeInv, NEW r \in Readers, Leave(r) PROVE TypeInv' /\ Forward /\ NothingPicked
<1>1. reader' \in [Readers -> {Idle} \cup Loaded \cup Read \cup Ready]
  BY DEF Leave, TypeInv
<1>2. UNCHANGED <<pool, seasons, rounds, members, keys, sent, calls>>
  BY DEF Leave, rows
<1> QED BY <1>1, <1>2, OtherStep DEF TypeInv, TypeOK

LEMMA StepFacts ==
    ASSUME TypeInv, [Next]_vars
    PROVE  TypeInv' /\ Forward /\ (NothingPicked \/ OnePicked)
<1>1. CASE UNCHANGED vars
  <2>1. UNCHANGED <<rounds, keys>>
    BY <1>1 DEF vars
  <2> QED BY <1>1, <2>1, OtherStep DEF vars, TypeInv, TypeOK
<1>2. CASE CloseActiveRound
  BY <1>2, CloseActiveRoundStep
<1>3. ASSUME NEW k \in Keys, SendPick(k) \/ PickWinnerForActiveRound(k)
      PROVE  TypeInv' /\ Forward /\ (NothingPicked \/ OnePicked)
  BY <1>3, SendPickStep, PickStep
<1>4. ASSUME NEW w \in Wallets, AddMember(w) PROVE TypeInv' /\ Forward /\ NothingPicked
  BY <1>4, AddMemberStep
<1>5. ASSUME NEW r \in Readers,
             \/ LoadPool(r) \/ ReadSeason(r) \/ SaveSeason(r) \/ SavePool(r) \/ CreateNextSeason(r) \/ Leave(r)
             \/ \E round \in Numbers : CloseRound(r, round) \/ HandleRoundClosed(r, round)
      PROVE  TypeInv' /\ Forward /\ NothingPicked
  BY <1>5, LoadPoolStep, ReadSeasonStep, SaveSeasonStep, SavePoolStep, CreateNextSeasonStep, LeaveStep,
     CloseRoundStep, HandleRoundClosedStep
<1> QED BY <1>1, <1>2, <1>3, <1>4, <1>5 DEF Next

-----------------------------------------------------------------------------
(* The inductive invariant *)

IInv == TypeInv /\ OneWinnerPerKey /\ WinnersOfRowDiffer

LEMMA KeysKept ==
    ASSUME OneWinnerPerKey, NothingPicked, keys \in [Keys -> RoundIds \cup {NoRound}]
    PROVE  OneWinnerPerKey'
BY DEF OneWinnerPerKey, NothingPicked, IsPicked

LEMMA KeyUsed ==
    ASSUME TypeInv, OneWinnerPerKey, OnePicked
    PROVE  OneWinnerPerKey'
<1> DEFINE Of(round) == {j \in Keys : keys[j] = round}
<1>1. PICK id \in RoundIds, k \in Keys :
        /\ ~IsPicked(id) /\ IsPicked(id)'
        /\ keys[k] = NoRound /\ keys' = [keys EXCEPT ![k] = id]
        /\ \A o \in RoundIds \ {id} : IsPicked(o)' <=> IsPicked(o)
  BY DEF OnePicked
<1>2. keys \in [Keys -> RoundIds \cup {NoRound}]
  BY DEF TypeInv, TypeOK
<1>3. \A j \in Keys : keys'[j] = IF j = k THEN id ELSE keys[j]
  BY <1>1, <1>2
<1>4. \A j \in Keys : keys[j] # NoRound => keys[j] \in RoundIds \ {id} /\ IsPicked(keys[j])
  BY <1>1, <1>2 DEF OneWinnerPerKey
<1>5. \A j \in Keys : keys'[j] # NoRound => rounds'[keys'[j]].status = "winner_picked"
  <2> SUFFICES ASSUME NEW j \in Keys, keys'[j] # NoRound
               PROVE  rounds'[keys'[j]].status = "winner_picked"
    OBVIOUS
  <2>1. CASE j = k
    BY <1>1, <1>3, <2>1 DEF IsPicked
  <2>2. CASE j # k
    BY <1>1, <1>3, <1>4, <2>2 DEF IsPicked
  <2> QED BY <2>1, <2>2
<1>6. ASSUME NEW o \in RoundIds, IsPicked(o)' PROVE Cardinality({j \in Keys : keys'[j] = o}) = 1
  <2>1. CASE o = id
    <3>1. {j \in Keys : keys'[j] = o} = {k}
      BY <1>3, <1>4, <2>1, Constants
    <3> QED BY <3>1, FS_Singleton
  <2>2. CASE o # id
    <3>1. {j \in Keys : keys'[j] = o} = {j \in Keys : keys[j] = o}
      BY <1>1, <1>3, <2>2, Constants
    <3>2. IsPicked(o)
      BY <1>1, <1>6, <2>2
    <3> QED BY <3>1, <3>2 DEF OneWinnerPerKey
  <2> QED BY <2>1, <2>2
<1> QED BY <1>5, <1>6 DEF OneWinnerPerKey, IsPicked

LEMMA WinnersKept ==
    ASSUME WinnersOfRowDiffer, Forward, NothingPicked
    PROVE  WinnersOfRowDiffer'
<1>1. \A id \in RoundIds : IsPicked(id)' => IsPicked(id) /\ rounds'[id] = rounds[id]
  BY DEF Forward, NothingPicked
<1> QED BY <1>1 DEF WinnersOfRowDiffer

LEMMA WinnerAdded ==
    ASSUME WinnersOfRowDiffer, Forward, OnePicked
    PROVE  WinnersOfRowDiffer'
<1>1. PICK id \in RoundIds, k \in Keys :
        /\ \A o \in RoundIds \ {id} : IsPicked(o)' <=> IsPicked(o)
        /\ \A o \in RoundIds : o[1] = id[1] /\ IsPicked(o) => rounds[o].winner # rounds'[id].winner
  BY DEF OnePicked
<1>2. \A o \in RoundIds \ {id} : IsPicked(o)' => IsPicked(o) /\ rounds'[o] = rounds[o]
  BY <1>1 DEF Forward
<1> QED BY <1>1, <1>2 DEF WinnersOfRowDiffer

LEMMA InitIInv == Init => IInv
<1> SUFFICES ASSUME Init PROVE IInv
  OBVIOUS
<1>1. \A id \in RoundIds : ~IsPicked(id)
  BY DEF Init, Absent, IsPicked
<1>2. \A k \in Keys : keys[k] = NoRound
  BY DEF Init
<1> QED BY <1>1, <1>2, InitTypeInv DEF IInv, OneWinnerPerKey, WinnersOfRowDiffer

LEMMA NextIInv == IInv /\ [Next]_vars => IInv'
<1> SUFFICES ASSUME IInv, [Next]_vars PROVE IInv'
  OBVIOUS
<1>1. TypeInv' /\ Forward /\ (NothingPicked \/ OnePicked)
  BY StepFacts DEF IInv
<1>2. OneWinnerPerKey'
  BY <1>1, KeysKept, KeyUsed DEF IInv, TypeInv, TypeOK
<1>3. WinnersOfRowDiffer'
  BY <1>1, WinnersKept, WinnerAdded DEF IInv
<1> QED BY <1>1, <1>2, <1>3 DEF IInv

LEMMA Invariant == Spec => []IInv
BY InitIInv, NextIInv, PTL DEF Spec

-----------------------------------------------------------------------------
(* Theorems *)

\* The rows keep the ranges of their columns: completedRounds never passes
\* maxMembers, whatever round a client or the chain reports to closeRound and
\* the indexer.
THEOREM RowsTyped == Spec => []TypeOK
BY Invariant, PTL DEF IInv, TypeInv

\* Retries with one idempotency key pick at most once, and every pick has its
\* key (pickWinnerForActiveRound), for any number of clients and readers.
THEOREM KeyPicksOnce == Spec => []OneWinnerPerKey
BY Invariant, PTL DEF IInv

\* Nobody wins twice within a season row (pickWinnerForActiveRound).
THEOREM RowWinnersDiffer == Spec => []WinnersOfRowDiffer
BY Invariant, PTL DEF IInv

\* A round that was picked stays as it is, and no round goes back, whatever the
\* readers without a lock save (getPool).
THEOREM PickedStaysPicked == Spec => RoundsAreFinal
<1>1. IInv /\ [Next]_vars =>
        [\A id \in RoundIds :
            /\ Stage(rounds[id].status) <= Stage(rounds'[id].status)
            /\ IsPicked(id) => rounds'[id] = rounds[id]]_vars
  <2> SUFFICES ASSUME IInv, [Next]_vars, NEW id \in RoundIds
               PROVE  /\ Stage(rounds[id].status) <= Stage(rounds'[id].status)
                      /\ IsPicked(id) => rounds'[id] = rounds[id]
    OBVIOUS
  <2>1. Forward
    BY StepFacts DEF IInv
  <2>2. Stage(rounds[id].status) \in Int
    BY StageFacts DEF IInv, TypeInv, TypeOK, Round
  <2> QED BY <2>1, <2>2 DEF Forward
<1> QED BY <1>1, Invariant, PTL DEF Spec, RoundsAreFinal
=============================================================================
